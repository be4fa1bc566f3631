------------------------ MODULE ResponseDrain_proofs ------------------------
(***************************************************************************)
(* TLAPS proofs about ResponseDrain, for any number of turns, queries,     *)
(* tasks and wakeups.                                                      *)
(***************************************************************************)
EXTENDS ResponseDrain, FiniteSetTheorems, SequenceTheorems, TLAPS

-----------------------------------------------------------------------------
(* The inductive invariant.                                                *)

\* The conjuncts of TypeOK, by what they are about; nothing refers to a query that is not made.
TurnTypes ==
    /\ setting \in Settings
    /\ turn \in 0..MaxTurns /\ turn <= LastTurn /\ phase \in Phases
    /\ outcome \in {"none", "completed", "failed", "cancelled"}
    /\ cycle \in {"none", "block", "timed", "drain"}
    /\ consumed \in BOOLEAN /\ lastResult \in BOOLEAN
    /\ stamp \in BOOLEAN /\ rowCancelled \in BOOLEAN /\ invalidated \in BOOLEAN
    /\ verdict \in {"none", "passed", "refused"}
TrackTypes ==
    /\ tracked \subseteq Tasks
    /\ wakeTracked \in BOOLEAN /\ cycleEnded \in BOOLEAN /\ cycleWoke \in BOOLEAN
TicketTypes ==
    /\ tickets \in Seq(1..made) /\ IsInjective(tickets) /\ covered \subseteq ToSet(tickets)
QueryTypes ==
    /\ made \in 0..MaxQueries /\ of \in [Queries -> 0..MaxTurns]
    /\ early \subseteq 1..made /\ buffer \in Seq(1..made)
    /\ sending \subseteq 1..made /\ interrupting \subseteq sending
    /\ followup \in BOOLEAN
    /\ delivered \subseteq 1..made
CliTypes ==
    /\ answered \subseteq 1..made /\ answering \subseteq 1..made /\ inbox \in Seq(1..made)
    /\ up \in BOOLEAN /\ eof \in BOOLEAN /\ busy \in BOOLEAN /\ cliWake \in BOOLEAN
    /\ cliTasks \subseteq Tasks /\ spawned \in 0..MaxTasks /\ wakeups \in 0..MaxWakeups
Fits(m) ==
    /\ m.kind = "result" => m.what \subseteq 1..made
    /\ m.kind \in {"started", "ended"} => m.what \subseteq Tasks
StreamTypes == stream \in Seq(Messages) /\ \A i \in 1..Len(stream) : Fits(stream[i])
Types == TurnTypes /\ TrackTypes /\ TicketTypes /\ QueryTypes /\ CliTypes /\ StreamTypes

StampInv == stamp /\ phase \in Active \ {"stamp", "check", "clear"} => ~NeedsResult

\* The queries of the turn under way are those from its prompt on.
OwnInv ==
    /\ turn = 0 <=> phase = "idle"
    /\ \A q \in Queries : of[q] <= turn /\ (of[q] = 0 <=> q > made)
    /\ turn > 0 => Prompt \in 1..made /\ \A q \in Queries : of[q] = turn <=> q \in Prompt..made

\* No ticket is open between turns, nor when a turn leaves the loop with nothing owed.
TicketInv ==
    /\ phase \in {"idle", "launched", "ended"} => tickets = <<>>
    /\ phase \in {"leave", "validate"} => covered = {}
    /\ phase = "read" /\ cycle = "drain" => covered = {}
    /\ phase = "validate" /\ ~invalidated => tickets = <<>>
    /\ phase = "prompting" => tickets = <<Prompt>>
    /\ phase = "flushing" => tickets # <<>> /\ \A i \in 1..Len(tickets) :
          tickets[i] \in Prompt..Last(tickets)

\* The turn's own queries before it is ready: those before Sent have been delivered, the
\* others wait in order.
Sent == IF phase = "launched" THEN Prompt ELSE Last(tickets)
OrderInv ==
    /\ phase \in {"launched", "prompting", "flushing"} =>
          /\ \A q \in sending : q < Prompt
          /\ Len(buffer) = made - Sent
          /\ \A i \in 1..Len(buffer) : buffer[i] = Sent + i
          /\ \A q \in Prompt..made : q \in delivered <=> q < Sent
    /\ phase \in Reading \cup {"idle", "ended"} => buffer = <<>>
    /\ phase \in Reading => \A q \in early \cup {Prompt} : of[q] = turn => q \in delivered

IInv == Types /\ StampInv /\ OwnInv /\ TicketInv /\ OrderInv

-----------------------------------------------------------------------------
(* Lemmas about the constants and about sequences without repetition.      *)

LEMMA Constants ==
    /\ MaxTurns \in Nat /\ MaxQueries \in Nat
    /\ \A s \in Settings : /\ s.turns \in Nat /\ s.queries \in Nat
                           /\ s.tasks \in Nat /\ s.wakeups \in Nat
                           /\ s.turns <= MaxTurns /\ s.queries <= MaxQueries
BY DrainAssumption

LEMMA Bounds ==
    ASSUME setting \in Settings
    PROVE  /\ LastTurn \in Nat /\ LastQuery \in Nat /\ MaxTasks \in Nat /\ MaxWakeups \in Nat
           /\ LastTurn <= MaxTurns /\ LastQuery <= MaxQueries
           /\ MaxTurns \in Nat /\ MaxQueries \in Nat
BY Constants DEF LastTurn, LastQuery, MaxTasks, MaxWakeups

LEMMA Members ==
    ASSUME NEW S, NEW s \in Seq(S)
    PROVE  /\ Len(s) \in Nat /\ DOMAIN s = 1..Len(s) /\ \A i \in 1..Len(s) : s[i] \in S
           /\ ToSet(s) = {s[i] : i \in 1..Len(s)} /\ ToSet(s) \subseteq S
           /\ s = <<>> <=> Len(s) = 0
           /\ s = <<>> <=> ToSet(s) = {}
<1>1. Len(s) \in Nat /\ DOMAIN s = 1..Len(s) /\ \A i \in 1..Len(s) : s[i] \in S
    OBVIOUS
<1>2. ToSet(s) = {s[i] : i \in 1..Len(s)} /\ ToSet(s) \subseteq S
    BY <1>1 DEF ToSet
<1>3. s = <<>> <=> Len(s) = 0
    BY EmptySeq
<1>4. ToSet(s) = {} <=> Len(s) = 0
    BY <1>1, <1>2
<1> QED
    BY <1>1, <1>2, <1>3, <1>4

LEMMA Appended ==
    ASSUME NEW S, NEW T, S \subseteq T, NEW s \in Seq(S), NEW q \in T
    PROVE  /\ Append(s, q) \in Seq(T) /\ Len(Append(s, q)) = Len(s) + 1
           /\ \A i \in 1..Len(s) : Append(s, q)[i] = s[i]
           /\ Append(s, q)[Len(s) + 1] = q /\ Last(Append(s, q)) = q
           /\ Append(s, q) # <<>>
           /\ ToSet(Append(s, q)) = ToSet(s) \cup {q}
           /\ IsInjective(s) /\ q \notin ToSet(s) => IsInjective(Append(s, q))
<1> DEFINE a == Append(s, q)
<1>1. s \in Seq(T) /\ Len(s) \in Nat /\ DOMAIN s = 1..Len(s)
    OBVIOUS
<1>2. /\ a \in Seq(T) /\ Len(a) = Len(s) + 1 /\ DOMAIN a = 1..(Len(s) + 1)
      /\ \A i \in 1..Len(s) : a[i] = s[i]
      /\ a[Len(s) + 1] = q /\ a # <<>>
    BY <1>1, AppendProperties, EmptySeq
<1> HIDE DEF a
<1>3. Last(a) = q
    BY <1>2 DEF Last
<1>4. ToSet(a) = ToSet(s) \cup {q}
    BY <1>1, <1>2 DEF ToSet
<1>5. ASSUME IsInjective(s), q \notin ToSet(s) PROVE IsInjective(a)
    BY <1>1, <1>2, <1>5 DEF ToSet, IsInjective
<1> QED
    BY <1>2, <1>3, <1>4, <1>5 DEF a

LEMMA Tailed ==
    ASSUME NEW S, NEW s \in Seq(S), s # <<>>
    PROVE  /\ Tail(s) \in Seq(S) /\ Len(Tail(s)) = Len(s) - 1
           /\ Head(s) = s[1] /\ Head(s) \in S /\ 1 \in 1..Len(s)
           /\ \A i \in 1..(Len(s) - 1) : Tail(s)[i] = s[i + 1] /\ i + 1 \in 1..Len(s)
           /\ ToSet(s) = ToSet(Tail(s)) \cup {Head(s)}
           /\ IsInjective(s) => IsInjective(Tail(s))
<1> DEFINE t == Tail(s)
<1>1. Len(s) \in Nat \ {0} /\ DOMAIN s = 1..Len(s) /\ Head(s) = s[1] /\ Head(s) \in S
    BY EmptySeq, HeadTailProperties
<1>2. /\ t \in Seq(S) /\ Len(t) = Len(s) - 1 /\ DOMAIN t = 1..(Len(s) - 1)
      /\ \A i \in 1..(Len(s) - 1) : t[i] = s[i + 1]
    BY <1>1, HeadTailProperties
<1> HIDE DEF t
<1>3. \A j \in 1..Len(s) : j = 1 \/ (j - 1 \in 1..(Len(s) - 1) /\ t[j - 1] = s[j])
    BY <1>1, <1>2
<1>4. ToSet(s) = ToSet(t) \cup {Head(s)}
  <2>1. ToSet(s) = {s[i] : i \in 1..Len(s)} /\ ToSet(t) = {t[i] : i \in 1..(Len(s) - 1)}
      BY <1>1, <1>2 DEF ToSet
  <2>2. \A i \in 1..(Len(s) - 1) : t[i] = s[i + 1] /\ i + 1 \in 1..Len(s)
      BY <1>1, <1>2
  <2>3. \A j \in 1..Len(s) : s[j] = Head(s) \/ s[j] \in ToSet(t)
      BY <1>1, <1>3, <2>1
  <2>4. ToSet(t) \subseteq ToSet(s) /\ Head(s) \in ToSet(s)
      BY <1>1, <2>1, <2>2
  <2> QED
      BY <2>1, <2>3, <2>4
<1>5. ASSUME IsInjective(s), NEW a \in 1..(Len(s) - 1), NEW b \in 1..(Len(s) - 1), t[a] = t[b]
      PROVE  a = b
  <2>1. s[a + 1] = s[b + 1] /\ a + 1 \in 1..Len(s) /\ b + 1 \in 1..Len(s)
      BY <1>1, <1>2, <1>5
  <2>2. a + 1 = b + 1
      BY <1>1, <1>5, <2>1 DEF IsInjective
  <2> QED
      BY <2>2
<1>6. IsInjective(s) => IsInjective(t)
    BY <1>2, <1>5 DEF IsInjective
<1> QED
    BY <1>1, <1>2, <1>4, <1>6 DEF t

\* Removing the entry at a position: what PendingResults.discard does to the tickets.
LEMMA Removed ==
    ASSUME NEW S, NEW s \in Seq(S), IsInjective(s), NEW k \in 1..Len(s)
    PROVE  /\ RemoveAt(s, k) \in Seq(S) /\ Len(RemoveAt(s, k)) = Len(s) - 1
           /\ IsInjective(RemoveAt(s, k))
           /\ ToSet(RemoveAt(s, k)) = ToSet(s) \ {s[k]}
           /\ k # 1 => RemoveAt(s, k) # <<>> /\ Head(RemoveAt(s, k)) = Head(s)
<1> DEFINE L == Len(s)
           front == SubSeq(s, 1, k - 1)
           back == SubSeq(s, k + 1, L)
           r == RemoveAt(s, k)
<1>1. L \in Nat /\ DOMAIN s = 1..L /\ k \in 1..L /\ \A i \in 1..L : s[i] \in S
    OBVIOUS
<1>2. /\ front \in Seq(S) /\ Len(front) = k - 1
      /\ \A n \in 1..(k - 1) : front[n] = s[n]
    BY <1>1, SubSeqProperties
<1>3. /\ back \in Seq(S) /\ Len(back) = L - k
      /\ \A n \in 1..(L - k) : back[n] = s[k + n]
  <2>1. \A n \in (k + 1)..L : s[n] \in S
      BY <1>1
  <2>2. /\ back \in Seq(S)
        /\ Len(back) = IF k + 1 <= L THEN L - (k + 1) + 1 ELSE 0
        /\ \A n \in 1..(L - (k + 1) + 1) : back[n] = s[k + 1 + n - 1]
      BY <1>1, <2>1, SubSeqProperties
  <2> HIDE DEF back
  <2>k. k \in Int /\ L \in Int /\ k <= L
      BY <1>1
  <2>3. L - (k + 1) + 1 = L - k /\ (~ (k + 1 <= L) => L - k = 0)
      BY <2>k
  <2>4. \A n \in 1..(L - k) : k + 1 + n - 1 = k + n
      BY <1>1
  <2>5. Len(back) = L - k
      BY <2>2, <2>3
  <2>6. \A n \in 1..(L - k) : back[n] = s[k + n]
      BY <2>2, <2>3, <2>4
  <2> QED
      BY <2>2, <2>5, <2>6
<1>4. r = front \o back
    BY DEF RemoveAt
<1> HIDE DEF front, back, r, L
<1>5. /\ r \in Seq(S) /\ Len(r) = L - 1 /\ DOMAIN r = 1..(L - 1)
      /\ \A n \in 1..(L - 1) : r[n] = IF n < k THEN s[n] ELSE s[n + 1]
  <2>1. /\ r \in Seq(S) /\ Len(r) = (k - 1) + (L - k)
        /\ \A n \in 1..((k - 1) + (L - k)) : r[n] = IF n <= k - 1 THEN front[n] ELSE back[n - (k - 1)]
      BY <1>2, <1>3, <1>4, ConcatProperties
  <2>2. (k - 1) + (L - k) = L - 1
      BY <1>1
  <2>3. ASSUME NEW n \in 1..(L - 1) PROVE r[n] = IF n < k THEN s[n] ELSE s[n + 1]
    <3>1. CASE n < k
        BY <1>1, <1>2, <2>1, <2>2, <3>1
    <3>2. CASE ~(n < k)
      <4>1. n - (k - 1) \in 1..(L - k) /\ k + (n - (k - 1)) = n + 1
          BY <1>1, <3>2
      <4>2. r[n] = back[n - (k - 1)]
          BY <1>1, <2>1, <2>2, <3>2
      <4> QED
          BY <1>3, <3>2, <4>1, <4>2
    <3> QED
        BY <3>1, <3>2
  <2>4. DOMAIN r = 1..(L - 1) /\ Len(r) = L - 1
      BY <2>1, <2>2, LenProperties
  <2> QED
      BY <2>1, <2>3, <2>4
<1>7. ToSet(r) = ToSet(s) \ {s[k]}
  <2>1. ToSet(s) = {s[m] : m \in 1..L} /\ ToSet(r) = {r[n] : n \in 1..(L - 1)}
      BY <1>1, <1>5 DEF ToSet
  <2>2. ASSUME NEW n \in 1..(L - 1) PROVE r[n] \in ToSet(s) \ {s[k]}
    <3>1. PICK m \in 1..L : r[n] = s[m] /\ m # k
        BY <1>1, <1>5
    <3>2. s[m] # s[k]
        BY <1>1, <3>1 DEF IsInjective
    <3> QED
        BY <2>1, <3>1, <3>2
  <2>3. ASSUME NEW m \in 1..L, m # k PROVE s[m] \in ToSet(r)
    <3>1. CASE m < k
        BY <1>1, <1>5, <2>1, <3>1
    <3>2. CASE m > k
      <4>1. m - 1 \in 1..(L - 1) /\ ~(m - 1 < k) /\ (m - 1) + 1 = m
          BY <1>1, <3>2
      <4>2. r[m - 1] = s[m]
          BY <1>5, <4>1
      <4> QED
          BY <2>1, <4>1, <4>2
    <3> QED
        BY <1>1, <2>3, <3>1, <3>2
  <2> QED
      BY <2>1, <2>2, <2>3
<1>8. IsInjective(r)
  <2>1. ASSUME NEW a \in 1..(L - 1), NEW b \in 1..(L - 1), r[a] = r[b] PROVE a = b
    <3>1. /\ r[a] = s[IF a < k THEN a ELSE a + 1] /\ r[b] = s[IF b < k THEN b ELSE b + 1]
          /\ (IF a < k THEN a ELSE a + 1) \in 1..L /\ (IF b < k THEN b ELSE b + 1) \in 1..L
        BY <1>1, <1>5
    <3>2. (IF a < k THEN a ELSE a + 1) = (IF b < k THEN b ELSE b + 1)
        BY <1>1, <2>1, <3>1 DEF IsInjective
    <3> QED
        BY <1>1, <3>2
  <2> QED
      BY <1>5, <2>1 DEF IsInjective
<1>9. ASSUME k # 1 PROVE r # <<>> /\ Head(r) = Head(s)
  <2>1. L - 1 >= 1 /\ r[1] = s[1]
      BY <1>1, <1>5, <1>9
  <2>2. r # <<>>
      BY <1>5, <2>1, EmptySeq
  <2>3. Head(r) = r[1] /\ Head(s) = s[1]
      OBVIOUS
  <2> QED
      BY <2>1, <2>2, <2>3
<1> QED
    BY <1>5, <1>7, <1>8, <1>9 DEF r, L

-----------------------------------------------------------------------------
(* Steps by what they leave alone.                                         *)

LEMMA PromptIs ==
    ASSUME NEW p \in Queries, of[p] = turn, \A q \in Queries : of[q] = turn => p <= q
    PROVE  Prompt = p
<1>1. /\ Prompt \in Queries /\ of[Prompt] = turn
      /\ \A q \in Queries : of[q] = turn => Prompt <= q
    BY DEF Prompt
<1>2. p <= Prompt /\ Prompt <= p
    BY <1>1
<1>3. p \in Int /\ Prompt \in Int
    BY <1>1 DEF Queries
<1> QED
    BY <1>2, <1>3

LEMMA PromptKept == UNCHANGED <<turn, of>> => Prompt' = Prompt
BY DEF Prompt

LEMMA SettingKept ==
    ASSUME UNCHANGED setting
    PROVE  LastTurn' = LastTurn /\ LastQuery' = LastQuery /\ Tasks' = Tasks
           /\ MaxTasks' = MaxTasks /\ MaxWakeups' = MaxWakeups /\ CliExits' = CliExits
           /\ Validates' = Validates /\ Messages' = Messages
BY DEF Messages, LastTurn, LastQuery, Tasks, MaxTasks, MaxWakeups, CliExits, Validates

LEMMA FitsKept == UNCHANGED <<setting, made>> => \A m : Fits(m)' <=> Fits(m)
BY SettingKept DEF Fits

LEMMA StreamKept == IInv /\ UNCHANGED <<setting, made, stream>> => StreamTypes'
BY SettingKept, FitsKept DEF IInv, Types, StreamTypes

LEMMA OwnKept ==
    ASSUME OwnInv, UNCHANGED <<turn, of, made>>, phase = "idle" <=> phase' = "idle"
    PROVE  OwnInv' /\ Prompt' = Prompt
BY PromptKept DEF OwnInv

\* A query is made for the turn under way.
LEMMA OwnGrows ==
    ASSUME IInv, turn > 0, made < LastQuery, made' = made + 1,
           of' = [of EXCEPT ![made + 1] = turn], UNCHANGED turn, phase' # "idle"
    PROVE  /\ OwnInv' /\ Prompt' = Prompt /\ Prompt \in 1..made
           /\ made + 1 \in Queries /\ made' \in 0..MaxQueries
           /\ of' \in [Queries -> 0..MaxTurns]
<1>1. /\ made \in Nat /\ made < MaxQueries /\ MaxQueries \in Nat /\ turn \in 0..MaxTurns
      /\ of \in [Queries -> 0..MaxTurns] /\ MaxTurns \in Nat
    BY Bounds DEF IInv, Types, TurnTypes, QueryTypes
<1>2. made + 1 \in Queries /\ made' \in 0..MaxQueries /\ of' \in [Queries -> 0..MaxTurns]
    BY <1>1 DEF Queries
<1>3. /\ Prompt \in 1..made
      /\ \A q \in Queries : of[q] <= turn /\ (of[q] = 0 <=> q > made)
      /\ \A q \in Queries : of[q] = turn <=> q \in Prompt..made
    BY DEF IInv, OwnInv
<1>4. \A q \in Queries : of'[q] = IF q = made + 1 THEN turn ELSE of[q]
    BY <1>1, <1>2
<1>5. \A q \in Queries : of'[q] = turn <=> q \in Prompt..(made + 1)
    BY <1>1, <1>3, <1>4 DEF Queries
<1>6. Prompt' = Prompt
  <2>1. Prompt \in Queries
      BY <1>1, <1>3 DEF Queries
  <2>2. of'[Prompt] = turn' /\ \A q \in Queries : of'[q] = turn' => Prompt <= q
      BY <1>1, <1>3, <1>5, <2>1 DEF Queries
  <2>3. \A p \in Queries : of'[p] = turn' /\ (\A q \in Queries : of'[q] = turn' => p <= q) => p = Prompt
      BY <2>1, <2>2 DEF Queries
  <2>4. /\ Prompt' \in Queries /\ of'[Prompt'] = turn'
        /\ \A q \in Queries : of'[q] = turn' => Prompt' <= q
      BY <2>1, <2>2 DEF Prompt
  <2> QED
      BY <2>3, <2>4
<1>7. \A q \in Queries : of'[q] <= turn /\ (of'[q] = 0 <=> q > made + 1)
    BY <1>1, <1>3, <1>4 DEF Queries
<1>8. OwnInv'
  <2>1. turn' # 0 /\ phase' # "idle"
      BY <1>1
  <2>2. Prompt' \in 1..made'
      BY <1>1, <1>3, <1>6
  <2>3. \A q \in Queries : of'[q] = turn' <=> q \in Prompt'..made'
      BY <1>5, <1>6
  <2> QED
      BY <1>7, <2>1, <2>2, <2>3 DEF OwnInv
<1> QED
    BY <1>2, <1>3, <1>6, <1>8

\* The turn ends.
LEMMA EndStep ==
    ASSUME IInv, phase # "idle", NEW o \in {"completed", "failed", "cancelled"}, End(o),
           Disconnect \/ (KeepClient /\ tickets = <<>>)
    PROVE  IInv'
<1>1. /\ UNCHANGED <<setting, turn, stamp, rowCancelled, verdict, invalidated, answered>>
      /\ UNCHANGED <<made, of, early, delivered, spawned, wakeups>>
      /\ phase' = "ended" /\ outcome' = o /\ buffer' = <<>>
      /\ cycle' = "none" /\ consumed' = FALSE /\ lastResult' = FALSE
      /\ tracked' = {} /\ wakeTracked' = FALSE /\ cycleEnded' = FALSE /\ cycleWoke' = FALSE
    BY DEF End, Disconnect, KeepClient, rowVars, validVars, cliVars
<1>e. \A n : <<>> \in Seq(1..n)
    OBVIOUS
<1>2. tickets' = <<>> /\ covered' = {} /\ tickets' \in Seq(1..made)
  <2>1. CASE Disconnect
      BY <2>1 DEF Disconnect, ClearTickets
  <2>2. CASE KeepClient /\ tickets = <<>>
      BY <2>2 DEF KeepClient, ticketVars, IInv, Types, TicketTypes, ToSet
  <2> QED
      BY <2>1, <2>2
<1>3. TurnTypes' /\ TrackTypes'
    BY <1>1, SettingKept DEF IInv, Types, TurnTypes, TrackTypes, Phases
<1>4. TicketTypes'
    BY <1>1, <1>2 DEF TicketTypes, ToSet, IsInjective
<1>5. QueryTypes' /\ CliTypes' /\ StreamTypes'
  <2>1. CASE Disconnect
    <3>1. /\ sending' = {} /\ interrupting' = {} /\ followup' = FALSE /\ up' = FALSE /\ eof' = FALSE
          /\ inbox' = <<>> /\ busy' = FALSE /\ answering' = {} /\ stream' = <<>>
          /\ cliTasks' = {} /\ cliWake' = FALSE
        BY <2>1 DEF Disconnect, ClearTickets
    <3>2. QueryTypes'
        BY <1>1, <1>e, <3>1 DEF IInv, Types, QueryTypes
    <3>3. CliTypes'
        BY <1>1, <1>e, <3>1, SettingKept DEF IInv, Types, CliTypes
    <3>4. StreamTypes'
        BY <3>1 DEF StreamTypes
    <3> QED
        BY <3>2, <3>3, <3>4
  <2>2. CASE KeepClient
    <3>1. QueryTypes'
        BY <1>1, <2>2 DEF IInv, Types, QueryTypes, KeepClient
    <3>2. CliTypes'
        BY <1>1, <2>2, SettingKept DEF IInv, Types, CliTypes, KeepClient, cliVars
    <3>3. StreamTypes'
        BY <1>1, <2>2, StreamKept DEF KeepClient
    <3> QED
        BY <3>1, <3>2, <3>3
  <2> QED
      BY <2>1, <2>2
<1>6. StampInv'
    BY <1>1 DEF StampInv, Active, Reading
<1>7. OwnInv'
    BY <1>1, OwnKept DEF IInv
<1>8. TicketInv' /\ OrderInv'
    BY <1>1, <1>2 DEF TicketInv, OrderInv, Reading
<1> QED
    BY <1>3, <1>4, <1>5, <1>6, <1>7, <1>8 DEF IInv, Types

\* A step of the CLI.
LEMMA CliStep ==
    ASSUME IInv, CliUnchanged, CliTypes', StreamTypes'
    PROVE  IInv'
<1>1. /\ UNCHANGED <<setting, turn, phase, outcome, cycle, consumed, lastResult>>
      /\ UNCHANGED <<tracked, wakeTracked, cycleEnded, cycleWoke, stamp, rowCancelled>>
      /\ UNCHANGED <<verdict, invalidated, made, of, early, buffer, sending, interrupting>>
      /\ UNCHANGED <<followup, delivered, tickets, covered>>
    BY DEF CliUnchanged, turnVars, readVars, trackVars, rowVars, validVars, queryVars, ticketVars
<1>2. TurnTypes' /\ TrackTypes' /\ TicketTypes' /\ QueryTypes'
    BY <1>1, SettingKept DEF IInv, Types, TurnTypes, TrackTypes, TicketTypes, QueryTypes
<1>3. StampInv'
    BY <1>1 DEF IInv, StampInv, NeedsResult
<1>4. OwnInv' /\ Prompt' = Prompt
    BY <1>1, OwnKept DEF IInv
<1>5. TicketInv'
    BY <1>1, <1>4 DEF IInv, TicketInv
<1>6. OrderInv'
    BY <1>1, <1>4 DEF IInv, OrderInv, Sent
<1> QED
    BY <1>2, <1>3, <1>4, <1>5, <1>6 DEF IInv, Types

\* A step of the reader: the turn stays in its loop and makes no query.
LEMMA ReaderStep ==
    ASSUME IInv, phase \in Reading, phase' \in Reading,
           UNCHANGED <<setting, turn, made, of, early, buffer, delivered>>,
           sending' \subseteq sending, interrupting' \subseteq sending', followup' \in BOOLEAN,
           TurnTypes', TrackTypes', TicketTypes', CliTypes', StreamTypes', StampInv', TicketInv'
    PROVE  IInv'
<1>1. QueryTypes'
    BY DEF IInv, Types, QueryTypes
<1>2. phase # "idle" /\ phase' # "idle"
    BY DEF Reading
<1>3. OwnInv' /\ Prompt' = Prompt
    BY <1>2, OwnKept DEF IInv
<1>4. OrderInv'
  <2>1. buffer = <<>> /\ \A q \in early \cup {Prompt} : of[q] = turn => q \in delivered
      BY DEF IInv, OrderInv
  <2>2. phase' \notin {"launched", "prompting", "flushing"}
      BY DEF Reading
  <2> QED
      BY <1>3, <2>1, <2>2 DEF OrderInv
<1> QED
    BY <1>1, <1>3, <1>4 DEF IInv, Types

-----------------------------------------------------------------------------
(* The steps of the CLI and the messages of its stream.                    *)

LEMMA Extended ==
    ASSUME NEW s \in Seq(Messages), \A i \in 1..Len(s) : Fits(s[i]), NEW m \in Messages, Fits(m)
    PROVE  /\ Append(s, m) \in Seq(Messages)
           /\ \A i \in 1..Len(Append(s, m)) : Fits(Append(s, m)[i])
<1> DEFINE a == Append(s, m)
<1>1. /\ a \in Seq(Messages) /\ Len(a) = Len(s) + 1 /\ Len(s) \in Nat
      /\ (\A i \in 1..Len(s) : a[i] = s[i]) /\ a[Len(s) + 1] = m
    BY AppendProperties
<1> HIDE DEF a
<1>2. \A i \in 1..Len(a) : i \in 1..Len(s) \/ i = Len(s) + 1
    BY <1>1
<1>3. \A i \in 1..Len(a) : Fits(a[i])
  <2> TAKE i \in 1..Len(a)
  <2>1. CASE i \in 1..Len(s)
    <3>1. a[i] = s[i]
        BY <1>1, <2>1
    <3> QED
        BY <2>1, <3>1
  <2>2. CASE i = Len(s) + 1
    <3>1. a[i] = m
        BY <1>1, <2>2
    <3> QED
        BY <3>1
  <2> QED
      BY <1>2, <2>1, <2>2
<1> QED
    BY <1>1, <1>3 DEF a

LEMMA StreamGrows ==
    ASSUME IInv, UNCHANGED <<setting, made>>, NEW m \in Messages, Fits(m),
           stream' = Append(stream, m)
    PROVE  StreamTypes'
<1>1. stream' \in Seq(Messages) /\ \A i \in 1..Len(stream') : Fits(stream'[i])
    BY Extended DEF IInv, Types, StreamTypes
<1> QED
    BY <1>1, SettingKept DEF StreamTypes, Fits

LEMMA Fitting ==
    ASSUME IInv
    PROVE  /\ Content \in Messages /\ Fits(Content) /\ Noop \in Messages /\ Fits(Noop)
           /\ Result(answering) \in Messages /\ Fits(Result(answering))
           /\ Message("wakeup", {}) \in Messages /\ Fits(Message("wakeup", {}))
           /\ \A k \in Tasks : /\ Message("started", {k}) \in Messages /\ Fits(Message("started", {k}))
                               /\ Message("ended", {k}) \in Messages /\ Fits(Message("ended", {k}))
<1>1. answering \subseteq 1..made /\ answering \subseteq Queries
    BY Constants DEF IInv, Types, CliTypes, QueryTypes, Queries
<1> DEFINE W == (SUBSET Queries) \cup (SUBSET Tasks)
<1>2. /\ answering \in W /\ {} \in W
      /\ \A k \in Tasks : {k} \in W /\ {k} \subseteq Tasks
  <2>1. answering \in SUBSET Queries /\ {} \in SUBSET Tasks
      BY <1>1
  <2>2. \A k \in Tasks : {k} \subseteq Tasks
      OBVIOUS
  <2>3. \A k \in Tasks : {k} \in SUBSET Tasks
      BY <2>2
  <2> QED
      BY <2>1, <2>2, <2>3
<1> HIDE DEF W
<1>3. /\ Content \in Messages /\ Noop \in Messages /\ Result(answering) \in Messages
      /\ Message("wakeup", {}) \in Messages
      /\ \A k \in Tasks : Message("started", {k}) \in Messages /\ Message("ended", {k}) \in Messages
    BY <1>2 DEF W, Messages, Message, Content, Noop, Result
<1>4. /\ Fits(Content) /\ Fits(Noop) /\ Fits(Result(answering)) /\ Fits(Message("wakeup", {}))
      /\ \A k \in Tasks : Fits(Message("started", {k})) /\ Fits(Message("ended", {k}))
    BY <1>1, <1>2 DEF Fits, Message, Content, Noop, Result
<1> QED
    BY <1>3, <1>4

LEMMA CliSteps ==
    ASSUME IInv, \/ CliBegin \/ CliResult \/ CliWakes \/ CliJoin \/ CliSpawn \/ CliSchedule \/ CliExit
                 \/ \E k \in Tasks : CliTaskEnd(k)
    PROVE  IInv'
<1>0. CliUnchanged => UNCHANGED <<setting, made, up, answered>>
    BY DEF CliUnchanged, turnVars, queryVars
<1>1. CASE CliBegin
  <2>1. CliUnchanged /\ UNCHANGED <<setting, made, up, answered>>
      BY <1>0, <1>1 DEF CliBegin
  <2>2. StreamTypes'
      BY <1>1, <2>1, StreamGrows, Fitting DEF CliBegin
  <2>3. inbox # <<>> /\ inbox \in Seq(1..made)
      BY <1>1 DEF CliBegin, IInv, Types, CliTypes
  <2>4. Head(inbox) \in 1..made /\ Tail(inbox) \in Seq(1..made)
      BY <2>3, Tailed
  <2>5. CliTypes'
      BY <1>1, <2>1, <2>4, SettingKept DEF CliBegin, IInv, Types, CliTypes
  <2> QED
      BY <2>1, <2>2, <2>5, CliStep
<1>2. CASE CliResult
  <2>1. CliUnchanged /\ UNCHANGED <<setting, made, up, answered>>
      BY <1>0, <1>2 DEF CliResult
  <2>2. StreamTypes'
      BY <1>2, <2>1, StreamGrows, Fitting DEF CliResult
  <2>5. CliTypes'
      BY <1>2, <2>1, SettingKept DEF CliResult, IInv, Types, CliTypes
  <2> QED
      BY <2>1, <2>2, <2>5, CliStep
<1>3. CASE CliWakes
  <2>1. CliUnchanged /\ UNCHANGED <<setting, made, up, answered>>
      BY <1>0, <1>3 DEF CliWakes
  <2>2. StreamTypes'
      BY <1>3, <2>1, StreamGrows, Fitting DEF CliWakes
  <2>5. CliTypes'
      BY <1>3, <2>1, SettingKept DEF CliWakes, IInv, Types, CliTypes
  <2> QED
      BY <2>1, <2>2, <2>5, CliStep
<1>4. CASE CliJoin
  <2>1. CliUnchanged /\ UNCHANGED <<setting, made, up, answered>>
      BY <1>0, <1>4 DEF CliJoin
  <2>2. StreamTypes'
      BY <1>4, <2>1, StreamKept DEF CliJoin
  <2>3. inbox # <<>> /\ inbox \in Seq(1..made)
      BY <1>4 DEF CliJoin, IInv, Types, CliTypes
  <2>4. Head(inbox) \in 1..made /\ Tail(inbox) \in Seq(1..made)
      BY <2>3, Tailed
  <2>5. CliTypes'
      BY <1>4, <2>1, <2>4, SettingKept DEF CliJoin, IInv, Types, CliTypes
  <2> QED
      BY <2>1, <2>2, <2>5, CliStep
<1>5. CASE CliSpawn
  <2>1. CliUnchanged /\ UNCHANGED <<setting, made, up, answered>>
      BY <1>0, <1>5 DEF CliSpawn
  <2>3. spawned + 1 \in Tasks /\ spawned + 1 \in 0..MaxTasks
      BY <1>5, Bounds DEF CliSpawn, IInv, Types, TurnTypes, CliTypes, Tasks
  <2>2. StreamTypes'
      BY <1>5, <2>1, <2>3, StreamGrows, Fitting DEF CliSpawn
  <2>5. CliTypes'
      BY <1>5, <2>1, <2>3, SettingKept DEF CliSpawn, IInv, Types, CliTypes
  <2> QED
      BY <2>1, <2>2, <2>5, CliStep
<1>6. CASE CliSchedule
  <2>1. CliUnchanged /\ UNCHANGED <<setting, made, up, answered>>
      BY <1>0, <1>6 DEF CliSchedule
  <2>2. StreamTypes'
      BY <1>6, <2>1, StreamGrows, Fitting DEF CliSchedule
  <2>3. wakeups + 1 \in 0..MaxWakeups
      BY <1>6, Bounds DEF CliSchedule, IInv, Types, TurnTypes, CliTypes
  <2>5. CliTypes'
      BY <1>6, <2>1, <2>3, SettingKept DEF CliSchedule, IInv, Types, CliTypes
  <2> QED
      BY <2>1, <2>2, <2>5, CliStep
<1>7. CASE CliExit
  <2>1. CliUnchanged /\ UNCHANGED <<setting, made, up, answered>>
      BY <1>0, <1>7 DEF CliExit
  <2>2. StreamTypes'
      BY <1>7, <2>1, StreamKept DEF CliExit
  <2>3. <<>> \in Seq(1..made)
      OBVIOUS
  <2>5. CliTypes'
      BY <1>7, <2>1, <2>3, SettingKept DEF CliExit, IInv, Types, CliTypes
  <2> QED
      BY <2>1, <2>2, <2>5, CliStep
<1>8. ASSUME NEW k \in Tasks, CliTaskEnd(k) PROVE IInv'
  <2>1. CliUnchanged /\ UNCHANGED <<setting, made, up, answered>>
      BY <1>0, <1>8 DEF CliTaskEnd
  <2>2. PICK follows \in BOOLEAN :
            /\ busy' = (busy \/ follows)
            /\ stream' = stream \o <<Message("ended", {k})>> \o (IF follows THEN <<Content>> ELSE <<>>)
      BY <1>8 DEF CliTaskEnd
  <2> DEFINE s == Append(stream, Message("ended", {k}))
  <2>3. s \in Seq(Messages) /\ \A i \in 1..Len(s) : Fits(s[i])
      BY Extended, Fitting DEF IInv, Types, StreamTypes
  <2>4. stream \o <<Message("ended", {k})>> = s
      BY Fitting, AppendIsConcat DEF IInv, Types, StreamTypes
  <2>5. stream' = s \/ stream' = Append(s, Content)
    <3> HIDE DEF s
    <3>1. stream' = s \o (IF follows THEN <<Content>> ELSE <<>>)
        BY <2>2, <2>4
    <3>2. s \o <<>> = s /\ s \o <<Content>> = Append(s, Content)
        BY <2>3, Fitting, AppendIsConcat, ConcatEmptySeq
    <3> QED
        BY <3>1, <3>2
  <2> HIDE DEF s
  <2>6. stream' \in Seq(Messages) /\ \A i \in 1..Len(stream') : Fits(stream'[i])
      BY <2>3, <2>5, Extended, Fitting
  <2>7. StreamTypes'
      BY <2>1, <2>6, SettingKept DEF StreamTypes, Fits
  <2>8. CliTypes'
      BY <1>8, <2>1, <2>2, SettingKept DEF CliTaskEnd, IInv, Types, CliTypes
  <2> QED
      BY <2>1, <2>7, <2>8, CliStep
<1> QED
    BY <1>1, <1>2, <1>3, <1>4, <1>5, <1>6, <1>7, <1>8

-----------------------------------------------------------------------------
(* The steps of the reader.                                                *)

LEMMA CliKept == IInv /\ UNCHANGED <<setting, made, answered, cliVars>> => CliTypes'
BY SettingKept DEF IInv, Types, CliTypes, cliVars

\* What receiving a message leaves alone, and what it may find.
LEMMA Received ==
    ASSUME IInv, NEW kind, Receive(kind)
    PROVE  /\ phase = "read" /\ stream # <<>> /\ Head(stream).kind = kind /\ StreamTypes'
           /\ Fits(Head(stream)) /\ Head(stream) = stream[1]
           /\ cycle' \in {"none", "block", "timed", "drain"} /\ (cycle' = "drain" => cycle = "drain")
           /\ UNCHANGED <<setting, turn, outcome, rowCancelled, verdict, invalidated>>
           /\ UNCHANGED <<made, of, early, buffer, sending, interrupting, delivered, cliVars>>
           /\ followup' \in BOOLEAN /\ stream' = Tail(stream)
<1>1. /\ phase = "read" /\ stream # <<>> /\ Head(stream).kind = kind /\ stream' = Tail(stream)
      /\ cycle' = IF cycle = "timed" THEN "block" ELSE cycle
      /\ followup' = (followup /\ cycle # "timed")
      /\ UNCHANGED <<setting, turn, outcome, rowCancelled, verdict, invalidated>>
      /\ UNCHANGED <<made, of, early, buffer, sending, interrupting, delivered, cliVars>>
    BY DEF Receive, validVars
<1>2. stream \in Seq(Messages) /\ \A i \in 1..Len(stream) : Fits(stream[i])
    BY DEF IInv, Types, StreamTypes
<1>3. /\ stream' \in Seq(Messages) /\ Len(stream') = Len(stream) - 1
      /\ Head(stream) = stream[1] /\ 1 \in 1..Len(stream)
      /\ \A i \in 1..(Len(stream) - 1) : stream'[i] = stream[i + 1] /\ i + 1 \in 1..Len(stream)
    BY <1>1, <1>2, Tailed
<1>4. \A i \in 1..Len(stream') : Fits(stream'[i])
  <2> TAKE i \in 1..Len(stream')
  <2>1. stream'[i] = stream[i + 1] /\ i + 1 \in 1..Len(stream)
      BY <1>3
  <2> QED
      BY <1>2, <2>1
<1>5. StreamTypes'
    BY <1>1, <1>3, <1>4, SettingKept DEF StreamTypes, Fits
<1>6. Fits(Head(stream))
    BY <1>2, <1>3
<1>7. cycle' \in {"none", "block", "timed", "drain"} /\ (cycle' = "drain" => cycle = "drain")
    BY <1>1 DEF IInv, Types, TurnTypes
<1>8. followup' \in BOOLEAN
    BY <1>1
<1> QED
    BY <1>1, <1>3, <1>5, <1>6, <1>7, <1>8

\* A message that settles no ticket.
LEMMA MessageStep ==
    ASSUME IInv, NEW kind, Receive(kind), phase' \in {"read", "top"},
           UNCHANGED <<consumed, lastResult, ticketVars, answered>>, TrackTypes',
           stamp' \in {stamp, FALSE}
    PROVE  IInv'
<1>1. /\ phase \in Reading /\ phase' \in Reading /\ phase' \in Phases
      /\ UNCHANGED <<setting, turn, made, tickets, covered>>
      /\ StreamTypes' /\ CliTypes'
    BY Received, CliKept DEF Reading, Phases, ticketVars
<1>2. TurnTypes'
    BY <1>1, Received, SettingKept DEF IInv, Types, TurnTypes
<1>3. TicketTypes' /\ TicketInv'
  <2>1. phase = "read" /\ (cycle' = "drain" => cycle = "drain")
      BY Received
  <2> QED
      BY <1>1, <2>1 DEF IInv, Types, TicketTypes, TicketInv
<1>4. StampInv'
  <2>1. phase = "read" /\ stamp \in BOOLEAN
      BY Received DEF IInv, Types, TurnTypes
  <2> QED
      BY <1>1, <2>1 DEF IInv, StampInv, NeedsResult, Active, Reading
<1>5. /\ UNCHANGED <<of, early, buffer, delivered, sending, interrupting>> /\ followup' \in BOOLEAN
      /\ interrupting \subseteq sending
    BY Received DEF IInv, Types, QueryTypes
<1> QED
    BY <1>1, <1>2, <1>3, <1>4, <1>5, ReaderStep

LEMMA ReadSteps == ASSUME IInv, ReadMessage PROVE IInv'
<1>1. CASE ReadContent
  <2>2. UNCHANGED setting /\ phase = "read"
      BY <1>1, Received DEF ReadContent
  <2>3. TrackTypes'
      BY <1>1, <2>2, SettingKept DEF ReadContent, IInv, Types, TrackTypes, trackVars
  <2> QED
      BY <1>1, <2>2, <2>3, MessageStep DEF ReadContent
<1>2. CASE ReadTaskStart
  <2>1. Head(stream).what \subseteq Tasks
      BY <1>2, Received DEF ReadTaskStart, Fits
  <2>2. UNCHANGED setting /\ phase = "read"
      BY <1>2, Received DEF ReadTaskStart
  <2>3. TrackTypes'
      BY <1>2, <2>1, <2>2, SettingKept DEF ReadTaskStart, IInv, Types, TrackTypes
  <2> QED
      BY <1>2, <2>2, <2>3, MessageStep DEF ReadTaskStart
<1>3. CASE ReadTaskEnd
  <2>2. UNCHANGED setting /\ phase = "read"
      BY <1>3, Received DEF ReadTaskEnd
  <2>3. TrackTypes'
      BY <1>3, <2>2, SettingKept DEF ReadTaskEnd, IInv, Types, TrackTypes
  <2> QED
      BY <1>3, <2>2, <2>3, MessageStep DEF ReadTaskEnd
<1>4. CASE ReadWakeup
  <2>2. UNCHANGED setting /\ phase = "read"
      BY <1>4, Received DEF ReadWakeup
  <2>3. TrackTypes'
      BY <1>4, <2>2, SettingKept DEF ReadWakeup, IInv, Types, TrackTypes
  <2> QED
      BY <1>4, <2>2, <2>3, MessageStep DEF ReadWakeup
<1>5. CASE ReadNoop
  <2>2. UNCHANGED setting
      BY <1>5, Received DEF ReadNoop
  <2>3. TrackTypes'
      BY <1>5, <2>2, SettingKept DEF ReadNoop, IInv, Types, TrackTypes, trackVars
  <2> QED
      BY <1>5, <2>2, <2>3, MessageStep DEF ReadNoop
<1>6. CASE ReadResult
  <2>1. /\ phase = "read" /\ phase' = "stamp" /\ consumed' = TRUE /\ lastResult' = TRUE
        /\ tickets' = IF tickets = <<>> THEN <<>> ELSE Tail(tickets)
        /\ covered' = ToSet(tickets') /\ answered' = answered \cup Head(stream).what
        /\ UNCHANGED <<tracked, cycleEnded, cycleWoke, stamp>>
        /\ wakeTracked' \in BOOLEAN
      BY <1>6, Received DEF ReadResult
  <2>2. /\ UNCHANGED <<setting, turn, outcome, rowCancelled, verdict, invalidated>>
        /\ UNCHANGED <<made, of, early, buffer, sending, interrupting, delivered, cliVars>>
        /\ followup' \in BOOLEAN /\ StreamTypes' /\ Head(stream).what \subseteq 1..made
        /\ cycle' \in {"none", "block", "timed", "drain"}
      BY <1>6, Received DEF ReadResult, Fits
  <2>3. TurnTypes'
      BY <2>1, <2>2, SettingKept DEF IInv, Types, TurnTypes, Phases
  <2>4. TrackTypes'
      BY <2>1, <2>2, SettingKept DEF IInv, Types, TrackTypes
  <2>5. TicketTypes'
    <3>1. tickets' \in Seq(1..made) /\ IsInjective(tickets')
        BY <2>1, Tailed DEF IInv, Types, TicketTypes, IsInjective
    <3> QED
        BY <2>1, <2>2, <3>1 DEF TicketTypes
  <2>6. CliTypes'
      BY <2>1, <2>2, SettingKept DEF IInv, Types, CliTypes, cliVars
  <2>7. StampInv' /\ TicketInv'
      BY <2>1 DEF StampInv, TicketInv
  <2>8. /\ sending' \subseteq sending /\ interrupting' \subseteq sending'
        /\ phase \in Reading /\ phase' \in Reading
      BY <2>1, <2>2 DEF IInv, Types, QueryTypes, Reading
  <2> QED
      BY <2>2, <2>3, <2>4, <2>5, <2>6, <2>7, <2>8, ReaderStep
<1> QED
    BY <1>1, <1>2, <1>3, <1>4, <1>5, <1>6 DEF ReadMessage

\* A step of the reader that touches no query and no ticket.
LEMMA MoveStep ==
    ASSUME IInv, phase \in Reading, phase' \in Reading,
           UNCHANGED <<setting, turn, outcome, made, of, early, buffer, delivered, sending,
                       interrupting, rowCancelled, ticketVars, answered, cliVars, stream>>,
           followup' \in BOOLEAN, TrackTypes',
           cycle' \in {"none", "block", "timed", "drain"},
           consumed' \in BOOLEAN, lastResult' \in BOOLEAN, invalidated' \in BOOLEAN,
           verdict' \in {"none", "passed", "refused"}, stamp' \in BOOLEAN,
           StampInv', TicketInv'
    PROVE  IInv'
<1>1. TurnTypes'
    BY SettingKept DEF IInv, Types, TurnTypes, Phases, Reading
<1>2. TicketTypes'
    BY DEF IInv, Types, TicketTypes, ticketVars
<1>3. CliTypes' /\ StreamTypes'
    BY CliKept, StreamKept
<1>4. interrupting' \subseteq sending'
    BY DEF IInv, Types, QueryTypes
<1> QED
    BY <1>1, <1>2, <1>3, <1>4, ReaderStep

LEMMA MoveSteps ==
    ASSUME IInv,
           \/ NextCycle \/ StampWrite \/ StampCheck \/ StampClear \/ TimedOutOwed \/ DrainEnded
           \/ WakeupExpires \/ Reread \/ StartValidation \/ ValidatorAnswers
           \/ ValidationResumes /\ invalidated
    PROVE  IInv'
<1>1. TurnTypes /\ TrackTypes /\ TicketTypes /\ QueryTypes /\ StampInv /\ TicketInv
    BY DEF IInv, Types
<1>2. NeedsResult <=> ToSet(tickets) \ covered # {}
    BY DEF NeedsResult
<1>3. CASE NextCycle
  <2>1. phase = "top" /\ phase' = "read" /\ UNCHANGED <<tickets, covered, stamp>>
      BY <1>3 DEF NextCycle, ticketVars, rowVars
  <2>2. StampInv'
      BY <1>1, <2>1 DEF StampInv, NeedsResult, Active, Reading
  <2>3. TicketInv'
    <3>1. tickets = <<>> => covered = {}
        BY <1>1 DEF TicketTypes, ToSet
    <3>2. cycle' = "drain" => tickets = <<>>
        BY <1>3 DEF NextCycle
    <3> QED
        BY <2>1, <3>1, <3>2 DEF TicketInv
  <2>4. TrackTypes'
      BY <1>1, <1>3, SettingKept DEF NextCycle, TrackTypes
  <2> QED
      BY <1>1, <1>3, <2>1, <2>2, <2>3, <2>4, MoveStep
         DEF NextCycle, TurnTypes, QueryTypes, Reading, rowVars, validVars
<1>4. CASE StampWrite
  <2>1. phase = "stamp" /\ phase' = "check"
      BY <1>4 DEF StampWrite
  <2>2. StampInv' /\ TicketInv'
      BY <2>1 DEF StampInv, TicketInv
  <2>3. TrackTypes'
      BY <1>1, <1>4, SettingKept DEF StampWrite, TrackTypes, trackVars
  <2>4. stamp' \in BOOLEAN
      BY <1>1, <1>4 DEF StampWrite, TurnTypes
  <2> QED
      BY <1>1, <1>4, <2>1, <2>2, <2>3, <2>4, MoveStep
         DEF StampWrite, TurnTypes, QueryTypes, Reading, readVars, validVars, queryVars
<1>5. CASE StampCheck
  <2>1. /\ phase = "check" /\ phase' = IF NeedsResult THEN "clear" ELSE "top"
        /\ UNCHANGED <<tickets, covered, stamp>>
      BY <1>5 DEF StampCheck, ticketVars, rowVars
  <2>2. StampInv' /\ TicketInv'
      BY <2>1 DEF StampInv, TicketInv, NeedsResult
  <2>3. TrackTypes'
      BY <1>1, <1>5, SettingKept DEF StampCheck, TrackTypes, trackVars
  <2> QED
      BY <1>1, <1>5, <2>1, <2>2, <2>3, MoveStep
         DEF StampCheck, TurnTypes, QueryTypes, Reading, readVars, rowVars, validVars, queryVars
<1>6. CASE StampClear
  <2>1. phase = "clear" /\ phase' = "top" /\ stamp' = FALSE
      BY <1>6 DEF StampClear
  <2>2. StampInv' /\ TicketInv'
      BY <2>1 DEF StampInv, TicketInv
  <2>3. TrackTypes'
      BY <1>1, <1>6, SettingKept DEF StampClear, TrackTypes, trackVars
  <2> QED
      BY <1>1, <1>6, <2>1, <2>2, <2>3, MoveStep
         DEF StampClear, TurnTypes, QueryTypes, Reading, readVars, validVars, queryVars
<1>7. CASE TimedOutOwed
  <2>1. phase = "read" /\ phase' = "top" /\ UNCHANGED <<tickets, covered, stamp>>
      BY <1>7 DEF TimedOutOwed, ticketVars, rowVars
  <2>2. StampInv' /\ TicketInv'
      BY <1>1, <2>1 DEF StampInv, TicketInv, NeedsResult, Active, Reading
  <2>3. TrackTypes'
      BY <1>1, <1>7, SettingKept DEF TimedOutOwed, TrackTypes, trackVars
  <2> QED
      BY <1>1, <1>7, <2>1, <2>2, <2>3, MoveStep
         DEF TimedOutOwed, TurnTypes, QueryTypes, Reading, readVars, rowVars, validVars, queryVars
<1>8. CASE DrainEnded
  <2>1. /\ phase = "read" /\ phase' = "leave" /\ UNCHANGED <<tickets, covered, stamp>>
        /\ cycle = "drain"
      BY <1>8 DEF DrainEnded, ticketVars, rowVars
  <2>2. StampInv' /\ TicketInv'
      BY <1>1, <2>1 DEF StampInv, TicketInv, NeedsResult, Active, Reading
  <2>3. TrackTypes'
      BY <1>1, <1>8, SettingKept DEF DrainEnded, TrackTypes, trackVars
  <2> QED
      BY <1>1, <1>8, <2>1, <2>2, <2>3, MoveStep
         DEF DrainEnded, TurnTypes, QueryTypes, Reading, readVars, rowVars, validVars, queryVars
<1>9. CASE WakeupExpires
  <2>1. /\ phase = "read" /\ phase' = phase /\ UNCHANGED <<tickets, covered, stamp, cycle>>
      BY <1>9 DEF WakeupExpires, ticketVars, rowVars, turnVars, readVars
  <2>2. StampInv' /\ TicketInv'
      BY <1>1, <2>1 DEF StampInv, TicketInv, NeedsResult, Active, Reading
  <2>3. TrackTypes'
      BY <1>1, <1>9, SettingKept DEF WakeupExpires, TrackTypes, turnVars
  <2> QED
      BY <1>1, <1>9, <2>1, <2>2, <2>3, MoveStep
         DEF WakeupExpires, TurnTypes, QueryTypes, Reading, turnVars, readVars, rowVars, validVars,
             queryVars
<1>10. CASE Reread
  <2>1. /\ phase \in {"leave", "top"} /\ phase' = "top" /\ UNCHANGED <<tickets, covered, stamp>>
      BY <1>10 DEF Reread, LeavesLoop, ticketVars, rowVars
  <2>2. StampInv' /\ TicketInv'
      BY <1>1, <2>1 DEF StampInv, TicketInv, NeedsResult, Active, Reading
  <2>3. TrackTypes'
      BY <1>1, <1>10, SettingKept DEF Reread, TrackTypes, trackVars
  <2> QED
      BY <1>1, <1>10, <2>1, <2>2, <2>3, MoveStep
         DEF Reread, TurnTypes, QueryTypes, Reading, readVars, rowVars, validVars, queryVars
<1>11. CASE StartValidation
  <2>1. /\ phase \in {"leave", "top"} /\ phase' = "validate" /\ UNCHANGED <<tickets, covered, stamp>>
        /\ (phase = "top" => tickets = <<>>) /\ ~NeedsResult
      BY <1>11 DEF StartValidation, LeavesLoop, MoreToRead, ticketVars, rowVars
  <2>2. tickets = <<>> /\ covered = {}
    <3>1. phase = "leave" => covered = {} /\ ToSet(tickets) = {}
        BY <1>1, <1>2, <2>1 DEF TicketInv
    <3>2. tickets = <<>> <=> ToSet(tickets) = {}
        BY <1>1, Members DEF TicketTypes
    <3> QED
        BY <1>1, <2>1, <3>1, <3>2 DEF TicketTypes
  <2>3. StampInv' /\ TicketInv'
      BY <1>1, <2>1, <2>2 DEF StampInv, TicketInv, NeedsResult, Active, Reading
  <2>4. TrackTypes'
      BY <1>1, <1>11, SettingKept DEF StartValidation, TrackTypes, trackVars
  <2> QED
      BY <1>1, <1>11, <2>1, <2>3, <2>4, MoveStep
         DEF StartValidation, TurnTypes, QueryTypes, Reading, readVars, rowVars, queryVars
<1>12. CASE ValidatorAnswers
  <2>1. /\ phase = "validate" /\ phase' = phase
        /\ UNCHANGED <<tickets, covered, stamp, cycle, invalidated>>
      BY <1>12 DEF ValidatorAnswers, ticketVars, rowVars, turnVars, readVars
  <2>2. StampInv' /\ TicketInv'
      BY <1>1, <2>1 DEF StampInv, TicketInv, NeedsResult, Active, Reading
  <2>3. TrackTypes'
      BY <1>1, <1>12, SettingKept DEF ValidatorAnswers, TrackTypes, trackVars, turnVars
  <2> QED
      BY <1>1, <1>12, <2>1, <2>2, <2>3, MoveStep
         DEF ValidatorAnswers, TurnTypes, QueryTypes, Reading, turnVars, readVars, rowVars, queryVars
<1>13. CASE ValidationResumes /\ invalidated
  <2>1. /\ phase = "validate" /\ phase' = "top" /\ UNCHANGED <<tickets, covered, stamp>>
      BY <1>13 DEF ValidationResumes, ticketVars, rowVars
  <2>2. StampInv' /\ TicketInv'
      BY <1>1, <2>1 DEF StampInv, TicketInv, NeedsResult, Active, Reading
  <2>3. TrackTypes'
      BY <1>1, <1>13, SettingKept DEF ValidationResumes, TrackTypes, trackVars
  <2> QED
      BY <1>1, <1>13, <2>1, <2>2, <2>3, MoveStep
         DEF ValidationResumes, TurnTypes, QueryTypes, Reading, readVars, rowVars, validVars, queryVars
<1> QED
    BY <1>3, <1>4, <1>5, <1>6, <1>7, <1>8, <1>9, <1>10, <1>11, <1>12, <1>13

\* The client is dropped, or the tickets are, and the turn goes on.
LEMMA ClearStep ==
    ASSUME IInv, phase \in Reading, phase' \in {"top", "leave"},
           UNCHANGED <<setting, turn, outcome, readVars, trackVars, rowVars, validVars, answered, buffer>>,
           \/ Disconnect
           \/ ClearTickets /\ UNCHANGED <<made, of, early, sending, interrupting, delivered,
                                          cliVars, stream>>
    PROVE  IInv'
<1>1. /\ tickets' = <<>> /\ covered' = {} /\ followup' = FALSE
      /\ UNCHANGED <<made, of, early, delivered>>
      /\ sending' \in {sending, {}} /\ (sending' = sending => interrupting' \in {interrupting, {}})
      /\ (sending' = {} => interrupting' \in {interrupting, {}})
    BY DEF Disconnect, ClearTickets
<1>2. TurnTypes'
    BY SettingKept DEF IInv, Types, TurnTypes, Phases, readVars, rowVars, validVars
<1>3. TrackTypes'
    BY SettingKept DEF IInv, Types, TrackTypes, trackVars
<1>4. TicketTypes'
    BY <1>1 DEF TicketTypes, ToSet, IsInjective
<1>5. CliTypes' /\ StreamTypes'
  <2>1. CASE Disconnect
    <3>1. <<>> \in Seq(1..made)
        OBVIOUS
    <3>2. CliTypes'
        BY <1>1, <2>1, <3>1, SettingKept DEF Disconnect, IInv, Types, CliTypes
    <3>3. StreamTypes'
        BY <2>1 DEF Disconnect, StreamTypes
    <3> QED
        BY <3>2, <3>3
  <2>2. CASE UNCHANGED <<cliVars, stream>>
      BY <1>1, <2>2, CliKept, StreamKept
  <2> QED
      BY <2>1, <2>2
<1>6. StampInv' /\ TicketInv'
    BY <1>1 DEF StampInv, NeedsResult, ToSet, TicketInv
<1>7. sending' \subseteq sending /\ interrupting' \subseteq sending'
    BY DEF IInv, Types, QueryTypes, Disconnect
<1> QED
    BY <1>1, <1>2, <1>3, <1>4, <1>5, <1>6, <1>7, ReaderStep DEF Reading

LEMMA LeaveTickets == IInv /\ LeavesLoop /\ ~NeedsResult => tickets = <<>> /\ phase \in Reading
<1> SUFFICES ASSUME IInv, LeavesLoop, ~NeedsResult PROVE tickets = <<>> /\ phase \in Reading
    OBVIOUS
<1>1. phase = "leave" \/ (phase = "top" /\ tickets = <<>>)
    BY DEF LeavesLoop, MoreToRead
<1>2. phase = "leave" => ToSet(tickets) = {}
    BY DEF IInv, TicketInv, NeedsResult
<1>3. tickets = <<>> <=> ToSet(tickets) = {}
    BY Members DEF IInv, Types, TicketTypes
<1> QED
    BY <1>1, <1>2, <1>3 DEF Reading

LEMMA EndSteps ==
    ASSUME IInv,
           \/ SendOwnFails \/ TimedOut \/ TimedOutInterrupted \/ StreamEnded \/ DrainPoll
           \/ Unverified \/ ErrorResult \/ CompleteTurn \/ TurnCancelled
           \/ ValidationResumes /\ ~invalidated
    PROVE  IInv'
<1>1. ASSUME Fail, phase # "idle" PROVE IInv'
    BY <1>1, EndStep DEF Fail
<1>2. ASSUME Complete, phase # "idle", tickets = <<>> PROVE IInv'
    BY <1>2, EndStep DEF Complete
<1>3. CASE SendOwnFails
    BY <1>1, <1>3 DEF SendOwnFails
<1>4. CASE TimedOut
    BY <1>4, ClearStep DEF TimedOut, Reading
<1>5. CASE TimedOutInterrupted
    BY <1>1, <1>5 DEF TimedOutInterrupted
<1>6. CASE StreamEnded
    BY <1>1, <1>6, ClearStep DEF StreamEnded, Reading
<1>7. CASE DrainPoll
    BY <1>7, ClearStep DEF DrainPoll, Reading
<1>8. CASE Unverified \/ ErrorResult
  <2>1. Fail /\ phase # "idle"
      BY <1>8, LeaveTickets DEF Unverified, ErrorResult, Reading
  <2> QED
      BY <1>1, <2>1
<1>9. CASE CompleteTurn
  <2>1. Complete /\ phase # "idle" /\ tickets = <<>>
      BY <1>9, LeaveTickets DEF CompleteTurn, Reading
  <2> QED
      BY <1>2, <2>1
<1>10. CASE TurnCancelled
    BY <1>10, EndStep DEF TurnCancelled, Active, Reading
<1>11. CASE ValidationResumes /\ ~invalidated
  <2>1. phase = "validate" /\ tickets = <<>> /\ (Complete \/ Fail)
      BY <1>11 DEF ValidationResumes, IInv, TicketInv
  <2> QED
      BY <1>1, <1>2, <2>1
<1> QED
    BY <1>3, <1>4, <1>5, <1>6, <1>7, <1>8, <1>9, <1>10, <1>11

-----------------------------------------------------------------------------
(* The turn's own queries and the steers.                                  *)

\* What a query more changes in the types.
LEMMA Widened ==
    ASSUME IInv, UNCHANGED setting, made' = made + 1
    PROVE  /\ 1..made \subseteq 1..made' /\ made + 1 \in 1..made' /\ made \in Nat
           /\ \A s \in Seq(1..made) : s \in Seq(1..made')
           /\ UNCHANGED <<answered, cliVars>> => CliTypes'
           /\ UNCHANGED stream => StreamTypes'
<1>1. made \in Nat /\ 1..made \subseteq 1..made' /\ made + 1 \in 1..made'
    BY Constants DEF IInv, Types, QueryTypes
<1>2. \A s \in Seq(1..made) : s \in Seq(1..made')
    BY <1>1
<1>3. UNCHANGED <<answered, cliVars>> => CliTypes'
    BY <1>1, <1>2, SettingKept DEF IInv, Types, CliTypes, cliVars
<1>4. UNCHANGED stream => StreamTypes'
  <2> SUFFICES ASSUME UNCHANGED stream PROVE StreamTypes'
      OBVIOUS
  <2>1. stream \in Seq(Messages) /\ \A i \in 1..Len(stream) : Fits(stream[i])
      BY DEF IInv, Types, StreamTypes
  <2>2. \A i \in 1..Len(stream) :
            /\ stream[i].kind = "result" => stream[i].what \subseteq 1..made'
            /\ stream[i].kind \in {"started", "ended"} => stream[i].what \subseteq Tasks
      BY <1>1, <2>1 DEF Fits
  <2> QED
      BY <2>1, <2>2, SettingKept DEF StreamTypes, Fits
<1> QED
    BY <1>1, <1>2, <1>3, <1>4

LEMMA LaunchStep == ASSUME IInv, Launch PROVE IInv'
<1>1. /\ phase \in {"idle", "ended"} /\ turn < LastTurn /\ made < LastQuery
      /\ turn' = turn + 1 /\ phase' = "launched" /\ outcome' = "none"
      /\ made' = made + 1 /\ of' = [of EXCEPT ![made + 1] = turn + 1]
      /\ stamp' = FALSE /\ rowCancelled' = FALSE /\ verdict' = "none" /\ invalidated' = FALSE
      /\ UNCHANGED <<setting, cycle, consumed, lastResult, tracked, wakeTracked, cycleEnded, cycleWoke>>
      /\ UNCHANGED <<early, buffer, sending, interrupting, followup, delivered, tickets, covered>>
      /\ UNCHANGED <<answered, cliVars, stream>>
    BY DEF Launch, readVars, trackVars, ticketVars
<1>2. /\ made \in Nat /\ made < MaxQueries /\ MaxQueries \in Nat /\ turn \in Nat
      /\ of \in [Queries -> 0..MaxTurns] /\ MaxTurns \in Nat /\ LastTurn \in Nat
      /\ LastTurn <= MaxTurns
    BY <1>1, Bounds DEF IInv, Types, TurnTypes, QueryTypes
<1>3. made + 1 \in Queries /\ made' \in 0..MaxQueries /\ of' \in [Queries -> 0..MaxTurns]
      /\ turn' \in 0..MaxTurns /\ turn' <= LastTurn
    BY <1>1, <1>2 DEF Queries
<1>4. \A q \in Queries : of'[q] = IF q = made + 1 THEN turn + 1 ELSE of[q]
    BY <1>1, <1>2, <1>3
<1>5. \A q \in Queries : of[q] <= turn /\ (of[q] = 0 <=> q > made) /\ of[q] \in Nat
    BY <1>2 DEF IInv, OwnInv
<1>6. Prompt' = made + 1
  <2>1. of'[made + 1] = turn' /\ \A q \in Queries : of'[q] = turn' <=> q = made + 1
      BY <1>1, <1>2, <1>3, <1>4, <1>5
  <2>2. \A p \in Queries : of'[p] = turn' /\ (\A q \in Queries : of'[q] = turn' => p <= q) <=> p = made + 1
      BY <1>2, <1>3, <2>1
  <2> QED
      BY <1>3, <2>2 DEF Prompt
<1>7. OwnInv'
  <2>1. turn' # 0 /\ phase' # "idle" /\ made + 1 \in 1..(made + 1)
      BY <1>1, <1>2
  <2>2. \A q \in Queries : of'[q] <= turn' /\ (of'[q] = 0 <=> q > made')
      BY <1>1, <1>2, <1>4, <1>5 DEF Queries
  <2>3. \A q \in Queries : of'[q] = turn' <=> q \in (made + 1)..(made + 1)
      BY <1>1, <1>2, <1>4, <1>5 DEF Queries
  <2> QED
      BY <1>1, <1>6, <2>1, <2>2, <2>3 DEF OwnInv
<1>8. tickets = <<>> /\ buffer = <<>>
    BY <1>1 DEF IInv, TicketInv, OrderInv
<1>9. TurnTypes' /\ TrackTypes'
    BY <1>1, <1>3, SettingKept DEF IInv, Types, TurnTypes, TrackTypes, Phases
<1>10. TicketTypes' /\ QueryTypes' /\ CliTypes' /\ StreamTypes'
    BY <1>1, <1>3, Widened DEF IInv, Types, TicketTypes, QueryTypes
<1>11. StampInv' /\ TicketInv'
    BY <1>1, <1>8 DEF StampInv, TicketInv
<1>12. OrderInv'
  <2>1. sending \subseteq 1..made /\ delivered \subseteq 1..made
      BY DEF IInv, Types, QueryTypes
  <2>2. \A q \in sending' : q < made + 1
      BY <1>1, <1>2, <2>1
  <2>3. Len(buffer') = made' - (made + 1) /\ \A i \in 1..Len(buffer') : buffer'[i] = made + 1 + i
      BY <1>1, <1>2, <1>8
  <2>4. \A q \in (made + 1)..made' : q \in delivered' <=> q < made + 1
      BY <1>1, <1>2, <2>1
  <2>5. Sent' = made + 1
      BY <1>1, <1>6 DEF Sent
  <2> QED
      BY <1>1, <1>6, <2>2, <2>3, <2>4, <2>5 DEF OrderInv, Reading
<1> QED
    BY <1>7, <1>9, <1>10, <1>11, <1>12 DEF IInv, Types

LEMMA BeginPromptStep == ASSUME IInv, BeginPrompt PROVE IInv'
<1>1. /\ phase = "launched" /\ phase' = "prompting" /\ up' = TRUE
      /\ tickets' = Append(tickets, Prompt) /\ stamp' = FALSE /\ UNCHANGED covered
      /\ UNCHANGED <<setting, turn, outcome, cycle, consumed, lastResult, rowCancelled>>
      /\ UNCHANGED <<tracked, wakeTracked, cycleEnded, cycleWoke, verdict, invalidated>>
      /\ UNCHANGED <<made, of, early, buffer, sending, interrupting, followup, delivered, answered>>
      /\ UNCHANGED <<eof, inbox, busy, answering, cliTasks, spawned, cliWake, wakeups>>
      /\ IF up THEN UNCHANGED stream ELSE stream' \in {<<>>, <<Noop>>}
    BY DEF BeginPrompt, Register, readVars, trackVars, validVars, queryVars
<1>2. tickets = <<>>
    BY <1>1 DEF IInv, TicketInv
<1>3. turn > 0 /\ Prompt \in 1..made /\ made \in Nat
    BY <1>1, Constants DEF IInv, OwnInv, Types, TurnTypes, QueryTypes
<1>4. OwnInv' /\ Prompt' = Prompt
    BY <1>1, OwnKept DEF IInv
<1>5. tickets' = <<Prompt>> /\ Last(tickets') = Prompt
  <2>1. Append(<<>>, Prompt) = <<Prompt>>
      OBVIOUS
  <2>2. Last(<<Prompt>>) = Prompt
      BY DEF Last
  <2> QED
      BY <1>1, <1>2, <2>1, <2>2
<1>6. TurnTypes' /\ TrackTypes'
  <2>1. /\ phase' = "prompting" /\ stamp' = FALSE
        /\ UNCHANGED <<setting, turn, outcome, cycle, consumed, lastResult, rowCancelled>>
        /\ UNCHANGED <<tracked, wakeTracked, cycleEnded, cycleWoke, verdict, invalidated>>
      BY <1>1
  <2>2. TurnTypes'
      BY <2>1, SettingKept DEF IInv, Types, TurnTypes, Phases
  <2>3. TrackTypes'
      BY <2>1, SettingKept DEF IInv, Types, TrackTypes
  <2> QED
      BY <2>2, <2>3
<1>7. TicketTypes'
  <2>1. covered = {}
      BY <1>2 DEF IInv, Types, TicketTypes, ToSet
  <2>2. <<Prompt>> \in Seq(1..made) /\ IsInjective(<<Prompt>>)
      BY <1>3 DEF IsInjective
  <2> QED
      BY <1>1, <1>5, <2>1, <2>2 DEF TicketTypes
<1>8. QueryTypes' /\ CliTypes'
    BY <1>1, SettingKept DEF IInv, Types, QueryTypes, CliTypes
<1>9. StreamTypes'
  <2>1. CASE up
      BY <1>1, <2>1, StreamKept
  <2>2. CASE stream' = <<>>
      BY <2>2 DEF StreamTypes
  <2>3. CASE stream' = <<Noop>>
    <3>1. <<>> \in Seq(Messages) /\ \A i \in 1..Len(<<>>) : Fits(<<>>[i])
        OBVIOUS
    <3>2. Append(<<>>, Noop) = <<Noop>>
        OBVIOUS
    <3>3. stream' \in Seq(Messages) /\ \A i \in 1..Len(stream') : Fits(stream'[i])
        BY <2>3, <3>1, <3>2, Extended, Fitting
    <3> QED
        BY <1>1, <3>3, SettingKept DEF StreamTypes, Fits
  <2> QED
      BY <1>1, <2>1, <2>2, <2>3
<1>10. StampInv' /\ TicketInv'
    BY <1>1, <1>4, <1>5 DEF StampInv, TicketInv, Reading
<1>11. OrderInv'
  <2>1. Sent' = Prompt /\ Sent = Prompt
      BY <1>1, <1>5 DEF Sent
  <2> QED
      BY <1>1, <1>4, <2>1 DEF IInv, OrderInv, Reading
<1> QED
    BY <1>4, <1>6, <1>7, <1>8, <1>9, <1>10, <1>11 DEF IInv, Types

\* The query that is being sent, and the one after it.
LEMMA SendOwnStep == ASSUME IInv, SendOwn PROVE IInv'
<1> DEFINE c == Last(tickets)
<1>1. /\ phase \in {"prompting", "flushing"}
      /\ inbox' = Append(inbox, c) /\ delivered' = delivered \cup {c}
      /\ UNCHANGED <<setting, turn, outcome, cycle, consumed, lastResult, rowCancelled>>
      /\ UNCHANGED <<tracked, wakeTracked, cycleEnded, cycleWoke, verdict, invalidated>>
      /\ UNCHANGED <<made, of, early, sending, interrupting, followup, answered, up, eof>>
      /\ UNCHANGED <<busy, answering, cliTasks, spawned, cliWake, wakeups, stream>>
    BY DEF SendOwn, Deliver, readVars, trackVars, validVars
<1>2. \/ buffer = <<>> /\ phase' = "top" /\ UNCHANGED <<buffer, tickets, covered, stamp>>
      \/ /\ buffer # <<>> /\ phase' = "flushing" /\ tickets' = Append(tickets, Head(buffer))
         /\ stamp' = FALSE /\ covered' = covered /\ buffer' = Tail(buffer)
    BY DEF SendOwn, Register
<1>3. /\ made \in Nat /\ Prompt \in 1..made /\ tickets \in Seq(1..made) /\ IsInjective(tickets)
      /\ buffer \in Seq(1..made) /\ covered \subseteq ToSet(tickets) /\ stamp \in BOOLEAN
    BY <1>1, Constants DEF IInv, OwnInv, Types, TurnTypes, QueryTypes, TicketTypes
<1>4. /\ tickets # <<>> /\ c \in Prompt..made /\ c \in ToSet(tickets)
      /\ \A i \in 1..Len(tickets) : tickets[i] \in Prompt..c
  <2>1. tickets # <<>> /\ \A i \in 1..Len(tickets) : tickets[i] \in Prompt..c
    <3>1. CASE phase = "prompting"
      <4>1. tickets = <<Prompt>>
          BY <3>1 DEF IInv, TicketInv
      <4>2. c = Prompt /\ Len(tickets) = 1 /\ tickets[1] = Prompt
          BY <4>1 DEF Last
      <4> QED
          BY <1>3, <4>1, <4>2
    <3>2. CASE phase = "flushing"
        BY <3>2 DEF IInv, TicketInv
    <3> QED
        BY <1>1, <3>1, <3>2
  <2>2. Len(tickets) \in 1..Len(tickets) /\ c = tickets[Len(tickets)] /\ DOMAIN tickets = 1..Len(tickets)
      BY <1>3, <2>1, Members DEF Last
  <2> QED
      BY <1>3, <2>1, <2>2 DEF ToSet
<1>5. /\ \A q \in sending : q < Prompt
      /\ Len(buffer) = made - c
      /\ \A i \in 1..Len(buffer) : buffer[i] = c + i
      /\ \A q \in Prompt..made : q \in delivered <=> q < c
    BY <1>1 DEF IInv, OrderInv, Sent
<1>6. OwnInv' /\ Prompt' = Prompt /\ \A q \in Queries : of[q] = turn <=> q \in Prompt..made
  <2>1. phase # "idle" /\ phase' # "idle" /\ UNCHANGED <<turn, of, made>>
      BY <1>1, <1>2
  <2> QED
      BY <2>1, OwnKept DEF IInv, OwnInv, Types, TurnTypes
<1> HIDE DEF c
<1>7. TurnTypes' /\ TrackTypes'
  <2>1. /\ phase' \in {"top", "flushing"} /\ stamp' \in {stamp, FALSE}
        /\ UNCHANGED <<setting, turn, outcome, cycle, consumed, lastResult, rowCancelled>>
        /\ UNCHANGED <<tracked, wakeTracked, cycleEnded, cycleWoke, verdict, invalidated>>
      BY <1>1, <1>2
  <2>a. phase' \in Phases /\ stamp' \in BOOLEAN
      BY <1>3, <2>1 DEF Phases
  <2>2. TurnTypes'
      BY <2>1, <2>a, SettingKept DEF IInv, Types, TurnTypes
  <2>3. TrackTypes'
      BY <2>1, SettingKept DEF IInv, Types, TrackTypes
  <2> QED
      BY <2>2, <2>3
<1>8. CliTypes' /\ StreamTypes'
  <2>1. inbox' \in Seq(1..made)
      BY <1>1, <1>3, <1>4, Appended DEF IInv, Types, CliTypes
  <2>2. CliTypes'
      BY <1>1, <2>1, SettingKept DEF IInv, Types, CliTypes
  <2> QED
      BY <1>1, <2>2, StreamKept
<1>9. CASE buffer = <<>>
  <2>1. phase' = "top" /\ UNCHANGED <<buffer, tickets, covered, stamp>>
      BY <1>2, <1>9
  <2>2. c = made
      BY <1>3, <1>4, <1>5, <1>9
  <2>3. QueryTypes' /\ TicketTypes'
      BY <1>1, <1>3, <1>4, <2>1 DEF IInv, Types, QueryTypes, TicketTypes
  <2>4. StampInv' /\ TicketInv'
      BY <1>1, <2>1 DEF IInv, StampInv, TicketInv, NeedsResult, Active, Reading
  <2>5. OrderInv'
    <3>1. early \subseteq 1..made /\ 1..made \subseteq Queries
        BY Constants DEF IInv, Types, QueryTypes, Queries
    <3>2. \A q \in early \cup {Prompt} : of[q] = turn => q \in delivered'
        BY <1>1, <1>3, <1>4, <1>5, <1>6, <2>2, <3>1
    <3> QED
        BY <1>1, <1>6, <1>9, <2>1, <3>2 DEF OrderInv
  <2> QED
      BY <1>6, <1>7, <1>8, <2>3, <2>4, <2>5 DEF IInv, Types
<1>10. CASE buffer # <<>>
  <2>1. /\ phase' = "flushing" /\ tickets' = Append(tickets, Head(buffer))
        /\ stamp' = FALSE /\ covered' = covered /\ buffer' = Tail(buffer)
      BY <1>2, <1>10
  <2>2. /\ Head(buffer) \in 1..made /\ Tail(buffer) \in Seq(1..made) /\ Len(Tail(buffer)) = Len(buffer) - 1
        /\ Head(buffer) = c + 1 /\ Len(buffer) \in Nat
        /\ \A i \in 1..(Len(buffer) - 1) : Tail(buffer)[i] = c + (i + 1)
      BY <1>3, <1>5, <1>10, Tailed
  <2>3. c + 1 \notin ToSet(tickets)
    <3>1. ToSet(tickets) = {tickets[i] : i \in 1..Len(tickets)}
        BY <1>3, Members
    <3>2. ASSUME NEW i \in 1..Len(tickets) PROVE tickets[i] # c + 1
        BY <1>3, <1>4
    <3> QED
        BY <3>1, <3>2
  <2>a. tickets' = Append(tickets, c + 1) /\ c + 1 \in 1..made
      BY <2>1, <2>2
  <2>4. /\ tickets' \in Seq(1..made) /\ IsInjective(tickets') /\ Len(tickets') = Len(tickets) + 1
        /\ Last(tickets') = c + 1 /\ tickets' # <<>> /\ ToSet(tickets') = ToSet(tickets) \cup {c + 1}
        /\ \A i \in 1..Len(tickets) : tickets'[i] = tickets[i]
        /\ tickets'[Len(tickets) + 1] = c + 1
      BY <1>3, <2>a, <2>3, Appended
  <2>5. TicketTypes'
      BY <1>1, <1>3, <2>1, <2>4 DEF TicketTypes
  <2>6. QueryTypes'
      BY <1>1, <1>3, <1>4, <2>1, <2>2 DEF IInv, Types, QueryTypes
  <2>7. StampInv'
      BY <2>1 DEF StampInv
  <2>8. TicketInv'
    <3>1. c \in Int /\ Prompt \in Int /\ Prompt <= c /\ Len(tickets) \in Nat
        BY <1>3, <1>4
    <3>2. ASSUME NEW i \in 1..Len(tickets') PROVE tickets'[i] \in Prompt..(c + 1)
      <4>1. CASE i \in 1..Len(tickets)
          BY <1>4, <2>4, <3>1, <4>1
      <4>2. CASE i = Len(tickets) + 1
          BY <2>4, <3>1, <4>2
      <4> QED
          BY <2>4, <3>1, <4>1, <4>2
    <3> QED
        BY <1>6, <2>1, <2>4, <3>2 DEF TicketInv
  <2>9. OrderInv'
    <3>1. Sent' = c + 1
        BY <2>1, <2>4 DEF Sent
    <3>2. c \in Int /\ Prompt \in Int /\ Prompt <= c
        BY <1>3, <1>4
    <3>3. Len(buffer') = made' - (c + 1) /\ \A i \in 1..Len(buffer') : buffer'[i] = (c + 1) + i
        BY <1>1, <1>3, <1>5, <2>1, <2>2, <3>2
    <3>4. \A q \in Prompt..made' : q \in delivered' <=> q < c + 1
        BY <1>1, <1>3, <1>5, <3>2
    <3> QED
        BY <1>1, <1>5, <1>6, <2>1, <3>1, <3>3, <3>4 DEF OrderInv, Reading
  <2> QED
      BY <1>6, <1>7, <1>8, <2>5, <2>6, <2>7, <2>8, <2>9 DEF IInv, Types
<1> QED
    BY <1>9, <1>10

\* The query that is being sent is one of the turn's.
LEMMA SentIs ==
    ASSUME IInv, phase \in {"launched", "prompting", "flushing"}
    PROVE  Sent \in Prompt..made /\ Prompt \in 1..made /\ made \in Nat
<1>1. Prompt \in 1..made /\ made \in Nat
    BY Constants DEF IInv, OwnInv, Types, TurnTypes, QueryTypes
<1>2. CASE phase = "launched"
    BY <1>1, <1>2 DEF Sent
<1>3. CASE phase = "prompting"
  <2>1. tickets = <<Prompt>>
      BY <1>3 DEF IInv, TicketInv
  <2>2. Last(tickets) = Prompt
      BY <2>1 DEF Last
  <2> QED
      BY <1>1, <1>3, <2>2 DEF Sent
<1>4. CASE phase = "flushing"
  <2>1. tickets \in Seq(1..made) /\ tickets # <<>>
      BY <1>4 DEF IInv, Types, TicketTypes, TicketInv
  <2>2. /\ Len(tickets) \in 1..Len(tickets) /\ tickets[Len(tickets)] \in 1..made
        /\ Last(tickets) = tickets[Len(tickets)]
    <3>1. Len(tickets) \in Nat /\ Len(tickets) # 0
        BY <2>1, Members
    <3>2. Len(tickets) \in 1..Len(tickets)
        BY <3>1
    <3>3. tickets[Len(tickets)] \in 1..made
        BY <2>1, <3>2, Members
    <3>4. Last(tickets) = tickets[Len(tickets)]
        BY DEF Last
    <3> QED
        BY <3>2, <3>3, <3>4
  <2>3. Last(tickets) \in Prompt..Last(tickets)
      BY <1>4, <2>2 DEF IInv, TicketInv
  <2> QED
      BY <1>1, <1>4, <2>2, <2>3 DEF Sent
<1> QED
    BY <1>2, <1>1, <1>3, <1>4

LEMMA SteerEarlyStep == ASSUME IInv, SteerEarly PROVE IInv'
<1>1. /\ phase \in {"launched", "prompting", "flushing"} /\ RoomForSteer
      /\ made' = made + 1 /\ of' = [of EXCEPT ![made + 1] = turn]
      /\ early' = early \cup {made + 1} /\ buffer' = Append(buffer, made + 1)
      /\ UNCHANGED <<setting, turn, phase, outcome, cycle, consumed, lastResult, stamp>>
      /\ UNCHANGED <<tracked, wakeTracked, cycleEnded, cycleWoke, rowCancelled, verdict, invalidated>>
      /\ UNCHANGED <<sending, interrupting, followup, delivered, tickets, covered>>
      /\ UNCHANGED <<answered, cliVars, stream>>
    BY DEF SteerEarly, turnVars, readVars, trackVars, rowVars, validVars, ticketVars
<1>2. made < LastQuery /\ turn > 0
  <2>1. turn <= LastTurn /\ turn \in Nat /\ LastTurn \in Nat /\ made \in Nat /\ LastQuery \in Nat
      BY Bounds DEF IInv, Types, TurnTypes, QueryTypes
  <2>2. turn # 0
      BY <1>1 DEF IInv, OwnInv
  <2> QED
      BY <1>1, <2>1, <2>2 DEF RoomForSteer
<1>3. /\ OwnInv' /\ Prompt' = Prompt /\ Prompt \in 1..made /\ made' \in 0..MaxQueries
      /\ of' \in [Queries -> 0..MaxTurns]
    BY <1>1, <1>2, OwnGrows
<1>4. TurnTypes' /\ TrackTypes'
    BY <1>1, SettingKept DEF IInv, Types, TurnTypes, TrackTypes
<1>5. TicketTypes' /\ CliTypes' /\ StreamTypes'
    BY <1>1, Widened DEF IInv, Types, TicketTypes
<1>6. /\ buffer' \in Seq(1..made') /\ Len(buffer') = Len(buffer) + 1 /\ Len(buffer) \in Nat
      /\ buffer'[Len(buffer) + 1] = made + 1
      /\ \A i \in 1..Len(buffer) : buffer'[i] = buffer[i]
    BY <1>1, Widened, Appended DEF IInv, Types, QueryTypes
<1>7. QueryTypes'
    BY <1>1, <1>3, <1>6, Widened DEF IInv, Types, QueryTypes
<1>8. StampInv'
    BY <1>1 DEF IInv, StampInv, NeedsResult
<1>9. TicketInv'
    BY <1>1, <1>3 DEF IInv, TicketInv
<1>10. OrderInv'
  <2>1. Sent' = Sent
      BY <1>1, <1>3 DEF Sent
  <2>2. Sent \in Int /\ made \in Nat
      BY <1>1, SentIs
  <2>3. /\ \A q \in sending : q < Prompt
        /\ Len(buffer) = made - Sent
        /\ \A i \in 1..Len(buffer) : buffer[i] = Sent + i
        /\ \A q \in Prompt..made : q \in delivered <=> q < Sent
      BY <1>1 DEF IInv, OrderInv
  <2>4. Len(buffer') = made' - Sent
      BY <1>1, <1>6, <2>2, <2>3
  <2>5. ASSUME NEW i \in 1..Len(buffer') PROVE buffer'[i] = Sent + i
    <3>1. CASE i \in 1..Len(buffer)
        BY <1>6, <2>3, <3>1
    <3>2. CASE i = Len(buffer) + 1
        BY <1>6, <2>2, <2>3, <3>2
    <3> QED
        BY <1>6, <3>1, <3>2
  <2>6. \A q \in Prompt..made' : q \in delivered' <=> q < Sent
    <3>1. made + 1 \notin delivered /\ ~(made + 1 < Sent)
      <4>1. delivered \subseteq 1..made /\ Len(buffer) \in Nat
          BY <1>6 DEF IInv, Types, QueryTypes
      <4> QED
          BY <2>2, <2>3, <4>1
    <3>2. \A q \in Prompt..made' : q \in Prompt..made \/ q = made + 1
        BY <1>1, <1>3, <2>2
    <3> QED
        BY <1>1, <2>3, <3>1, <3>2
  <2> QED
      BY <1>1, <1>3, <2>1, <2>3, <2>4, <2>5, <2>6 DEF OrderInv, Reading
<1> QED
    BY <1>3, <1>4, <1>5, <1>7, <1>8, <1>9, <1>10 DEF IInv, Types

LEMMA SteerBeginStep == ASSUME IInv, NEW interrupt \in BOOLEAN, SteerBegin(interrupt) PROVE IInv'
<1>1. /\ phase \in Reading /\ RoomForSteer
      /\ made' = made + 1 /\ of' = [of EXCEPT ![made + 1] = turn]
      /\ tickets' = Append(tickets, made + 1) /\ stamp' = FALSE /\ UNCHANGED covered
      /\ invalidated' = (phase = "validate" \/ invalidated)
      /\ sending' = sending \cup {made + 1}
      /\ interrupting' = IF interrupt THEN interrupting \cup {made + 1} ELSE interrupting
      /\ followup' = (interrupt \/ followup)
      /\ UNCHANGED <<setting, turn, phase, outcome, cycle, consumed, lastResult>>
      /\ UNCHANGED <<tracked, wakeTracked, cycleEnded, cycleWoke, rowCancelled, verdict>>
      /\ UNCHANGED <<early, buffer, delivered, answered, cliVars, stream>>
    BY DEF SteerBegin, Register, turnVars, readVars, trackVars
<1>2. made < LastQuery /\ turn > 0
  <2>1. turn <= LastTurn /\ turn \in Nat /\ LastTurn \in Nat /\ made \in Nat /\ LastQuery \in Nat
      BY Bounds DEF IInv, Types, TurnTypes, QueryTypes
  <2>2. turn # 0
      BY <1>1 DEF IInv, OwnInv, Reading
  <2> QED
      BY <1>1, <2>1, <2>2 DEF RoomForSteer
<1>3. /\ OwnInv' /\ Prompt' = Prompt /\ Prompt \in 1..made /\ made' \in 0..MaxQueries
      /\ of' \in [Queries -> 0..MaxTurns] /\ made + 1 \in Queries
    BY <1>1, <1>2, OwnGrows DEF Reading
<1>4. TurnTypes' /\ TrackTypes'
  <2>1. /\ invalidated' \in BOOLEAN /\ stamp' = FALSE
        /\ UNCHANGED <<setting, turn, phase, outcome, cycle, consumed, lastResult>>
        /\ UNCHANGED <<tracked, wakeTracked, cycleEnded, cycleWoke, rowCancelled, verdict>>
      BY <1>1
  <2>2. TurnTypes'
      BY <2>1, SettingKept DEF IInv, Types, TurnTypes
  <2>3. TrackTypes'
      BY <2>1, SettingKept DEF IInv, Types, TrackTypes
  <2> QED
      BY <2>2, <2>3
<1>5. CliTypes' /\ StreamTypes'
    BY <1>1, Widened
<1>6. TicketTypes'
  <2>1. tickets \in Seq(1..made) /\ IsInjective(tickets) /\ covered \subseteq ToSet(tickets)
      BY DEF IInv, Types, TicketTypes
  <2>2. made + 1 \notin ToSet(tickets)
      BY <1>1, <2>1, Members, Widened
  <2>3. /\ tickets' \in Seq(1..made') /\ IsInjective(tickets')
        /\ ToSet(tickets') = ToSet(tickets) \cup {made + 1}
      BY <1>1, <2>1, <2>2, Widened, Appended
  <2> QED
      BY <1>1, <2>1, <2>3 DEF TicketTypes
<1>7. QueryTypes'
  <2>1. followup' \in BOOLEAN
      BY <1>1
  <2> QED
      BY <1>1, <1>3, <2>1, Widened DEF IInv, Types, QueryTypes
<1>8. StampInv'
    BY <1>1 DEF StampInv
<1>9. TicketInv'
    BY <1>1, <1>3 DEF IInv, TicketInv, Reading
<1>10. OrderInv'
  <2>1. buffer = <<>> /\ \A q \in early \cup {Prompt} : of[q] = turn => q \in delivered
      BY <1>1 DEF IInv, OrderInv
  <2>2. \A q \in early \cup {Prompt} : of'[q] = of[q]
    <3>1. /\ early \subseteq 1..made /\ made \in Nat
          /\ of \in [Queries -> 0..MaxTurns] /\ 1..made \subseteq Queries
        BY Constants DEF IInv, Types, QueryTypes, Queries
    <3> QED
        BY <1>1, <1>3, <3>1
  <2> QED
      BY <1>1, <1>3, <2>1, <2>2 DEF OrderInv, Reading
<1> QED
    BY <1>3, <1>4, <1>5, <1>6, <1>7, <1>8, <1>9, <1>10 DEF IInv, Types

\* A steer's interrupt or send returns, or fails.
LEMMA SteerReturnStep ==
    ASSUME IInv, NEW q \in sending, SteerInterrupt(q) \/ SteerSend(q) \/ SteerFails(q)
    PROVE  IInv'
<1>1. /\ UNCHANGED <<setting, turn, phase, outcome, cycle, consumed, lastResult>>
      /\ UNCHANGED <<tracked, wakeTracked, cycleEnded, cycleWoke, stamp>>
      /\ UNCHANGED <<rowCancelled, verdict, invalidated>>
      /\ UNCHANGED <<made, of, early, buffer, answered>>
      /\ sending' \subseteq sending /\ interrupting' \subseteq sending' /\ followup' \in BOOLEAN
      /\ delivered' \in {delivered, delivered \cup {q}}
    BY DEF SteerInterrupt, SteerSend, SteerFails, Deliver, turnVars, readVars, trackVars, rowVars,
           validVars, IInv, Types, QueryTypes
<1>2. TurnTypes' /\ TrackTypes'
    BY <1>1, SettingKept DEF IInv, Types, TurnTypes, TrackTypes
<1>3. QueryTypes' /\ q \in 1..made
    BY <1>1 DEF IInv, Types, QueryTypes
<1>4. CliTypes' /\ StreamTypes'
  <2>1. CASE SteerInterrupt(q)
    <3>1. CliTypes'
        BY <1>1, <2>1, SettingKept DEF SteerInterrupt, IInv, Types, CliTypes
    <3>2. StreamTypes'
        BY <1>1, <2>1, StreamKept, StreamGrows, Fitting DEF SteerInterrupt
    <3> QED
        BY <3>1, <3>2
  <2>2. CASE SteerSend(q)
    <3>1. inbox' \in Seq(1..made)
        BY <1>3, <2>2, Appended DEF SteerSend, Deliver, IInv, Types, CliTypes
    <3>2. CliTypes'
        BY <1>1, <2>2, <3>1, SettingKept DEF SteerSend, IInv, Types, CliTypes
    <3> QED
        BY <1>1, <2>2, <3>2, StreamKept DEF SteerSend
  <2>3. CASE SteerFails(q)
      BY <1>1, <2>3, CliKept, StreamKept DEF SteerFails
  <2> QED
      BY <2>1, <2>2, <2>3
<1>5. /\ tickets' \in Seq(1..made) /\ IsInjective(tickets') /\ covered' \subseteq ToSet(tickets')
      /\ ToSet(tickets') \ covered' \subseteq ToSet(tickets) \ covered
      /\ ToSet(tickets') \subseteq ToSet(tickets)
      /\ covered' \subseteq covered /\ (q \notin ToSet(tickets) => UNCHANGED <<tickets, covered>>)
  <2>1. tickets \in Seq(1..made) /\ IsInjective(tickets) /\ covered \subseteq ToSet(tickets)
      BY DEF IInv, Types, TicketTypes
  <2>2. CASE SteerFails(q) /\ q \in ToSet(tickets)
    <3> DEFINE k == CHOOSE n \in DOMAIN tickets : tickets[n] = q
    <3>1. k \in 1..Len(tickets) /\ tickets[k] = q
        BY <2>1, <2>2 DEF ToSet
    <3>2. tickets' = RemoveAt(tickets, k) /\ covered' = covered \ {q}
        BY <2>2 DEF SteerFails, Discard
    <3> HIDE DEF k
    <3>3. /\ tickets' \in Seq(1..made) /\ IsInjective(tickets')
          /\ ToSet(tickets') = ToSet(tickets) \ {q}
        BY <2>1, <3>1, <3>2, Removed
    <3> QED
        BY <2>1, <2>2, <3>2, <3>3
  <2>3. CASE SteerFails(q) /\ q \notin ToSet(tickets)
    <3>1. tickets' = tickets /\ covered' = covered \ {q}
        BY <2>3 DEF SteerFails, Discard
    <3> QED
        BY <2>1, <2>3, <3>1
  <2>4. CASE SteerInterrupt(q) \/ SteerSend(q)
    <3>1. UNCHANGED <<tickets, covered>>
        BY <2>4 DEF SteerInterrupt, SteerSend, ticketVars
    <3> QED
        BY <2>1, <3>1
  <2> QED
      BY <2>2, <2>3, <2>4
<1>6. TicketTypes'
    BY <1>1, <1>5 DEF TicketTypes
<1>7. StampInv'
    BY <1>1, <1>5 DEF IInv, StampInv, NeedsResult
<1>8. OwnInv' /\ Prompt' = Prompt
    BY <1>1, OwnKept DEF IInv
\* A steer that was begun by an earlier turn has no ticket among this one's.
<1>9. phase \in {"launched", "prompting", "flushing"} =>
          q < Prompt /\ Prompt \in 1..made /\ UNCHANGED <<tickets, covered>>
  <2> SUFFICES ASSUME phase \in {"launched", "prompting", "flushing"}
               PROVE  q < Prompt /\ Prompt \in 1..made /\ UNCHANGED <<tickets, covered>>
      OBVIOUS
  <2>1. q < Prompt
      BY DEF IInv, OrderInv
  <2>2. Prompt \in 1..made /\ made \in Nat
      BY Constants DEF IInv, OwnInv, Types, TurnTypes, QueryTypes
  <2>3. tickets \in Seq(1..made)
      BY DEF IInv, Types, TicketTypes
  <2>4. \A i \in 1..Len(tickets) : tickets[i] >= Prompt
    <3>1. CASE phase = "launched"
        BY <3>1 DEF IInv, TicketInv
    <3>2. CASE phase = "prompting"
      <4>1. tickets = <<Prompt>>
          BY <3>2 DEF IInv, TicketInv
      <4>2. Len(tickets) = 1 /\ tickets[1] = Prompt
          BY <4>1
      <4> QED
          BY <2>2, <4>2
    <3>3. CASE phase = "flushing"
        BY <2>2, <3>3 DEF IInv, TicketInv
    <3> QED
        BY <3>1, <3>2, <3>3
  <2>5. ToSet(tickets) = {tickets[i] : i \in 1..Len(tickets)} /\ ToSet(tickets) \subseteq 1..made
      BY <2>3, Members
  <2>6. q \notin ToSet(tickets)
    <3> SUFFICES ASSUME NEW i \in 1..Len(tickets), q = tickets[i] PROVE FALSE
        BY <2>5
    <3>1. tickets[i] >= Prompt /\ q \in Int /\ Prompt \in Int
        BY <1>3, <2>2, <2>4
    <3> QED
        BY <2>1, <3>1
  <2> QED
      BY <1>5, <2>1, <2>2, <2>6
<1>10. TicketInv'
  <2>1. tickets = <<>> => tickets' = <<>>
    <3>1. tickets = <<>> => q \notin ToSet(tickets)
        BY DEF ToSet
    <3> QED
        BY <1>5, <3>1
  <2>2. covered = {} => covered' = {}
      BY <1>5
  <2> QED
      BY <1>1, <1>8, <1>9, <2>1, <2>2 DEF IInv, TicketInv
<1>11. OrderInv'
  <2>1. CASE phase \in {"launched", "prompting", "flushing"}
    <3>1. Sent' = Sent
        BY <1>1, <1>8, <1>9, <2>1 DEF Sent
    <3>2. \A p \in Prompt..made : p \in delivered' <=> p \in delivered
      <4>1. \A p \in Prompt..made : p # q
          BY <1>3, <1>9, <2>1
      <4> QED
          BY <1>1, <4>1
    <3> QED
        BY <1>1, <1>8, <2>1, <3>1, <3>2 DEF IInv, OrderInv, Reading
  <2>2. CASE phase \notin {"launched", "prompting", "flushing"}
      BY <1>1, <1>8, <2>2 DEF IInv, OrderInv
  <2> QED
      BY <2>1, <2>2
<1> QED
    BY <1>2, <1>3, <1>4, <1>6, <1>7, <1>8, <1>10, <1>11 DEF IInv, Types

LEMMA CancelRowStep == ASSUME IInv, CancelRow PROVE IInv'
<1>1. /\ rowCancelled' = TRUE
      /\ UNCHANGED <<setting, turn, phase, outcome, cycle, consumed, lastResult, stamp>>
      /\ UNCHANGED <<tracked, wakeTracked, cycleEnded, cycleWoke, verdict, invalidated>>
      /\ UNCHANGED <<made, of, early, buffer, sending, interrupting, followup, delivered>>
      /\ UNCHANGED <<tickets, covered, answered, cliVars, stream>>
    BY DEF CancelRow, turnVars, readVars, trackVars, validVars, queryVars, ticketVars
<1>2. TurnTypes' /\ TrackTypes' /\ TicketTypes' /\ QueryTypes'
    BY <1>1, SettingKept DEF IInv, Types, TurnTypes, TrackTypes, TicketTypes, QueryTypes
<1>3. CliTypes' /\ StreamTypes'
    BY <1>1, CliKept, StreamKept
<1>4. OwnInv' /\ Prompt' = Prompt
    BY <1>1, OwnKept DEF IInv
<1>5. StampInv' /\ TicketInv' /\ OrderInv'
    BY <1>1, <1>4 DEF IInv, StampInv, NeedsResult, TicketInv, OrderInv, Sent
<1> QED
    BY <1>2, <1>3, <1>4, <1>5 DEF IInv, Types

-----------------------------------------------------------------------------
(* The theorems.                                                           *)

LEMMA Initially == Init => IInv
<1> SUFFICES ASSUME Init PROVE IInv
    OBVIOUS
<1>1. /\ setting \in Settings /\ turn = 0 /\ phase = "idle" /\ outcome = "none"
      /\ cycle = "none" /\ consumed = FALSE /\ lastResult = FALSE
      /\ tracked = {} /\ wakeTracked = FALSE /\ cycleEnded = FALSE /\ cycleWoke = FALSE
      /\ stamp = FALSE /\ rowCancelled = FALSE /\ verdict = "none" /\ invalidated = FALSE
    BY DEF Init
<1>2. /\ made = 0 /\ of = [q \in Queries |-> 0] /\ tickets = <<>> /\ covered = {}
      /\ early = {} /\ buffer = <<>> /\ sending = {} /\ interrupting = {} /\ followup = FALSE
      /\ delivered = {} /\ answered = {} /\ up = FALSE /\ eof = FALSE
      /\ inbox = <<>> /\ busy = FALSE /\ answering = {} /\ stream = <<>>
      /\ cliTasks = {} /\ spawned = 0 /\ cliWake = FALSE /\ wakeups = 0
    BY DEF Init
<1>3. /\ LastTurn \in Nat /\ MaxTasks \in Nat /\ MaxWakeups \in Nat
      /\ MaxTurns \in Nat /\ MaxQueries \in Nat
    BY <1>1, Bounds
<1>4. TurnTypes /\ TrackTypes
  <2>1. TurnTypes
    <3>1. turn \in 0..MaxTurns /\ turn <= LastTurn
        BY <1>1, <1>3
    <3>2. phase \in Phases
        BY <1>1 DEF Phases
    <3> QED
        BY <1>1, <3>1, <3>2 DEF TurnTypes
  <2>2. TrackTypes
      BY <1>1 DEF TrackTypes
  <2> QED
      BY <2>1, <2>2
<1>5. TicketTypes /\ StreamTypes
    BY <1>2 DEF TicketTypes, StreamTypes, ToSet, IsInjective
<1>6. QueryTypes /\ CliTypes
  <2>1. <<>> \in Seq(1..made)
      OBVIOUS
  <2>2. of \in [Queries -> 0..MaxTurns]
      BY <1>2, <1>3
  <2> QED
    <3>1. made \in 0..MaxQueries /\ spawned \in 0..MaxTasks /\ wakeups \in 0..MaxWakeups
        BY <1>2, <1>3
    <3>2. QueryTypes
        BY <1>2, <2>1, <2>2, <3>1 DEF QueryTypes
    <3>3. CliTypes
        BY <1>2, <2>1, <3>1 DEF CliTypes
    <3> QED
        BY <3>2, <3>3
<1>7. StampInv /\ TicketInv /\ OrderInv
    BY <1>1, <1>2 DEF StampInv, TicketInv, OrderInv, Reading
<1>8. OwnInv
    BY <1>1, <1>2, <1>3 DEF OwnInv, Queries
<1> QED
    BY <1>4, <1>5, <1>6, <1>7, <1>8 DEF IInv, Types

LEMMA Stutters == ASSUME IInv, UNCHANGED vars PROVE IInv'
<1>1. /\ UNCHANGED <<setting, turn, phase, outcome, cycle, consumed, lastResult, stamp, rowCancelled>>
      /\ UNCHANGED <<tracked, wakeTracked, cycleEnded, cycleWoke, verdict, invalidated>>
      /\ UNCHANGED <<made, of, early, buffer, sending, interrupting, followup, delivered>>
      /\ UNCHANGED <<tickets, covered, answered, cliVars, stream>>
    BY DEF vars, turnVars, readVars, trackVars, rowVars, validVars, queryVars, ticketVars
<1>2. TurnTypes' /\ TrackTypes' /\ TicketTypes' /\ QueryTypes'
    BY <1>1, SettingKept DEF IInv, Types, TurnTypes, TrackTypes, TicketTypes, QueryTypes
<1>3. CliTypes' /\ StreamTypes'
    BY <1>1, CliKept, StreamKept
<1>4. OwnInv' /\ Prompt' = Prompt
    BY <1>1, OwnKept DEF IInv
<1>5. StampInv' /\ TicketInv' /\ OrderInv'
    BY <1>1, <1>4 DEF IInv, StampInv, NeedsResult, TicketInv, OrderInv, Sent
<1> QED
    BY <1>2, <1>3, <1>4, <1>5 DEF IInv, Types

LEMMA Step == ASSUME IInv, [Next]_vars PROVE IInv'
<1>1. CASE Launch \/ CancelRow \/ SteerEarly
    BY <1>1, LaunchStep, CancelRowStep, SteerEarlyStep
<1>2. CASE OwnSend \/ ErrorResult
    BY <1>2, BeginPromptStep, SendOwnStep, EndSteps DEF OwnSend
<1>3. CASE ReadMessage
    BY <1>3, ReadSteps
<1>4. CASE NextCycle \/ StampWrite \/ StampCheck \/ StampClear
    BY <1>4, MoveSteps
<1>5. CASE ReadEnds
    BY <1>5, MoveSteps, EndSteps DEF ReadEnds
<1>6. CASE Conclude
    BY <1>6, MoveSteps, EndSteps DEF Conclude
<1>7. CASE SteerReturns \/ \E q \in sending : SteerFails(q)
    BY <1>7, SteerReturnStep DEF SteerReturns
<1>8. ASSUME NEW interrupt \in BOOLEAN, SteerBegin(interrupt) PROVE IInv'
    BY <1>8, SteerBeginStep
<1>9. CASE CliWork \/ CliJoin \/ CliSpawn \/ CliSchedule \/ CliExit
    BY <1>9, CliSteps DEF CliWork
<1>10. CASE UNCHANGED vars
    BY <1>10, Stutters
<1> QED
    BY <1>1, <1>2, <1>3, <1>4, <1>5, <1>6, <1>7, <1>8, <1>9, <1>10 DEF Next, Reader

\* Every reachable state of a turn's reader satisfies the inductive invariant.
THEOREM Invariance == Spec => []IInv
<1>1. Init => IInv
    BY Initially
<1>2. IInv /\ [Next]_vars => IInv'
    BY Step
<1> QED
    BY <1>1, <1>2, PTL DEF Spec

LEMMA Typed == IInv => TypeOK
<1> SUFFICES ASSUME IInv PROVE TypeOK
    OBVIOUS
<1>1. 1..made \subseteq Queries
    BY Constants DEF IInv, Types, QueryTypes, Queries
<1>2. \A s \in Seq(1..made) : s \in Seq(Queries)
  <2>1. \A S, T : S \subseteq T => \A s \in Seq(S) : s \in Seq(T)
      OBVIOUS
  <2> QED
      BY <1>1, <2>1
<1>3. /\ setting \in Settings
      /\ turn \in 0..MaxTurns /\ phase \in Phases
      /\ outcome \in {"none", "completed", "failed", "cancelled"}
      /\ cycle \in {"none", "block", "timed", "drain"}
      /\ consumed \in BOOLEAN /\ lastResult \in BOOLEAN
      /\ tracked \subseteq Tasks
      /\ verdict \in {"none", "passed", "refused"}
      /\ {wakeTracked, cycleEnded, cycleWoke, stamp, rowCancelled, invalidated} \subseteq BOOLEAN
    BY DEF IInv, Types, TurnTypes, TrackTypes
<1>4. /\ made \in 0..MaxQueries /\ of \in [Queries -> 0..MaxTurns]
      /\ tickets \in Seq(Queries) /\ IsInjective(tickets) /\ covered \subseteq ToSet(tickets)
      /\ early \subseteq Queries /\ buffer \in Seq(Queries)
      /\ sending \subseteq Queries /\ interrupting \subseteq sending
    BY <1>1, <1>2 DEF IInv, Types, QueryTypes, TicketTypes
<1>5. /\ {followup, up, eof, busy, cliWake} \subseteq BOOLEAN
      /\ delivered \subseteq Queries /\ answered \subseteq Queries /\ answering \subseteq Queries
      /\ inbox \in Seq(Queries)
      /\ cliTasks \subseteq Tasks /\ spawned \in 0..MaxTasks /\ wakeups \in 0..MaxWakeups
      /\ stream \in Seq(Messages)
    BY <1>1, <1>2 DEF IInv, Types, QueryTypes, CliTypes, StreamTypes
<1> QED
    BY <1>3, <1>4, <1>5 DEF TypeOK

\* While a query is owed a result, the stamp that lets the orphan sweep complete a dead
\* process's turn is off, outside the window of the write that raced its registration
\* (claude_sdk.py, _run_turn).
THEOREM StampTellsTheTruth == Spec => []StampIsHonest
<1>1. IInv => StampIsHonest
    BY Typed DEF IInv, StampInv, StampIsHonest
<1> QED
    BY <1>1, Invariance, PTL

\* The prompt and the steers that came before the turn was ready reach the CLI in the order
\* in which they were accepted, and before any later one (claude_sdk.py, _flush_early_steers).
THEOREM EarlyOnesGoFirst == Spec => []EarlySteersKeepOrder
<1>1. ASSUME IInv PROVE EarlySteersKeepOrder
  <2> SUFFICES ASSUME phase \in Active,
                      NEW q \in early \cup (IF phase = "launched" THEN {} ELSE {Prompt}),
                      NEW p \in delivered, Mine(q), Mine(p), p > q
               PROVE  q \in delivered
      BY DEF EarlySteersKeepOrder
  <2>1. /\ made \in Nat /\ 1..made \subseteq Queries
        /\ early \subseteq 1..made /\ delivered \subseteq 1..made
      BY <1>1, Constants DEF IInv, Types, QueryTypes, Queries
  <2>2. Prompt \in 1..made /\ \A i \in Queries : of[i] = turn <=> i \in Prompt..made
      BY <1>1, Constants DEF IInv, OwnInv, Types, TurnTypes, Active, Reading
  <2>3. q \in Prompt..made /\ p \in Prompt..made /\ of[q] = turn
    <3>1. q \in 1..made /\ p \in 1..made
        BY <2>1, <2>2
    <3> QED
        BY <2>1, <2>2, <3>1 DEF Mine
  <2>4. CASE phase \in Reading
    <3>1. q \in early \cup {Prompt}
        OBVIOUS
    <3> QED
        BY <1>1, <2>3, <2>4, <3>1 DEF IInv, OrderInv
  <2>5. CASE phase \in {"launched", "prompting", "flushing"}
    <3>1. p < Sent /\ (q < Sent => q \in delivered)
        BY <1>1, <2>3, <2>5 DEF IInv, OrderInv
    <3>2. Sent \in Int
        BY <1>1, <2>5, SentIs
    <3> QED
        BY <2>1, <2>3, <3>1, <3>2
  <2> QED
      BY <2>4, <2>5 DEF Active
<1> QED
    BY <1>1, Invariance, PTL

-----------------------------------------------------------------------------
(* The accounts of a turn without background work: every result the CLI     *)
(* can still bring has a ticket.                                           *)

Count(s) == Cardinality({i \in 1..Len(s) : s[i].kind = "result"})

\* A query that reached the CLI and was not lost with it.
Kept(q) ==
    \/ q \in answered \/ q \in answering \/ q \in ToSet(inbox)
    \/ \E i \in 1..Len(stream) : stream[i].kind = "result" /\ q \in stream[i].what

Sends == {"prompting", "flushing"}

\* The queries that can still lead to a result of their own, and the results to be read.
Owing == (IF busy THEN 1 ELSE 0) + (IF phase \in Sends THEN 1 ELSE 0)
         + Len(inbox) + Cardinality(sending) + Count(stream)

QuietInv ==
    /\ ~wakeTracked /\ ~cliWake
    /\ \A i \in 1..Len(stream) : stream[i].kind \in {"content", "result", "noop"}
    /\ ~(phase = "read" /\ cycle = "drain")
ClientInv ==
    /\ ~up => ~eof /\ sending = {} /\ tickets = <<>> /\ inbox = <<>> /\ ~busy /\ stream = <<>>
    /\ ~busy => answering = {}
    /\ phase \in Sends => up
    /\ eof => CliExits
    /\ phase = "leave" => eof \/ ~up
DebtInv ==
    up /\ ~eof =>
        /\ Owing <= Len(tickets)
        /\ ~busy /\ stream # <<>> => stream[Len(stream)].kind \in {"result", "noop"}
        /\ \A i \in 1..Len(stream) : stream[i].kind = "noop" =>
              i = 1 /\ tickets # <<>> /\ Head(tickets) \notin sending
AnswerInv ==
    ~CliExits /\ (phase \in Active \/ Completed) => \A q \in delivered : Mine(q) => Kept(q)
Books == QuietInv /\ ClientInv /\ DebtInv /\ AnswerInv

LEMMA Counted ==
    ASSUME NEW s \in Seq(Messages)
    PROVE  /\ IsFiniteSet({i \in 1..Len(s) : s[i].kind = "result"}) /\ Count(s) \in Nat
           /\ Count(s) = 0 => \A i \in 1..Len(s) : s[i].kind # "result"
<1> DEFINE R == {i \in 1..Len(s) : s[i].kind = "result"}
<1>1. IsFiniteSet(1..Len(s)) /\ R \in SUBSET (1..Len(s))
    BY FS_Interval
<1>2. IsFiniteSet(R)
    BY <1>1, FS_Subset
<1>3. Cardinality(R) \in Nat /\ (Cardinality(R) = 0 => R = {})
    BY <1>2, FS_CardinalityType, FS_EmptySet
<1> QED
    BY <1>2, <1>3 DEF Count

LEMMA CountAppended ==
    ASSUME NEW s \in Seq(Messages), NEW m \in Messages
    PROVE  Count(Append(s, m)) = Count(s) + IF m.kind = "result" THEN 1 ELSE 0
<1> DEFINE a == Append(s, m)
           R == {i \in 1..Len(s) : s[i].kind = "result"}
           A == {i \in 1..Len(a) : a[i].kind = "result"}
           n == Len(s) + 1
<1>1. /\ a \in Seq(Messages) /\ Len(a) = n /\ Len(s) \in Nat
      /\ (\A i \in 1..Len(s) : a[i] = s[i]) /\ a[n] = m
    BY AppendProperties
<1>2. IsFiniteSet(R) /\ Cardinality(R) \in Nat
    BY Counted DEF Count
<1>3. n \notin R
    BY <1>1
<1> HIDE DEF a
<1>4. CASE m.kind = "result"
  <2>1. A = R \cup {n}
      BY <1>1, <1>4
  <2>2. Cardinality(A) = Cardinality(R) + 1
      BY <1>2, <1>3, <2>1, FS_AddElement
  <2> QED
      BY <1>4, <2>2 DEF Count, a
<1>5. CASE m.kind # "result"
  <2>1. A = R
      BY <1>1, <1>5
  <2>2. Count(a) = Cardinality(A) /\ Count(s) = Cardinality(R)
      BY DEF Count
  <2> HIDE DEF A, R
  <2>3. Count(a) = Count(s) /\ Count(s) \in Nat
      BY <1>2, <2>1, <2>2
  <2> QED
      BY <1>5, <2>3 DEF a
<1> QED
    BY <1>4, <1>5

LEMMA CountTailed ==
    ASSUME NEW s \in Seq(Messages), s # <<>>
    PROVE  /\ Count(Tail(s)) \in Nat
           /\ Count(Tail(s)) <= Count(s)
           /\ Head(s).kind = "result" => Count(Tail(s)) <= Count(s) - 1
<1> DEFINE t == Tail(s)
           R == {i \in 1..Len(s) : s[i].kind = "result"}
           T == {i \in 1..Len(t) : t[i].kind = "result"}
           U == R \ {1}
           f == [i \in T |-> i + 1]
<1>1. /\ t \in Seq(Messages) /\ Len(t) = Len(s) - 1 /\ Len(s) \in Nat
      /\ Head(s) = s[1] /\ 1 \in 1..Len(s)
      /\ \A i \in 1..(Len(s) - 1) : t[i] = s[i + 1] /\ i + 1 \in 1..Len(s)
    BY Tailed
<1> HIDE DEF t
<1>2. IsFiniteSet(R) /\ Cardinality(R) \in Nat /\ Count(s) = Cardinality(R)
    BY Counted DEF Count
<1>3. Cardinality(T) \in Nat /\ Count(t) = Cardinality(T)
    BY <1>1, Counted DEF Count
<1>4. f \in Injection(T, U)
  <2>1. \A i \in T : i + 1 \in U
      BY <1>1
  <2>2. f \in [T -> U]
      BY <2>1
  <2>3. \A i, j \in T : f[i] = f[j] => i = j
      BY <1>1
  <2> QED
      BY <2>2, <2>3 DEF Injection, IsInjective
<1> HIDE DEF R, T, U, f
<1>5. IsFiniteSet(U) /\ Cardinality(U) = IF 1 \in R THEN Cardinality(R) - 1 ELSE Cardinality(R)
    BY <1>2, FS_RemoveElement DEF U
<1>6. Cardinality(T) <= Cardinality(U)
    BY <1>4, <1>5, FS_Injection
<1>7. Head(s).kind = "result" => 1 \in R
    BY <1>1 DEF R
<1>8. Cardinality(U) \in Nat
    BY <1>5, FS_CardinalityType
<1> QED
    BY <1>2, <1>3, <1>5, <1>6, <1>7, <1>8 DEF t

\* The sizes in the accounts are numbers.
LEMMA Sizes ==
    ASSUME IInv
    PROVE  /\ Len(inbox) \in Nat /\ IsFiniteSet(sending) /\ Cardinality(sending) \in Nat
           /\ Count(stream) \in Nat /\ Len(tickets) \in Nat /\ Owing \in Nat
           /\ inbox \in Seq(1..made) /\ tickets \in Seq(1..made) /\ stream \in Seq(Messages)
           /\ busy \in BOOLEAN /\ made \in Nat
<1>1. made \in Nat /\ sending \in SUBSET (1..made) /\ IsFiniteSet(1..made)
    BY Constants, FS_Interval DEF IInv, Types, QueryTypes
<1>2. IsFiniteSet(sending) /\ Cardinality(sending) \in Nat
    BY <1>1, FS_Subset, FS_CardinalityType
<1>3. /\ Len(inbox) \in Nat /\ Len(tickets) \in Nat /\ Count(stream) \in Nat
      /\ inbox \in Seq(1..made) /\ tickets \in Seq(1..made) /\ stream \in Seq(Messages)
      /\ busy \in BOOLEAN
  <2>1. /\ inbox \in Seq(1..made) /\ tickets \in Seq(1..made) /\ stream \in Seq(Messages)
        /\ busy \in BOOLEAN
      BY DEF IInv, Types, CliTypes, TicketTypes, StreamTypes
  <2> QED
      BY <2>1, Counted, Members
<1>4. Owing \in Nat
    BY <1>2, <1>3 DEF Owing
<1> QED
    BY <1>1, <1>2, <1>3, <1>4

LEMMA NoTasks == ASSUME IInv, NoBackground PROVE Tasks = {} /\ tracked = {} /\ cliTasks = {}
BY DEF IInv, Types, TrackTypes, CliTypes, Tasks, NoBackground

\* A step that leaves the queries and the CLI alone.
LEMMA BooksKept ==
    ASSUME Books, UNCHANGED <<setting, delivered, sending, tickets, answered, cliVars, stream>>,
           phase \in Sends <=> phase' \in Sends,
           cycle' = "drain" /\ phase' = "read" => cycle = "drain" /\ phase = "read",
           wakeTracked' => wakeTracked, phase' = "leave" => phase = "leave" \/ eof,
           \A q \in delivered : (phase' \in Active \/ Completed') /\ Mine(q)' =>
                                    (phase \in Active \/ Completed) /\ Mine(q)
    PROVE  Books'
<1>1. UNCHANGED <<up, eof, inbox, busy, answering, cliWake>>
    BY DEF cliVars
<1>2. QuietInv'
    BY <1>1 DEF Books, QuietInv
<1>3. ClientInv'
    BY <1>1, SettingKept DEF Books, ClientInv
<1>4. DebtInv'
  <2>1. Owing' = Owing
      BY <1>1 DEF Owing, Count
  <2> QED
      BY <1>1, <2>1 DEF Books, DebtInv
<1>5. AnswerInv'
  <2>1. \A q : Kept(q)' <=> Kept(q)
      BY <1>1 DEF Kept
  <2> QED
      BY <2>1, SettingKept DEF Books, AnswerInv
<1> QED
    BY <1>2, <1>3, <1>4, <1>5 DEF Books

\* A step that drops the client.
LEMMA BooksDropped ==
    ASSUME Books, Disconnect, UNCHANGED setting, phase' \in {"ended", "leave"},
           wakeTracked' => wakeTracked, AnswerInv'
    PROVE  Books'
<1>1. /\ tickets' = <<>> /\ sending' = {} /\ up' = FALSE /\ eof' = FALSE /\ inbox' = <<>>
      /\ busy' = FALSE /\ answering' = {} /\ stream' = <<>> /\ cliWake' = FALSE
    BY DEF Disconnect, ClearTickets
<1>2. QuietInv' /\ ClientInv' /\ DebtInv'
    BY <1>1 DEF Books, QuietInv, ClientInv, DebtInv, Sends
<1> QED
    BY <1>2 DEF Books

\* The turn's phase moves, or it is launched, or a query is buffered.
LEMMA QuietBooks ==
    ASSUME IInv, IInv', Books, NoBackground,
           \/ Launch \/ SteerEarly \/ CancelRow \/ NextCycle \/ StampWrite \/ StampCheck \/ StampClear
           \/ TimedOutOwed \/ DrainEnded \/ WakeupExpires \/ Reread \/ StartValidation
           \/ ValidatorAnswers
           \/ ValidationResumes /\ invalidated
    PROVE  Books'
<1>1. ~wakeTracked /\ ~(phase = "read" /\ cycle = "drain") /\ tracked = {}
    BY NoTasks DEF Books, QuietInv
<1>2. CASE Launch
  <2>1. /\ phase \in {"idle", "ended"} /\ phase' = "launched"
        /\ UNCHANGED <<setting, delivered, sending, tickets, answered, cliVars, stream>>
        /\ UNCHANGED wakeTracked
      BY <1>2 DEF Launch, trackVars, ticketVars
  <2>2. \A q \in delivered : ~Mine(q)'
    <3>1. delivered' \subseteq 1..made' /\ 1..made' \subseteq Queries
        BY Constants DEF IInv, Types, QueryTypes, Queries
    <3>2. turn' > 0 /\ Sent' = Prompt'
        BY <2>1 DEF IInv, OwnInv, Types, TurnTypes, Sent
    <3>3. \A q \in Queries : of'[q] = turn' <=> q \in Prompt'..made'
        BY <3>2 DEF IInv, OwnInv
    <3>4. \A q \in Prompt'..made' : q \in delivered' <=> q < Prompt'
        BY <2>1, <3>2 DEF IInv, OrderInv
    <3>5. Prompt' \in 1..made'
        BY <3>2 DEF IInv, OwnInv
    <3> QED
        BY <2>1, <3>1, <3>3, <3>4, <3>5 DEF Mine
  <2> QED
      BY <2>1, <2>2, BooksKept DEF Sends
<1>3. CASE SteerEarly
  <2>1. /\ UNCHANGED <<setting, turn, phase, outcome, cycle, wakeTracked>>
        /\ UNCHANGED <<delivered, sending, tickets, answered, cliVars, stream>>
        /\ of' = [of EXCEPT ![made + 1] = turn]
      BY <1>3 DEF SteerEarly, turnVars, readVars, trackVars, ticketVars
  <2>2. \A q \in delivered : Mine(q)' <=> Mine(q)
    <3>1. delivered \subseteq 1..made /\ made \in Nat
        BY Constants DEF IInv, Types, QueryTypes
    <3>2. \A q \in delivered : q # made + 1
        BY <3>1
    <3> QED
        BY <2>1, <3>2 DEF Mine
  <2> QED
      BY <2>1, <2>2, BooksKept DEF Completed
<1>4. CASE CancelRow
  <2>1. /\ UNCHANGED <<setting, turn, of, phase, outcome, cycle, wakeTracked>>
        /\ UNCHANGED <<delivered, sending, tickets, answered, cliVars, stream>>
      BY <1>4 DEF CancelRow, turnVars, readVars, trackVars, ticketVars, queryVars
  <2> QED
      BY <2>1, BooksKept DEF Completed, Mine
<1>5. CASE NextCycle
  <2>1. /\ UNCHANGED <<setting, turn, of, outcome, wakeTracked, tracked>>
        /\ UNCHANGED <<delivered, sending, tickets, answered, cliVars, stream>>
        /\ phase = "top" /\ phase' = "read" /\ MoreToRead
        /\ cycle' = "drain" => tickets = <<>>
      BY <1>5 DEF NextCycle, ticketVars
  <2>2. tickets # <<>>
      BY <1>1, <2>1 DEF MoreToRead, Background
  <2> QED
      BY <2>1, <2>2, BooksKept DEF Completed, Mine, Sends, Active, Reading
<1>6. CASE \/ StampWrite \/ StampCheck \/ StampClear \/ TimedOutOwed \/ Reread \/ StartValidation
           \/ ValidatorAnswers
           \/ ValidationResumes /\ invalidated
  <2>1. /\ UNCHANGED <<setting, turn, of, outcome, wakeTracked>>
        /\ UNCHANGED <<delivered, sending, tickets, answered, cliVars, stream>>
        /\ phase \in Reading /\ phase' \in Reading \ {"leave", "read"}
    <3>1. CASE StampWrite \/ StampCheck \/ StampClear
        BY <3>1 DEF StampWrite, StampCheck, StampClear, Reading, trackVars, queryVars, ticketVars
    <3>2. CASE TimedOutOwed \/ Reread \/ StartValidation
        BY <3>2 DEF TimedOutOwed, Reread, LeavesLoop, StartValidation, Reading, trackVars, queryVars,
                    ticketVars
    <3>3. CASE ValidatorAnswers \/ (ValidationResumes /\ invalidated)
        BY <3>3 DEF ValidatorAnswers, ValidationResumes, Reading, turnVars, trackVars, queryVars,
                    ticketVars
    <3> QED
        BY <1>6, <3>1, <3>2, <3>3
  <2> QED
      BY <2>1, BooksKept DEF Completed, Mine, Sends, Active, Reading
<1>7. CASE DrainEnded \/ WakeupExpires
    BY <1>1, <1>7 DEF DrainEnded, WakeupExpires
<1> QED
    BY <1>2, <1>3, <1>4, <1>5, <1>6, <1>7

LEMMA EndBooks ==
    ASSUME IInv, Books, NoBackground,
           \/ SendOwnFails \/ TimedOut \/ TimedOutInterrupted \/ StreamEnded \/ DrainPoll
           \/ Unverified \/ ErrorResult \/ CompleteTurn \/ TurnCancelled
           \/ ValidationResumes /\ ~invalidated
    PROVE  Books'
<1>1. /\ ~wakeTracked /\ ~(phase = "read" /\ cycle = "drain") /\ ~Background
      /\ phase = "leave" => eof \/ ~up
    BY NoTasks DEF Books, QuietInv, ClientInv, Background
<1>2. ASSUME Disconnect, NEW o \in {"failed", "cancelled"}, End(o) PROVE Books'
  <2>1. UNCHANGED setting /\ phase' = "ended" /\ outcome' = o /\ wakeTracked' = FALSE
      BY <1>2 DEF End
  <2>2. AnswerInv'
      BY <2>1 DEF AnswerInv, Completed, Active, Reading
  <2> QED
      BY <1>2, <2>1, <2>2, BooksDropped
<1>3. ASSUME Fail PROVE Books'
    BY <1>2, <1>3 DEF Fail
<1>4. ASSUME Complete, phase \in {"top", "leave", "validate"} PROVE Books'
  <2>1. CASE rowCancelled
      BY <1>2, <1>4, <2>1 DEF Complete
  <2>2. CASE ~rowCancelled
    <3>1. KeepClient /\ End("completed")
        BY <1>4, <2>2 DEF Complete
    <3>2. /\ UNCHANGED <<setting, turn, of, delivered, sending, tickets, answered, cliVars, stream>>
          /\ phase' = "ended" /\ wakeTracked' = FALSE
        BY <3>1 DEF KeepClient, End, ticketVars
    <3> QED
        BY <1>4, <3>2, BooksKept DEF Completed, Mine, Sends, Active, Reading
  <2> QED
      BY <2>1, <2>2
<1>5. CASE SendOwnFails \/ TimedOutInterrupted \/ Unverified \/ ErrorResult
    BY <1>3, <1>5 DEF SendOwnFails, TimedOutInterrupted, Unverified, ErrorResult
<1>6. CASE TurnCancelled
    BY <1>2, <1>6 DEF TurnCancelled
<1>7. CASE CompleteTurn
    BY <1>4, <1>7 DEF CompleteTurn, LeavesLoop
<1>8. CASE ValidationResumes /\ ~invalidated
    BY <1>3, <1>4, <1>8 DEF ValidationResumes
<1>9. CASE DrainPoll
    BY <1>1, <1>9 DEF DrainPoll
<1>10. CASE TimedOut
  <2>1. /\ phase = "read" /\ Quiet /\ Disconnect /\ phase' = "leave"
        /\ UNCHANGED <<setting, turn, outcome, trackVars, answered>>
      BY <1>1, <1>10 DEF TimedOut
  <2>2. UNCHANGED <<of, delivered, wakeTracked>>
      BY <2>1 DEF Disconnect, trackVars
  <2>3. AnswerInv'
    <3> SUFFICES ASSUME ~CliExits, NEW q \in delivered, Mine(q) PROVE Kept(q)'
        BY <2>1, <2>2, SettingKept DEF AnswerInv, Mine
    <3>1. Kept(q)
        BY <2>1 DEF Books, AnswerInv, Active, Reading
    <3>2. stream = <<>> /\ inbox = <<>> /\ answering = {}
        BY <2>1 DEF Quiet, Books, ClientInv
    <3>3. q \in answered
        BY <3>1, <3>2 DEF Kept, ToSet
    <3> QED
        BY <2>1, <3>3 DEF Kept
  <2> QED
      BY <2>1, <2>2, <2>3, BooksDropped
<1>11. CASE StreamEnded
  <2>1. CASE NeedsResult
      BY <1>3, <1>11, <2>1 DEF StreamEnded
  <2>2. CASE ~NeedsResult
    <3>1. /\ phase = "read" /\ eof /\ ClearTickets /\ phase' = "leave"
          /\ UNCHANGED <<setting, turn, outcome, wakeTracked, of, sending, delivered, answered>>
          /\ UNCHANGED <<cliVars, stream>>
        BY <1>11, <2>2 DEF StreamEnded, trackVars
    <3>2. eof' = eof /\ tickets' = <<>> /\ UNCHANGED <<up, inbox, busy, answering, cliWake>>
        BY <3>1 DEF cliVars, ClearTickets
    <3>3. QuietInv' /\ ClientInv' /\ DebtInv' /\ AnswerInv'
        BY <3>1, <3>2, SettingKept
           DEF Books, QuietInv, ClientInv, DebtInv, AnswerInv, Sends
    <3> QED
        BY <3>3 DEF Books
  <2> QED
      BY <2>1, <2>2
<1> QED
    BY <1>5, <1>6, <1>7, <1>8, <1>9, <1>10, <1>11

\* What is left of the stream when its first message has been read.
LEMMA StreamRead ==
    ASSUME IInv, QuietInv, stream # <<>>, stream' = Tail(stream)
    PROVE  /\ Len(stream') = Len(stream) - 1 /\ Len(stream) \in Nat /\ stream' \in Seq(Messages)
           /\ \A i \in 1..Len(stream') : stream'[i] = stream[i + 1] /\ i + 1 \in 1..Len(stream)
           /\ \A i \in 1..Len(stream') : stream'[i].kind \in {"content", "result", "noop"}
           /\ Head(stream) = stream[1] /\ Head(stream).kind \in {"content", "result", "noop"}
           /\ stream' # <<>> => stream'[Len(stream')] = stream[Len(stream)]
<1>1. stream \in Seq(Messages)
    BY DEF IInv, Types, StreamTypes
<1>2. /\ Len(stream') = Len(stream) - 1 /\ Len(stream) \in Nat /\ stream' \in Seq(Messages)
      /\ Head(stream) = stream[1] /\ 1 \in 1..Len(stream)
      /\ \A i \in 1..(Len(stream) - 1) : stream'[i] = stream[i + 1] /\ i + 1 \in 1..Len(stream)
    BY <1>1, Tailed
<1>3. \A i \in 1..Len(stream) : stream[i].kind \in {"content", "result", "noop"}
    BY DEF QuietInv
<1>4. \A i \in 1..Len(stream') : stream'[i].kind \in {"content", "result", "noop"}
  <2> TAKE i \in 1..Len(stream')
  <2>1. stream'[i] = stream[i + 1] /\ i + 1 \in 1..Len(stream)
      BY <1>2
  <2> QED
      BY <1>3, <2>1
<1>5. ASSUME stream' # <<>> PROVE stream'[Len(stream')] = stream[Len(stream)]
  <2>1. Len(stream') # 0
      BY <1>2, <1>5, Members
  <2>2. Len(stream') \in 1..(Len(stream) - 1) /\ Len(stream') + 1 = Len(stream)
      BY <1>2, <2>1
  <2> QED
      BY <1>2, <2>2
<1> QED
    BY <1>2, <1>3, <1>4, <1>5

\* A message that settles no ticket.
LEMMA MessageBooks ==
    ASSUME IInv, Books, NEW kind \in {"content", "noop"}, Receive(kind), phase' \in {"read", "top"},
           UNCHANGED <<tickets, answered, wakeTracked>>
    PROVE  Books'
<1>1. /\ phase = "read" /\ stream # <<>> /\ Head(stream).kind = kind /\ stream' = Tail(stream)
      /\ UNCHANGED <<setting, turn, outcome, of, sending, delivered, cliVars>>
      /\ cycle' = "drain" => cycle = "drain"
    BY Received
<1>2. UNCHANGED <<up, eof, inbox, busy, answering, cliWake>>
    BY <1>1 DEF cliVars
<1>3. /\ Len(stream') = Len(stream) - 1 /\ Len(stream) \in Nat /\ stream' \in Seq(Messages)
      /\ \A i \in 1..Len(stream') : stream'[i] = stream[i + 1] /\ i + 1 \in 1..Len(stream)
      /\ \A i \in 1..Len(stream') : stream'[i].kind \in {"content", "result", "noop"}
      /\ Head(stream) = stream[1]
      /\ stream' # <<>> => stream'[Len(stream')] = stream[Len(stream)]
    BY <1>1, StreamRead DEF Books
<1>4. QuietInv'
    BY <1>1, <1>2, <1>3 DEF Books, QuietInv
<1>5. ClientInv'
    BY <1>1, <1>2, SettingKept DEF Books, ClientInv, Sends
<1>6. DebtInv'
  <2> SUFFICES ASSUME up, ~eof
               PROVE  /\ Owing' <= Len(tickets)
                      /\ ~busy /\ stream' # <<>> => stream'[Len(stream')].kind \in {"result", "noop"}
                      /\ \A i \in 1..Len(stream') : stream'[i].kind # "noop"
      BY <1>1, <1>2 DEF DebtInv
  <2>1. /\ Owing <= Len(tickets)
        /\ ~busy => stream[Len(stream)].kind \in {"result", "noop"}
        /\ \A i \in 1..Len(stream) : stream[i].kind = "noop" => i = 1
      BY <1>1 DEF Books, DebtInv
  <2>2. Owing' <= Owing
    <3>1. Count(stream') \in Nat /\ Count(stream') <= Count(stream)
        BY <1>1, Sizes, CountTailed
    <3> DEFINE rest == (IF busy THEN 1 ELSE 0) + 0 + Len(inbox) + Cardinality(sending)
    <3>2. Owing = rest + Count(stream) /\ Owing' = rest + Count(stream')
        BY <1>1, <1>2 DEF Owing, Sends, Count
    <3>3. rest \in Nat
        BY Sizes
    <3> HIDE DEF rest
    <3> QED
        BY <3>1, <3>2, <3>3, Sizes
  <2>3. Owing' \in Nat
    <3>1. Count(stream') \in Nat
        BY <1>3, Counted
    <3> QED
        BY <1>1, <1>2, <3>1, Sizes DEF Owing
  <2>4. \A i \in 1..Len(stream') : stream'[i].kind # "noop"
    <3> TAKE i \in 1..Len(stream')
    <3>1. stream'[i] = stream[i + 1] /\ i + 1 \in 1..Len(stream) /\ i + 1 # 1
        BY <1>3
    <3> QED
        BY <2>1, <3>1
  <2>5. Owing' <= Len(tickets)
      BY <2>1, <2>2, <2>3, Sizes
  <2> QED
      BY <1>3, <2>1, <2>4, <2>5
<1>7. AnswerInv'
  <2>1. ASSUME NEW q, Kept(q) PROVE Kept(q)'
    <3>1. ASSUME NEW i \in 1..Len(stream), stream[i].kind = "result"
          PROVE  \E j \in 1..Len(stream') : stream'[j] = stream[i]
      <4>1. i # 1
          BY <1>1, <1>3, <3>1
      <4>2. i - 1 \in 1..Len(stream') /\ (i - 1) + 1 = i
          BY <1>3, <4>1
      <4>3. stream'[i - 1] = stream[i]
          BY <1>3, <4>2
      <4> QED
          BY <4>2, <4>3
    <3> QED
        BY <1>2, <2>1, <3>1 DEF Kept
  <2> QED
      BY <1>1, <2>1, SettingKept DEF Books, AnswerInv, Active, Reading, Completed, Mine
<1> QED
    BY <1>4, <1>5, <1>6, <1>7 DEF Books

\* A result settles the oldest ticket.
LEMMA ResultBooks == ASSUME IInv, Books, ReadResult PROVE Books'
<1>1. /\ phase = "read" /\ stream # <<>> /\ Head(stream).kind = "result" /\ stream' = Tail(stream)
      /\ UNCHANGED <<setting, turn, outcome, of, sending, delivered, cliVars>>
      /\ phase' = "stamp" /\ answered' = answered \cup Head(stream).what
      /\ tickets' = IF tickets = <<>> THEN <<>> ELSE Tail(tickets)
      /\ wakeTracked' => wakeTracked
    BY Received DEF ReadResult
<1>2. UNCHANGED <<up, eof, inbox, busy, answering, cliWake>>
    BY <1>1 DEF cliVars
<1>3. /\ Len(stream') = Len(stream) - 1 /\ Len(stream) \in Nat /\ stream' \in Seq(Messages)
      /\ \A i \in 1..Len(stream') : stream'[i] = stream[i + 1] /\ i + 1 \in 1..Len(stream)
      /\ \A i \in 1..Len(stream') : stream'[i].kind \in {"content", "result", "noop"}
      /\ Head(stream) = stream[1]
      /\ stream' # <<>> => stream'[Len(stream')] = stream[Len(stream)]
    BY <1>1, StreamRead DEF Books
<1>4. QuietInv'
    BY <1>1, <1>2, <1>3 DEF Books, QuietInv
<1>5. ClientInv'
    BY <1>1, <1>2, SettingKept DEF Books, ClientInv, Sends
<1>6. DebtInv'
  <2> SUFFICES ASSUME up, ~eof
               PROVE  /\ Owing' <= Len(tickets')
                      /\ ~busy /\ stream' # <<>> => stream'[Len(stream')].kind \in {"result", "noop"}
                      /\ \A i \in 1..Len(stream') : stream'[i].kind # "noop"
      BY <1>1, <1>2 DEF DebtInv
  <2>1. /\ Owing <= Len(tickets)
        /\ ~busy => stream[Len(stream)].kind \in {"result", "noop"}
        /\ \A i \in 1..Len(stream) : stream[i].kind = "noop" => i = 1
      BY <1>1 DEF Books, DebtInv
  <2>2. Owing' <= Owing - 1 /\ Owing' \in Nat
    <3>1. Count(stream') \in Nat /\ Count(stream') <= Count(stream) - 1
        BY <1>1, Sizes, CountTailed
    <3> DEFINE rest == (IF busy THEN 1 ELSE 0) + 0 + Len(inbox) + Cardinality(sending)
    <3>2. Owing = rest + Count(stream) /\ Owing' = rest + Count(stream')
        BY <1>1, <1>2 DEF Owing, Sends, Count
    <3>3. rest \in Nat
        BY Sizes
    <3> HIDE DEF rest
    <3> QED
        BY <3>1, <3>2, <3>3, Sizes
  <2>3. Len(tickets') = Len(tickets) - 1
    <3>1. Len(tickets) # 0
        BY <2>1, <2>2, Sizes
    <3>2. tickets # <<>>
        BY <3>1
    <3> QED
        BY <1>1, <3>2, Sizes, Tailed
  <2>4. \A i \in 1..Len(stream') : stream'[i].kind # "noop"
    <3> TAKE i \in 1..Len(stream')
    <3>1. stream'[i] = stream[i + 1] /\ i + 1 \in 1..Len(stream) /\ i + 1 # 1
        BY <1>3
    <3> QED
        BY <2>1, <3>1
  <2>5. Owing' <= Len(tickets')
      BY <2>1, <2>2, <2>3, Sizes
  <2> QED
      BY <1>3, <2>1, <2>4, <2>5
<1>7. AnswerInv'
  <2>1. ASSUME NEW q, Kept(q) PROVE Kept(q)'
    <3>1. ASSUME NEW i \in 1..Len(stream), stream[i].kind = "result"
          PROVE  stream[i] = Head(stream) \/ \E j \in 1..Len(stream') : stream'[j] = stream[i]
      <4>1. CASE i = 1
          BY <1>3, <4>1
      <4>2. CASE i # 1
        <5>1. i - 1 \in 1..Len(stream') /\ (i - 1) + 1 = i
            BY <1>3, <4>2
        <5>2. stream'[i - 1] = stream[i]
            BY <1>3, <5>1
        <5> QED
            BY <5>1, <5>2
      <4> QED
          BY <4>1, <4>2
    <3> QED
        BY <1>1, <1>2, <2>1, <3>1 DEF Kept
  <2> QED
      BY <1>1, <2>1, SettingKept DEF Books, AnswerInv, Active, Reading, Completed, Mine
<1> QED
    BY <1>4, <1>5, <1>6, <1>7 DEF Books

LEMMA ReadBooks == ASSUME IInv, Books, ReadMessage PROVE Books'
<1>1. CASE ReadContent
    BY <1>1, Received, MessageBooks DEF ReadContent, trackVars, ticketVars
<1>2. CASE ReadNoop
    BY <1>2, MessageBooks DEF ReadNoop, trackVars, ticketVars
<1>3. CASE ReadResult
    BY <1>3, ResultBooks
<1>4. CASE ReadTaskStart \/ ReadTaskEnd \/ ReadWakeup
  <2>1. stream # <<>> /\ Head(stream).kind \in {"started", "ended", "wakeup"}
      BY <1>4 DEF ReadTaskStart, ReadTaskEnd, ReadWakeup, Receive
  <2>2. 1 \in 1..Len(stream) /\ Head(stream) = stream[1]
      BY <2>1, Tailed, Sizes
  <2> QED
      BY <2>1, <2>2 DEF Books, QuietInv
<1> QED
    BY <1>1, <1>2, <1>3, <1>4 DEF ReadMessage


\* A message of the CLI's arrives behind the unread ones.
LEMMA StreamAppended ==
    ASSUME IInv, NEW m \in Messages, m.kind \in {"content", "result"}, stream' = Append(stream, m)
    PROVE  /\ stream' # <<>> /\ stream'[Len(stream')] = m
           /\ \A i \in 1..Len(stream) : i \in 1..Len(stream') /\ stream'[i] = stream[i]
           /\ Len(stream') \in 1..Len(stream')
           /\ \A i \in 1..Len(stream') : stream'[i] = m \/ (i \in 1..Len(stream) /\ stream'[i] = stream[i])
           /\ Count(stream') = Count(stream) + IF m.kind = "result" THEN 1 ELSE 0
<1>1. stream \in Seq(Messages)
    BY DEF IInv, Types, StreamTypes
<1>2. /\ Len(stream) \in Nat /\ Len(stream') = Len(stream) + 1 /\ stream' # <<>>
      /\ \A i \in 1..Len(stream) : stream'[i] = stream[i]
      /\ stream'[Len(stream) + 1] = m
    BY <1>1, Appended, Members
<1>3. Count(stream') = Count(stream) + IF m.kind = "result" THEN 1 ELSE 0
    BY <1>1, CountAppended
<1>4. \A i \in 1..Len(stream') : i = Len(stream) + 1 \/ i \in 1..Len(stream)
    BY <1>2
<1>5. \A i \in 1..Len(stream) : i \in 1..Len(stream')
    BY <1>2
<1>6. Len(stream') \in 1..Len(stream')
    BY <1>2
<1> QED
    BY <1>2, <1>3, <1>4, <1>5, <1>6

\* The turn sends its prompt, or the next steer it buffered: the query takes the ticket
\* that was registered for it into the CLI's inbox.
LEMMA OwnBooks == ASSUME IInv, IInv', Books, NoBackground, BeginPrompt \/ SendOwn PROVE Books'
<1>1. CASE BeginPrompt
  <2>1. /\ phase = "launched" /\ phase' = "prompting" /\ up' = TRUE
        /\ UNCHANGED <<setting, turn, outcome, cycle, wakeTracked, of, sending, delivered, answered>>
        /\ UNCHANGED <<eof, inbox, busy, answering, cliWake>>
        /\ IF up THEN UNCHANGED stream ELSE stream' \in {<<>>, <<Noop>>}
      BY <1>1 DEF BeginPrompt, readVars, trackVars, validVars, queryVars
  <2>2. tickets = <<>> /\ tickets' = <<Prompt'>> /\ \A q \in sending : q < Prompt'
      BY <2>1 DEF IInv, TicketInv, OrderInv
  <2>3. ~up => ~eof /\ sending = {} /\ inbox = <<>> /\ ~busy /\ stream = <<>> /\ answering = {}
      BY DEF Books, ClientInv
  <2>4. Len(tickets) = 0 /\ Len(tickets') = 1 /\ Head(tickets') = Prompt' /\ tickets' # <<>>
      BY <2>2
  <2>5. Prompt' \in Nat
      BY <2>1, Constants DEF IInv, OwnInv, Types, TurnTypes, QueryTypes
  <2>6. ~up => stream' = <<>> \/ (Len(stream') = 1 /\ stream'[1] = Noop)
      BY <2>1
  <2>7. Noop.kind = "noop"
      BY DEF Noop, Message
  <2>8. QuietInv'
    <3>1. CASE up
        BY <2>1, <3>1 DEF Books, QuietInv
    <3>2. CASE ~up
      <4>1. \A i \in 1..Len(stream') : stream'[i].kind \in {"content", "result", "noop"}
          BY <2>6, <2>7, <3>2
      <4> QED
          BY <2>1, <4>1 DEF Books, QuietInv
    <3> QED
        BY <3>1, <3>2
  <2>9. ClientInv'
      BY <2>1, SettingKept DEF Books, ClientInv
  <2>10. DebtInv'
    <3> SUFFICES ASSUME ~eof
                 PROVE  /\ Owing' <= Len(tickets')
                        /\ ~busy /\ stream' # <<>> => stream'[Len(stream')].kind \in {"result", "noop"}
                        /\ \A i \in 1..Len(stream') : stream'[i].kind = "noop" => i = 1
        BY <2>1, <2>2, <2>4, <2>5 DEF DebtInv
    <3>1. Owing <= 0 /\ Count(stream') <= Count(stream) /\ Count(stream') \in Nat
      <4>1. CASE up
          BY <2>1, <2>4, <4>1, Sizes DEF Books, DebtInv, Count
      <4>2. CASE ~up
        <5>1. stream' \in Seq(Messages)
            BY <2>1, SettingKept DEF IInv, Types, StreamTypes
        <5>2. \A i \in 1..Len(stream') : stream'[i].kind # "result"
            BY <2>6, <2>7, <4>2
        <5>3. Count(stream') = 0 /\ Count(stream) = 0
            BY <2>3, <4>2, <5>2, FS_EmptySet DEF Count
        <5>4. Len(inbox) = 0 /\ Cardinality(sending) = 0 /\ ~busy
            BY <2>3, <4>2, FS_EmptySet
        <5>5. Owing = 0
            BY <2>1, <5>3, <5>4 DEF Owing, Sends
        <5> QED
            BY <5>3, <5>5
      <4> QED
          BY <4>1, <4>2
    <3> DEFINE rest == (IF busy THEN 1 ELSE 0) + 0 + Len(inbox) + Cardinality(sending)
    <3>2. rest \in Nat /\ Owing = rest + Count(stream)
        BY <2>1, Sizes DEF Owing, Sends
    <3>3. Owing' = (IF busy THEN 1 ELSE 0) + 1 + Len(inbox) + Cardinality(sending) + Count(stream')
        BY <2>1 DEF Owing, Sends, Count
    <3>4. Owing' = rest + 1 + Count(stream')
        BY <3>1, <3>3, Sizes
    <3> HIDE DEF rest
    <3>5. Owing' <= 1
        BY <3>1, <3>2, <3>4, Sizes
    <3>6. CASE up
        BY <2>1, <2>2, <2>4, <3>5, <3>6 DEF Books, DebtInv
    <3>7. CASE ~up
        BY <2>4, <2>6, <2>7, <3>5, <3>7
    <3> QED
        BY <3>6, <3>7
  <2>11. AnswerInv'
    <3>1. \A q : Kept(q) => Kept(q)'
      <4>1. CASE up
          BY <2>1, <4>1 DEF Kept
      <4>2. CASE ~up
          BY <2>1, <2>3, <4>2 DEF Kept
      <4> QED
          BY <4>1, <4>2
    <3> QED
        BY <2>1, <3>1, SettingKept DEF Books, AnswerInv, Active, Mine
  <2> QED
      BY <2>8, <2>9, <2>10, <2>11 DEF Books
<1>2. CASE SendOwn
  <2>0. PICK c : c = Last(tickets)
      OBVIOUS
  <2>1. /\ phase \in Sends /\ ~eof /\ phase' \in {"top", "flushing"}
        /\ inbox' = Append(inbox, c) /\ delivered' = delivered \cup {c}
        /\ UNCHANGED <<setting, turn, outcome, cycle, wakeTracked, of, sending, answered>>
        /\ UNCHANGED <<up, eof, busy, answering, cliWake, stream>>
        /\ \/ phase' = "top" /\ UNCHANGED tickets
           \/ phase' = "flushing" /\ \E q : tickets' = Append(tickets, q)
      BY <1>2, <2>0 DEF SendOwn, Deliver, Register, readVars, trackVars, validVars, Sends
  <2>2. up /\ tickets # <<>> /\ tickets \in Seq(1..made) /\ inbox \in Seq(1..made) /\ made \in Nat
      BY <2>1, Sizes DEF Books, ClientInv, IInv, TicketInv, Sends
  <2>3. c \in 1..made
    <3>1. c = tickets[Len(tickets)] /\ Len(tickets) \in 1..Len(tickets)
        BY <2>0, <2>2, Members DEF Last
    <3> QED
        BY <2>2, <3>1, Members
  <2>4. Len(inbox') = Len(inbox) + 1 /\ ToSet(inbox') = ToSet(inbox) \cup {c}
      BY <2>1, <2>2, <2>3, Appended
  <2>5. QuietInv'
      BY <2>1 DEF Books, QuietInv
  <2>6. ClientInv'
      BY <2>1, <2>2, SettingKept DEF Books, ClientInv
  <2>7. DebtInv'
    <3>1. /\ Owing <= Len(tickets)
          /\ ~busy /\ stream # <<>> => stream[Len(stream)].kind \in {"result", "noop"}
          /\ \A i \in 1..Len(stream) : stream[i].kind = "noop" => i = 1 /\ Head(tickets) \notin sending
        BY <2>1, <2>2 DEF Books, DebtInv
    <3>0. PICK b \in Nat : b = IF busy THEN 1 ELSE 0
        OBVIOUS
    <3> DEFINE rest == b + Len(inbox) + Cardinality(sending) + Count(stream)
    <3>2. rest \in Nat
        BY Sizes
    <3>3. Owing = rest + 1
      <4>1. Owing = b + 1 + Len(inbox) + Cardinality(sending) + Count(stream)
          BY <2>1, <3>0 DEF Owing
      <4> QED
          BY <4>1, Sizes
    <3>4. ASSUME NEW k \in Nat, k = IF phase' \in Sends THEN 1 ELSE 0 PROVE Owing' = rest + 1 + k
      <4>1. Owing' = b + k + Len(inbox') + Cardinality(sending) + Count(stream)
          BY <2>1, <3>0, <3>4 DEF Owing, Count
      <4> QED
          BY <2>4, <4>1, Sizes
    <3> HIDE DEF rest
    <3>6. CASE phase' = "top" /\ UNCHANGED tickets
      <4>1. Owing' = rest + 1
          BY <3>2, <3>4, <3>6 DEF Sends
      <4> QED
          BY <2>1, <2>2, <3>1, <3>3, <3>6, <4>1 DEF DebtInv
    <3>7. ASSUME phase' = "flushing", NEW q, tickets' = Append(tickets, q) PROVE DebtInv'
      <4>1. Owing' = rest + 2
          BY <3>2, <3>4, <3>7 DEF Sends
      <4>2. tickets \in Seq(Int \cup {q})
          BY <2>2
      <4>3. Len(tickets') = Len(tickets) + 1 /\ tickets'[1] = tickets[1] /\ tickets' # <<>>
        <5>1. 1 \in 1..Len(tickets)
            BY <2>2, Tailed
        <5> QED
            BY <3>7, <4>2, <5>1, Appended
      <4>4. Head(tickets') = Head(tickets)
          BY <4>3
      <4>5. Owing' <= Len(tickets')
          BY <3>1, <3>2, <3>3, <4>1, <4>3, Sizes
      <4> QED
          BY <2>1, <2>2, <3>1, <4>3, <4>4, <4>5 DEF DebtInv
    <3> QED
        BY <2>1, <3>6, <3>7
  <2>8. AnswerInv'
    <3>1. \A q : Kept(q) => Kept(q)'
        BY <2>1, <2>4 DEF Kept
    <3>2. Kept(c)'
        BY <2>4 DEF Kept
    <3> QED
        BY <2>1, <3>1, <3>2, SettingKept DEF Books, AnswerInv, Active, Reading, Mine, Sends
  <2> QED
      BY <2>5, <2>6, <2>7, <2>8 DEF Books
<1> QED
    BY <1>1, <1>2

\* A steer takes its ticket, and then sends.
LEMMA SteerBeginBooks ==
    ASSUME IInv, Books, NEW interrupt \in BOOLEAN, SteerBegin(interrupt)
    PROVE  Books'
<1> DEFINE new == made + 1
<1>1. /\ phase \in Reading /\ up
      /\ UNCHANGED <<setting, turn, phase, outcome, cycle, wakeTracked, delivered, answered>>
      /\ UNCHANGED <<up, eof, inbox, busy, answering, cliWake, stream>>
      /\ of' = [of EXCEPT ![new] = turn]
      /\ tickets' = Append(tickets, new) /\ sending' = sending \cup {new}
    BY DEF SteerBegin, Register, turnVars, readVars, trackVars, cliVars
<1>2. /\ made \in Nat /\ sending \subseteq 1..made /\ delivered \subseteq 1..made
      /\ tickets \in Seq(1..made) /\ tickets \in Seq(Int)
    BY Constants DEF IInv, Types, QueryTypes, TicketTypes
<1>3. \A q \in sending \cup delivered \cup 1..made : q # new
    BY <1>2
<1>4. new \notin sending /\ new \in Int
    BY <1>2, <1>3
<1> HIDE DEF new
<1>5. Cardinality(sending') = Cardinality(sending) + 1
    BY <1>1, <1>4, Sizes, FS_AddElement
<1>6. /\ Len(tickets') = Len(tickets) + 1 /\ tickets' # <<>>
      /\ \A i \in 1..Len(tickets) : tickets'[i] = tickets[i]
    BY <1>1, <1>2, <1>4, Appended
<1>7. QuietInv' /\ ClientInv'
    BY <1>1, SettingKept DEF Books, QuietInv, ClientInv, Sends, Reading
<1>8. DebtInv'
  <2> SUFFICES ASSUME ~eof
               PROVE  /\ Owing' <= Len(tickets')
                      /\ ~busy /\ stream # <<>> => stream[Len(stream)].kind \in {"result", "noop"}
                      /\ \A i \in 1..Len(stream) : stream[i].kind = "noop" =>
                            i = 1 /\ Head(tickets') \notin sending'
      BY <1>1, <1>6 DEF DebtInv
  <2>1. /\ Owing <= Len(tickets)
        /\ ~busy /\ stream # <<>> => stream[Len(stream)].kind \in {"result", "noop"}
        /\ \A i \in 1..Len(stream) : stream[i].kind = "noop" =>
              i = 1 /\ tickets # <<>> /\ Head(tickets) \notin sending
      BY <1>1 DEF Books, DebtInv
  <2>2. Owing' = Owing + 1
    <3>1. PICK b \in Nat : b = IF busy THEN 1 ELSE 0
        OBVIOUS
    <3>2. Owing = b + 0 + Len(inbox) + Cardinality(sending) + Count(stream)
        BY <1>1, <3>1 DEF Owing, Sends, Reading
    <3>3. Owing' = b + 0 + Len(inbox) + (Cardinality(sending) + 1) + Count(stream)
        BY <1>1, <1>5, <3>1 DEF Owing, Sends, Reading, Count
    <3> QED
        BY <3>2, <3>3, Sizes
  <2>3. tickets # <<>> => Head(tickets') = Head(tickets) /\ Head(tickets) # new
    <3> SUFFICES ASSUME tickets # <<>> PROVE Head(tickets') = Head(tickets) /\ Head(tickets) # new
        OBVIOUS
    <3>1. 1 \in 1..Len(tickets) /\ Head(tickets) = tickets[1] /\ Head(tickets) \in 1..made
        BY <1>2, Tailed
    <3>2. Head(tickets') = tickets'[1]
        OBVIOUS
    <3> QED
        BY <1>3, <1>6, <3>1, <3>2
  <2>4. Owing' <= Len(tickets')
      BY <1>6, <2>1, <2>2, Sizes
  <2> QED
      BY <1>1, <2>1, <2>3, <2>4
<1>9. AnswerInv'
  <2>1. \A q \in delivered : Mine(q)' <=> Mine(q)
      BY <1>1, <1>3 DEF Mine
  <2>2. \A q : Kept(q)' <=> Kept(q)
      BY <1>1 DEF Kept
  <2> QED
      BY <1>1, <2>1, <2>2, SettingKept DEF Books, AnswerInv, Completed
<1> QED
    BY <1>7, <1>8, <1>9 DEF Books

\* The response under way ends: its result follows what is unread, and tells which queries
\* it answers.
LEMMA ResponseEnds ==
    ASSUME IInv, Books, NoBackground, up, ~eof, busy, busy' = FALSE, answering' = {},
           stream' = Append(stream, Result(answering)),
           UNCHANGED <<setting, turn, phase, outcome, cycle, wakeTracked, of, sending, tickets>>,
           UNCHANGED <<delivered, answered, up, eof, inbox, cliWake>>
    PROVE  Books'
<1>1. /\ Result(answering) \in Messages
      /\ Result(answering).kind = "result" /\ Result(answering).what = answering
    BY Fitting DEF Result, Message
<1>2. /\ stream' # <<>> /\ stream'[Len(stream')] = Result(answering)
      /\ \A i \in 1..Len(stream) : i \in 1..Len(stream') /\ stream'[i] = stream[i]
      /\ Len(stream') \in 1..Len(stream')
      /\ \A i \in 1..Len(stream') :
            stream'[i] = Result(answering) \/ (i \in 1..Len(stream) /\ stream'[i] = stream[i])
      /\ Count(stream') = Count(stream) + 1
    BY <1>1, StreamAppended
<1>3. QuietInv'
    BY <1>1, <1>2 DEF Books, QuietInv
<1>4. ClientInv'
    BY SettingKept DEF Books, ClientInv
<1>5. DebtInv'
  <2>1. /\ Owing <= Len(tickets)
        /\ \A i \in 1..Len(stream) : stream[i].kind = "noop" =>
              i = 1 /\ tickets # <<>> /\ Head(tickets) \notin sending
      BY DEF Books, DebtInv
  <2>2. Owing' = Owing
    <3>1. PICK k \in Nat : k = IF phase \in Sends THEN 1 ELSE 0
        OBVIOUS
    <3>2. Owing = 1 + k + Len(inbox) + Cardinality(sending) + Count(stream)
        BY <3>1 DEF Owing
    <3>3. Owing' = 0 + k + Len(inbox) + Cardinality(sending) + (Count(stream) + 1)
        BY <1>2, <3>1 DEF Owing, Count
    <3> QED
        BY <3>2, <3>3, Sizes
  <2> QED
      BY <1>1, <1>2, <2>1, <2>2 DEF DebtInv
<1>6. AnswerInv'
  <2>1. \A q : Kept(q) => Kept(q)'
      BY <1>1, <1>2 DEF Kept
  <2> QED
      BY <2>1, SettingKept DEF Books, AnswerInv, Completed, Mine
<1> QED
    BY <1>3, <1>4, <1>5, <1>6 DEF Books

LEMMA InboxGrows ==
    ASSUME IInv, NEW q \in 1..made
    PROVE  Len(Append(inbox, q)) = Len(inbox) + 1 /\ ToSet(Append(inbox, q)) = ToSet(inbox) \cup {q}
<1>1. inbox \in Seq(1..made) /\ made \in Nat
    BY Sizes
<1> QED
    BY <1>1, Appended

LEMMA SteerReturnBooks ==
    ASSUME IInv, Books, NoBackground, NEW q \in sending, SteerInterrupt(q) \/ SteerSend(q) \/ SteerFails(q)
    PROVE  Books'
<1>1. /\ UNCHANGED <<setting, turn, phase, outcome, cycle, wakeTracked, of, answered>>
      /\ UNCHANGED <<up, eof, cliWake>>
    BY DEF SteerInterrupt, SteerSend, SteerFails, turnVars, readVars, trackVars, cliVars
<1>2. up /\ q \in 1..made
    BY DEF Books, ClientInv, IInv, Types, QueryTypes
<1>3. CASE SteerInterrupt(q)
  <2>1. /\ ~eof /\ busy' = FALSE /\ answering' = {}
        /\ stream' = IF busy THEN Append(stream, Result(answering)) ELSE stream
        /\ UNCHANGED <<sending, tickets, delivered, inbox, cliTasks, spawned, wakeups>>
      BY <1>3 DEF SteerInterrupt, ticketVars
  <2>2. CASE busy
      BY <1>1, <1>2, <2>1, <2>2, ResponseEnds
  <2>3. CASE ~busy
    <3>1. answering = {} /\ busy = FALSE
        BY <2>3, Sizes DEF Books, ClientInv
    <3>2. UNCHANGED <<cliVars, stream>>
        BY <1>1, <2>1, <2>3, <3>1 DEF cliVars
    <3> QED
        BY <1>1, <2>1, <3>2, BooksKept DEF Completed, Mine
  <2> QED
      BY <2>2, <2>3
<1>4. sending' = sending \ {q} => Cardinality(sending') = Cardinality(sending) - 1
    BY Sizes, FS_RemoveElement
<1>5. PICK b \in Nat, k \in Nat : /\ b = IF busy THEN 1 ELSE 0
                                  /\ k = IF phase \in Sends THEN 1 ELSE 0
    OBVIOUS
<1>6. Owing = b + k + Len(inbox) + Cardinality(sending) + Count(stream)
    BY <1>5 DEF Owing
<1>7. CASE SteerSend(q)
  <2>1. /\ ~eof /\ inbox' = Append(inbox, q) /\ delivered' = delivered \cup {q}
        /\ sending' = sending \ {q}
        /\ UNCHANGED <<tickets, busy, answering, stream>>
      BY <1>7 DEF SteerSend, Deliver, ticketVars
  <2>2. Len(inbox') = Len(inbox) + 1 /\ ToSet(inbox') = ToSet(inbox) \cup {q}
    <3>1. q \in 1..made
        BY <1>2
    <3>2. Len(Append(inbox, q)) = Len(inbox) + 1 /\ ToSet(Append(inbox, q)) = ToSet(inbox) \cup {q}
        BY <3>1, InboxGrows
    <3> QED
        BY <2>1, <3>2
  <2>3. QuietInv' /\ ClientInv'
      BY <1>1, <1>2, <2>1, SettingKept DEF Books, QuietInv, ClientInv
  <2>4. Owing' = Owing
    <3>1. Owing' = b + k + (Len(inbox) + 1) + (Cardinality(sending) - 1) + Count(stream)
        BY <1>1, <1>4, <1>5, <2>1, <2>2 DEF Owing, Count
    <3> QED
        BY <1>6, <3>1, Sizes
  <2>5. DebtInv'
      BY <1>1, <1>2, <2>1, <2>4 DEF Books, DebtInv
  <2>6. AnswerInv'
    <3>1. \A p : Kept(p) => Kept(p)'
        BY <1>1, <2>1, <2>2 DEF Kept
    <3>2. \A p : p = q => Kept(p)'
        BY <2>2 DEF Kept
    <3> QED
        BY <1>1, <2>1, <3>1, <3>2, SettingKept DEF Books, AnswerInv, Completed, Mine
  <2> QED
      BY <2>3, <2>5, <2>6 DEF Books
<1>8. CASE SteerFails(q)
  <2>1. /\ sending' = sending \ {q} /\ Discard(q)
        /\ UNCHANGED <<delivered, inbox, busy, answering, stream>>
      BY <1>8 DEF SteerFails, cliVars
  <2>2. QuietInv' /\ ClientInv'
      BY <1>1, <1>2, <2>1, SettingKept DEF Books, QuietInv, ClientInv
  <2>3. Owing' = Owing - 1
    <3>1. Owing' = b + k + Len(inbox) + (Cardinality(sending) - 1) + Count(stream)
        BY <1>1, <1>4, <1>5, <2>1 DEF Owing, Count
    <3> QED
        BY <1>6, <3>1, Sizes
  <2>4. DebtInv'
    <3> SUFFICES ASSUME ~eof PROVE DebtInv'
        BY <1>1 DEF DebtInv
    <3>1. /\ Owing <= Len(tickets)
          /\ ~busy /\ stream # <<>> => stream[Len(stream)].kind \in {"result", "noop"}
          /\ \A i \in 1..Len(stream) : stream[i].kind = "noop" =>
                i = 1 /\ tickets # <<>> /\ Head(tickets) \notin sending
        BY <1>2 DEF Books, DebtInv
    <3>2. CASE q \notin ToSet(tickets)
      <4>1. tickets' = tickets
          BY <2>1, <3>2 DEF Discard
      <4>2. Owing' <= Len(tickets)
          BY <2>3, <3>1, Sizes
      <4> QED
          BY <1>1, <1>2, <2>1, <3>1, <4>1, <4>2 DEF DebtInv
    <3>3. CASE q \in ToSet(tickets)
      <4>1. tickets \in Seq(1..made) /\ IsInjective(tickets)
          BY DEF IInv, Types, TicketTypes
      <4>2. PICK n : /\ n = CHOOSE m \in DOMAIN tickets : tickets[m] = q
                     /\ tickets' = RemoveAt(tickets, n)
          BY <2>1, <3>3 DEF Discard
      <4>3. n \in 1..Len(tickets) /\ tickets[n] = q
          BY <3>3, <4>1, <4>2, Members
      <4>4. /\ Len(tickets') = Len(tickets) - 1
            /\ n # 1 => tickets' # <<>> /\ Head(tickets') = Head(tickets)
          BY <4>1, <4>2, <4>3, Removed
      <4>5. Owing' <= Len(tickets')
          BY <2>3, <3>1, <4>4, Sizes
      <4>6. \A i \in 1..Len(stream) : stream[i].kind = "noop" => n # 1
          BY <3>1, <4>1, <4>3, Tailed
      <4> QED
          BY <1>1, <1>2, <2>1, <3>1, <4>4, <4>5, <4>6 DEF DebtInv
    <3> QED
        BY <3>2, <3>3
  <2>5. AnswerInv'
    <3>1. \A p : Kept(p)' <=> Kept(p)
        BY <1>1, <2>1 DEF Kept
    <3> QED
        BY <1>1, <2>1, <3>1, SettingKept DEF Books, AnswerInv, Completed, Mine
  <2> QED
      BY <2>2, <2>4, <2>5 DEF Books
<1> QED
    BY <1>3, <1>7, <1>8

LEMMA QuietCli ==
    ASSUME IInv, Books, NoBackground
    PROVE  ~CliWakes /\ ~CliSpawn /\ ~CliSchedule /\ \A k \in Tasks : ~CliTaskEnd(k)
<1>1. spawned \in 0..MaxTasks /\ wakeups \in 0..MaxWakeups /\ MaxTasks = 0 /\ MaxWakeups = 0
    BY DEF IInv, Types, CliTypes, NoBackground
<1>2. ~(spawned < MaxTasks) /\ ~(wakeups < MaxWakeups)
    BY <1>1
<1> QED
    BY <1>2, NoTasks DEF CliWakes, CliSpawn, CliSchedule, Books, QuietInv

\* Without background work the CLI only answers what it was sent, or exits.
LEMMA CliBooks ==
    ASSUME IInv, Books, NoBackground, CliWork \/ CliJoin \/ CliSpawn \/ CliSchedule \/ CliExit
    PROVE  Books'
<1>1. ~CliWakes /\ ~CliSpawn /\ ~CliSchedule /\ \A k \in Tasks : ~CliTaskEnd(k)
    BY QuietCli
<1>2. /\ UNCHANGED <<setting, turn, phase, outcome, cycle, wakeTracked, of, sending, delivered>>
      /\ UNCHANGED <<tickets, answered, up>>
      /\ CliAlive
    BY <1>1 DEF CliWork, CliBegin, CliResult, CliJoin, CliExit, CliUnchanged, turnVars, readVars,
                trackVars, queryVars, ticketVars
<1>3. up /\ ~eof
    BY <1>2 DEF CliAlive
<1>4. PICK b \in Nat, k \in Nat : /\ b = IF busy THEN 1 ELSE 0
                                  /\ k = IF phase \in Sends THEN 1 ELSE 0
    OBVIOUS
<1>5. Owing = b + k + Len(inbox) + Cardinality(sending) + Count(stream)
    BY <1>4 DEF Owing
<1>6. /\ Owing <= Len(tickets)
      /\ ~busy /\ stream # <<>> => stream[Len(stream)].kind \in {"result", "noop"}
      /\ \A i \in 1..Len(stream) : stream[i].kind = "noop" =>
            i = 1 /\ tickets # <<>> /\ Head(tickets) \notin sending
    BY <1>3 DEF Books, DebtInv
<1>7. inbox # <<>> => /\ Len(Tail(inbox)) = Len(inbox) - 1
                      /\ ToSet(inbox) = ToSet(Tail(inbox)) \cup {Head(inbox)}
  <2>1. inbox \in Seq(1..made)
      BY Sizes
  <2> QED
      BY <2>1, Tailed
<1>8. CASE CliBegin
  <2>1. /\ ~busy /\ inbox # <<>> /\ busy' = TRUE /\ answering' = {Head(inbox)} /\ inbox' = Tail(inbox)
        /\ stream' = Append(stream, Content) /\ UNCHANGED <<eof, cliWake>>
      BY <1>8 DEF CliBegin
  <2>2. Content \in Messages /\ Content.kind = "content"
      BY Fitting DEF Content, Message
  <2>3. /\ \A i \in 1..Len(stream) : i \in 1..Len(stream') /\ stream'[i] = stream[i]
        /\ \A i \in 1..Len(stream') :
              stream'[i] = Content \/ (i \in 1..Len(stream) /\ stream'[i] = stream[i])
        /\ Count(stream') = Count(stream) + IF Content.kind = "result" THEN 1 ELSE 0
      BY <2>1, <2>2, StreamAppended
  <2>4. Count(stream') = Count(stream)
      BY <2>2, <2>3, Sizes
  <2>5. QuietInv' /\ ClientInv'
    <3>1. QuietInv'
        BY <1>2, <2>1, <2>2, <2>3 DEF Books, QuietInv
    <3>2. ClientInv'
        BY <1>2, <1>3, <2>1, SettingKept DEF Books, ClientInv
    <3> QED
        BY <3>1, <3>2
  <2>6. DebtInv'
    <3>1. Owing' = 1 + k + (Len(inbox) - 1) + Cardinality(sending) + Count(stream)
        BY <1>2, <1>4, <1>7, <2>1, <2>4 DEF Owing, Count
    <3>2. b = 0
        BY <1>4, <2>1
    <3>3. Owing' = Owing
        BY <1>5, <3>1, <3>2, Sizes
    <3> QED
        BY <1>2, <1>6, <2>1, <2>2, <2>3, <3>3 DEF DebtInv
  <2>7. AnswerInv'
    <3>1. answering = {}
        BY <2>1 DEF Books, ClientInv
    <3>2. \A q : Kept(q) => Kept(q)'
        BY <1>2, <1>7, <2>1, <2>3, <3>1 DEF Kept
    <3> QED
        BY <1>2, <3>2, SettingKept DEF Books, AnswerInv, Completed, Mine
  <2> QED
      BY <2>5, <2>6, <2>7 DEF Books
<1>9. CASE CliJoin
  <2>1. /\ busy /\ inbox # <<>> /\ answering' = answering \cup {Head(inbox)} /\ inbox' = Tail(inbox)
        /\ UNCHANGED <<eof, busy, stream, cliWake>>
      BY <1>9 DEF CliJoin
  <2>2. QuietInv' /\ ClientInv'
      BY <1>2, <1>3, <2>1, SettingKept DEF Books, QuietInv, ClientInv
  <2>3. DebtInv'
    <3>1. Owing' = b + k + (Len(inbox) - 1) + Cardinality(sending) + Count(stream)
        BY <1>2, <1>4, <1>7, <2>1 DEF Owing, Count
    <3>2. Owing' <= Len(tickets)
        BY <1>5, <1>6, <3>1, Sizes
    <3> QED
        BY <1>2, <1>6, <2>1, <3>2 DEF DebtInv
  <2>4. AnswerInv'
    <3>1. \A q : Kept(q) => Kept(q)'
        BY <1>2, <1>7, <2>1 DEF Kept
    <3> QED
        BY <1>2, <2>1, <3>1, SettingKept DEF Books, AnswerInv, Completed, Mine
  <2> QED
      BY <2>2, <2>3, <2>4 DEF Books
<1>10. CASE CliResult
  <2>1. /\ busy /\ busy' = FALSE /\ answering' = {} /\ stream' = Append(stream, Result(answering))
        /\ UNCHANGED <<eof, inbox, cliWake>>
      BY <1>10 DEF CliResult
  <2> QED
      BY <1>2, <1>3, <2>1, ResponseEnds
<1>11. CASE CliExit
  <2>1. /\ CliExits /\ eof' = TRUE /\ inbox' = <<>> /\ busy' = FALSE /\ answering' = {} /\ cliWake' = FALSE
        /\ UNCHANGED stream
      BY <1>11 DEF CliExit
  <2>2. QuietInv' /\ ClientInv' /\ DebtInv' /\ AnswerInv'
      BY <1>2, <1>3, <2>1, SettingKept DEF Books, QuietInv, ClientInv, DebtInv, AnswerInv
  <2> QED
      BY <2>2 DEF Books
<1> QED
    BY <1>1, <1>8, <1>9, <1>10, <1>11 DEF CliWork

LEMMA BooksStep == ASSUME IInv, Books, NoBackground, [Next]_vars PROVE Books'
<1>0. IInv'
    BY Step
<1>1. CASE Launch \/ CancelRow \/ SteerEarly \/ NextCycle \/ StampWrite \/ StampCheck \/ StampClear
    BY <1>0, <1>1, QuietBooks
<1>2. CASE OwnSend \/ ErrorResult
    BY <1>0, <1>2, OwnBooks, EndBooks DEF OwnSend
<1>3. CASE ReadMessage
    BY <1>3, ReadBooks
<1>4. CASE ReadEnds
    BY <1>0, <1>4, QuietBooks, EndBooks DEF ReadEnds
<1>5. CASE Conclude
  <2>1. CASE Reread \/ StartValidation \/ ValidatorAnswers
    <3>1. CASE Reread
        BY <1>0, <3>1, QuietBooks
    <3>2. CASE StartValidation
        BY <1>0, <3>2, QuietBooks
    <3>3. CASE ValidatorAnswers
        BY <1>0, <3>3, QuietBooks
    <3> QED
        BY <2>1, <3>1, <3>2, <3>3
  <2>2. CASE Unverified \/ CompleteTurn \/ TurnCancelled
      BY <2>2, EndBooks
  <2>3. CASE ValidationResumes
      BY <1>0, <2>3, QuietBooks, EndBooks
  <2> QED
      BY <1>5, <2>1, <2>2, <2>3 DEF Conclude
<1>6. CASE SteerReturns \/ \E q \in sending : SteerFails(q)
    BY <1>6, SteerReturnBooks DEF SteerReturns
<1>7. ASSUME NEW interrupt \in BOOLEAN, SteerBegin(interrupt) PROVE Books'
    BY <1>7, SteerBeginBooks
<1>8. CASE CliWork \/ CliJoin \/ CliSpawn \/ CliSchedule \/ CliExit
    BY <1>8, CliBooks
<1>9. CASE UNCHANGED vars
  <2>1. /\ UNCHANGED <<setting, turn, phase, outcome, cycle, wakeTracked, of>>
        /\ UNCHANGED <<delivered, sending, tickets, answered, cliVars, stream>>
      BY <1>9 DEF vars, turnVars, readVars, trackVars, queryVars, ticketVars
  <2> QED
      BY <2>1, BooksKept DEF Completed, Mine
<1> QED
    BY <1>1, <1>2, <1>3, <1>4, <1>5, <1>6, <1>7, <1>8, <1>9 DEF Next, Reader

LEMMA BooksOpen == Init => Books
<1> SUFFICES ASSUME Init PROVE Books
    OBVIOUS
<1>1. /\ phase = "idle" /\ wakeTracked = FALSE /\ cliWake = FALSE /\ up = FALSE /\ eof = FALSE
      /\ sending = {} /\ tickets = <<>> /\ inbox = <<>> /\ busy = FALSE /\ answering = {} /\ stream = <<>>
    BY DEF Init
<1> QED
    BY <1>1 DEF Books, QuietInv, ClientInv, DebtInv, AnswerInv, Sends, Active, Reading, Completed

LEMMA SettingStays == [Next]_vars => UNCHANGED setting
<1>1. Launch \/ CancelRow \/ SteerEarly \/ NextCycle \/ StampWrite \/ StampCheck \/ StampClear
          => UNCHANGED setting
    BY DEF Launch, CancelRow, SteerEarly, NextCycle, StampWrite, StampCheck, StampClear, turnVars
<1>2. \A o : End(o) => UNCHANGED setting
    BY DEF End
<1>3. OwnSend \/ ErrorResult => UNCHANGED setting
    BY <1>2 DEF OwnSend, BeginPrompt, SendOwn, SendOwnFails, ErrorResult, Fail
<1>4. ReadMessage => UNCHANGED setting
    BY DEF ReadMessage, ReadContent, ReadTaskStart, ReadTaskEnd, ReadWakeup, ReadNoop, ReadResult, Receive
<1>5. ReadEnds => UNCHANGED setting
    BY <1>2 DEF ReadEnds, TimedOut, TimedOutOwed, TimedOutInterrupted, StreamEnded, DrainEnded, DrainPoll,
                WakeupExpires, Fail, turnVars
<1>6. Conclude => UNCHANGED setting
    BY <1>2 DEF Conclude, Reread, Unverified, CompleteTurn, StartValidation, ValidatorAnswers,
                ValidationResumes, TurnCancelled, Complete, Fail, turnVars
<1>7. (\E q \in sending : SteerInterrupt(q) \/ SteerSend(q) \/ SteerFails(q)) => UNCHANGED setting
    BY DEF SteerInterrupt, SteerSend, SteerFails, turnVars
<1>8. (\E interrupt \in BOOLEAN : SteerBegin(interrupt)) => UNCHANGED setting
    BY DEF SteerBegin, turnVars
<1>9. CliWork \/ CliJoin \/ CliSpawn \/ CliSchedule \/ CliExit => UNCHANGED setting
    BY DEF CliWork, CliBegin, CliResult, CliWakes, CliTaskEnd, CliJoin, CliSpawn, CliSchedule, CliExit,
           CliUnchanged, turnVars
<1>10. UNCHANGED vars => UNCHANGED setting
    BY DEF vars, turnVars
<1> QED
    BY <1>1, <1>3, <1>4, <1>5, <1>6, <1>7, <1>8, <1>9, <1>10 DEF Next, Reader, SteerReturns

\* Without background work, the CLI never owes the stream a result nobody holds a ticket for,
\* and no query that reached it is lost.
THEOREM BooksBalance == Spec => [](NoBackground => Books)
<1> DEFINE Balanced == NoBackground => Books
<1>1. Init => IInv /\ Balanced
    BY Initially, BooksOpen
<1>2. IInv /\ Balanced /\ [Next]_vars => IInv' /\ Balanced'
  <2> SUFFICES ASSUME IInv, Balanced, [Next]_vars, NoBackground' PROVE Books'
      BY Step
  <2>1. NoBackground
      BY SettingStays, SettingKept DEF NoBackground
  <2> QED
      BY <2>1, BooksStep
<1> HIDE DEF Balanced
<1>3. Spec => [](IInv /\ Balanced)
    BY <1>1, <1>2, PTL DEF Spec
<1> QED
    BY <1>3, PTL DEF Balanced

\* When a turn has completed and no ticket is open, the CLI owes nothing.
LEMMA NothingOwed ==
    ASSUME IInv, Books, Completed, up, ~eof
    PROVE  stream = <<>> /\ inbox = <<>> /\ ~busy /\ sending = {} /\ answering = {}
<1>1. tickets = <<>> /\ Len(tickets) = 0 /\ phase \notin Sends
    BY DEF IInv, TicketInv, Completed, Sends
<1>2. Owing <= 0
    BY <1>1 DEF Books, DebtInv
<1>3. PICK b \in Nat : b = IF busy THEN 1 ELSE 0
    OBVIOUS
<1>4. Owing = b + 0 + Len(inbox) + Cardinality(sending) + Count(stream)
    BY <1>1, <1>3 DEF Owing
<1>5. b = 0 /\ Len(inbox) = 0 /\ Cardinality(sending) = 0 /\ Count(stream) = 0
    BY <1>2, <1>4, Sizes
<1>6. ~busy /\ inbox = <<>> /\ sending = {}
    BY <1>3, <1>5, Sizes, Members, FS_EmptySet
<1>7. stream = <<>>
  <2> SUFFICES ASSUME stream # <<>> PROVE FALSE
      OBVIOUS
  <2>1. stream \in Seq(Messages) /\ Len(stream) \in 1..Len(stream)
    <3>1. stream \in Seq(Messages) /\ Len(stream) \in Nat /\ Len(stream) # 0
        BY Sizes, Members
    <3> QED
        BY <3>1
  <2>2. stream[Len(stream)].kind \in {"result", "noop"}
      BY <1>6 DEF Books, DebtInv
  <2>3. stream[Len(stream)].kind # "result"
      BY <1>5, <2>1, Counted
  <2> QED
      BY <1>1, <2>1, <2>2, <2>3 DEF Books, DebtInv
<1> QED
    BY <1>6, <1>7 DEF Books, ClientInv

\* A turn completes only when every query it accepted has been answered, as long as the CLI
\* stays and has no background work (claude_sdk.py, _run_turn; claude_responses.py).
THEOREM QueriesGetAnswers == Spec => []QueriesAreAnswered
<1>1. ASSUME IInv, NoBackground => Books PROVE QueriesAreAnswered
  <2> SUFFICES ASSUME Completed, ~CliExits, NoBackground, NEW q \in delivered \cup sending, Mine(q)
               PROVE  q \in answered
      BY DEF QueriesAreAnswered
  <2>1. Books
      BY <1>1
  <2>2. sending = {} /\ inbox = <<>> /\ stream = <<>> /\ answering = {}
    <3>1. CASE up
        BY <1>1, <2>1, <3>1, NothingOwed DEF Books, ClientInv
    <3>2. CASE ~up
        BY <2>1, <3>2 DEF Books, ClientInv
    <3> QED
        BY <3>1, <3>2
  <2>3. Kept(q)
      BY <2>1, <2>2 DEF Books, AnswerInv
  <2> QED
      BY <2>2, <2>3 DEF Kept, ToSet
<1> QED
    BY <1>1, Invariance, BooksBalance, PTL

-----------------------------------------------------------------------------
(* Whose answers the stream carries.                                       *)

\* A query the CLI may still answer.
Underway(q) ==
    \/ q \in sending \/ q \in answering \/ q \in ToSet(inbox)
    \/ \E i \in 1..Len(stream) : stream[i].kind = "result" /\ q \in stream[i].what

\* What is under way is the current turn's, and a client outlives no turn but a completed one.
HomeInv ==
    /\ phase = "idle" \/ (phase = "ended" /\ outcome # "completed") => ~up
    /\ phase \in Reading \/ ~eof => \A q : Underway(q) => Mine(q)

LEMMA UnderwayMade == ASSUME IInv, NEW q, Underway(q) PROVE q \in 1..made
<1>1. sending \subseteq 1..made /\ answering \subseteq 1..made /\ inbox \in Seq(1..made)
    BY DEF IInv, Types, QueryTypes, CliTypes
<1>2. ToSet(inbox) \subseteq 1..made
    BY <1>1, Members
<1>3. \A i \in 1..Len(stream) : stream[i].kind = "result" => stream[i].what \subseteq 1..made
    BY DEF IInv, Types, StreamTypes, Fits
<1> QED
    BY <1>1, <1>2, <1>3 DEF Underway

\* A query that is made leaves the others with their turns.
LEMMA OthersKept ==
    ASSUME IInv, of' = [of EXCEPT ![made + 1] = turn]
    PROVE  \A q \in 1..made : of'[q] = of[q]
<1>1. made \in Nat
    BY Sizes
<1>2. \A q \in 1..made : q # made + 1
    BY <1>1
<1> QED
    BY <1>2

LEMMA HomeKept ==
    ASSUME IInv, HomeInv, UNCHANGED turn, \A q \in 1..made : of'[q] = of[q],
           \A q : Underway(q)' => Underway(q),
           phase' \in Reading \/ ~eof' => phase \in Reading \/ ~eof,
           phase' = "idle" \/ (phase' = "ended" /\ outcome' # "completed") => ~up'
    PROVE  HomeInv'
<1>1. ASSUME NEW q, Underway(q), Mine(q) PROVE Mine(q)'
    BY <1>1, UnderwayMade DEF Mine
<1> QED
    BY <1>1 DEF HomeInv

LEMMA HomeDropped == ASSUME Books', ~up' PROVE HomeInv'
<1>1. sending' = {} /\ answering' = {} /\ inbox' = <<>> /\ stream' = <<>>
    BY DEF Books, ClientInv
<1>2. \A q : ~Underway(q)'
    BY <1>1 DEF Underway, ToSet
<1> QED
    BY <1>2 DEF HomeInv

\* The reader moves on, reads a message, or ends the turn.
LEMMA ReaderHome ==
    ASSUME IInv, Books', HomeInv, NoBackground,
           \/ NextCycle \/ ReadMessage \/ StampWrite \/ StampCheck \/ StampClear
           \/ ReadEnds \/ Conclude \/ ErrorResult \/ SendOwnFails
    PROVE  HomeInv'
<1>1. ASSUME UNCHANGED <<turn, of, sending, cliVars, stream>>, phase \in Reading, phase' \in Reading
      PROVE  HomeInv'
  <2>1. UNCHANGED <<up, eof, inbox, answering>>
      BY <1>1 DEF cliVars
  <2>2. \A q : Underway(q)' => Underway(q)
      BY <1>1, <2>1 DEF Underway
  <2> QED
      BY <1>1, <2>2, HomeKept DEF Reading
<1>2. Disconnect => HomeInv'
    BY HomeDropped DEF Disconnect
<1>3. Fail => HomeInv'
    BY <1>2 DEF Fail
<1>4. ASSUME Complete, phase \in Reading PROVE HomeInv'
  <2>1. CASE rowCancelled
      BY <1>2, <1>4, <2>1 DEF Complete
  <2>2. CASE ~rowCancelled
    <3>1. /\ UNCHANGED <<turn, of, sending, up, eof, inbox, answering, stream>>
          /\ phase' = "ended" /\ outcome' = "completed"
        BY <1>4, <2>2 DEF Complete, KeepClient, End, cliVars
    <3>2. \A q : Underway(q)' => Underway(q)
        BY <3>1 DEF Underway
    <3> QED
        BY <1>4, <3>1, <3>2, HomeKept
  <2> QED
      BY <2>1, <2>2
<1>5. CASE NextCycle \/ StampWrite \/ StampCheck \/ StampClear
    BY <1>1, <1>5 DEF NextCycle, StampWrite, StampCheck, StampClear, queryVars, Reading
<1>6. CASE ReadMessage
  <2>1. PICK kind : Receive(kind) /\ phase' \in Reading
      BY <1>6 DEF ReadMessage, ReadContent, ReadTaskStart, ReadTaskEnd, ReadWakeup, ReadNoop, ReadResult,
                  Receive, Reading
  <2>2. /\ phase = "read" /\ stream # <<>> /\ stream' = Tail(stream)
        /\ UNCHANGED <<turn, of, sending, cliVars>>
      BY <2>1 DEF Receive
  <2>3. UNCHANGED <<up, eof, inbox, answering>>
      BY <2>2 DEF cliVars
  <2>4. /\ Len(stream') = Len(stream) - 1 /\ Len(stream) \in Nat
        /\ \A i \in 1..(Len(stream) - 1) : stream'[i] = stream[i + 1] /\ i + 1 \in 1..Len(stream)
      BY <2>2, Sizes, Tailed
  <2>5. \A i \in 1..Len(stream') : \E j \in 1..Len(stream) : stream'[i] = stream[j]
      BY <2>4
  <2>6. \A q : Underway(q)' => Underway(q)
      BY <2>2, <2>3, <2>5 DEF Underway
  <2> QED
      BY <2>1, <2>2, <2>6, HomeKept DEF Reading
<1>7. CASE ReadEnds
  <2>1. CASE TimedOut
    <3>1. CASE Background
        BY <1>1, <2>1, <3>1 DEF TimedOut, ClearTickets, Reading
    <3>2. CASE ~Background
        BY <1>2, <2>1, <3>2 DEF TimedOut
    <3> QED
        BY <3>1, <3>2
  <2>2. CASE TimedOutOwed \/ DrainEnded
      BY <1>1, <2>2 DEF TimedOutOwed, DrainEnded, queryVars, Reading
  <2>3. CASE TimedOutInterrupted \/ DrainPoll
      BY <1>2, <1>3, <2>3 DEF TimedOutInterrupted, DrainPoll
  <2>4. CASE StreamEnded
    <3>1. CASE NeedsResult
        BY <1>3, <2>4, <3>1 DEF StreamEnded
    <3>2. CASE ~NeedsResult
        BY <1>1, <2>4, <3>2 DEF StreamEnded, Reading
    <3> QED
        BY <3>1, <3>2
  <2>5. CASE WakeupExpires
      BY <1>1, <2>5 DEF WakeupExpires, turnVars, queryVars, Reading
  <2> QED
      BY <1>7, <2>1, <2>2, <2>3, <2>4, <2>5 DEF ReadEnds
<1>8. CASE Conclude
  <2>1. CASE Reread \/ StartValidation
      BY <1>1, <2>1 DEF Reread, StartValidation, LeavesLoop, queryVars, Reading
  <2>2. CASE ValidatorAnswers
      BY <1>1, <2>2 DEF ValidatorAnswers, turnVars, queryVars, Reading
  <2>3. CASE Unverified \/ TurnCancelled
      BY <1>2, <1>3, <2>3 DEF Unverified, TurnCancelled
  <2>4. CASE CompleteTurn
      BY <1>4, <2>4 DEF CompleteTurn, LeavesLoop, Reading
  <2>5. CASE ValidationResumes
    <3>1. CASE invalidated
        BY <1>1, <2>5, <3>1 DEF ValidationResumes, queryVars, Reading
    <3>2. CASE ~invalidated
        BY <1>3, <1>4, <2>5, <3>2 DEF ValidationResumes, Reading
    <3> QED
        BY <3>1, <3>2
  <2> QED
      BY <1>8, <2>1, <2>2, <2>3, <2>4, <2>5 DEF Conclude
<1>9. CASE ErrorResult \/ SendOwnFails
    BY <1>3, <1>9 DEF ErrorResult, SendOwnFails
<1> QED
    BY <1>5, <1>6, <1>7, <1>8, <1>9

\* A turn is launched, sends its queries, or is steered.
LEMMA QueriesHome ==
    ASSUME IInv, IInv', Books, Books', HomeInv,
           Launch \/ BeginPrompt \/ SendOwn \/ SteerEarly \/ CancelRow
               \/ \E interrupt \in BOOLEAN : SteerBegin(interrupt)
    PROVE  HomeInv'
<1>1. CASE Launch
  <2>1. /\ phase \in {"idle", "ended"} /\ phase' = "launched"
        /\ UNCHANGED <<sending, up, eof, inbox, answering, stream>>
      BY <1>1 DEF Launch, cliVars
  <2>2. CASE ~up
      BY <2>1, <2>2, HomeDropped
  <2>3. CASE up /\ eof
      BY <2>1, <2>3 DEF HomeInv, Reading
  <2>4. CASE up /\ ~eof
    <3>1. Completed
        BY <2>1, <2>4 DEF HomeInv, Completed
    <3>2. stream = <<>> /\ inbox = <<>> /\ sending = {} /\ answering = {}
        BY <2>4, <3>1, NothingOwed
    <3>3. \A q : ~Underway(q)'
        BY <2>1, <3>2 DEF Underway, ToSet
    <3> QED
        BY <2>1, <3>3 DEF HomeInv
  <2> QED
      BY <2>2, <2>3, <2>4
<1>2. CASE BeginPrompt
  <2>1. /\ phase = "launched" /\ phase' = "prompting" /\ up' = TRUE
        /\ UNCHANGED <<turn, of, sending, eof, inbox, answering>>
        /\ IF up THEN UNCHANGED stream ELSE stream' \in {<<>>, <<Noop>>}
      BY <1>2 DEF BeginPrompt, queryVars
  <2>2. \A i \in 1..Len(stream') : stream'[i].kind = "result" =>
           i \in 1..Len(stream) /\ stream'[i] = stream[i]
    <3>1. CASE up
        BY <2>1, <3>1
    <3>2. CASE ~up
      <4>1. \A i \in 1..Len(stream') : stream'[i].kind = "noop"
          BY <2>1, <3>2 DEF Noop, Message
      <4> QED
          BY <4>1
    <3> QED
        BY <3>1, <3>2
  <2>3. \A q : Underway(q)' => Underway(q)
      BY <2>1, <2>2 DEF Underway
  <2> QED
      BY <2>1, <2>3, HomeKept DEF Reading
<1>3. CASE SendOwn
  <2>0. PICK c : c = Last(tickets)
      OBVIOUS
  <2>1. /\ phase \in Sends /\ ~eof /\ phase' \in {"top", "flushing"} /\ inbox' = Append(inbox, c)
        /\ UNCHANGED <<turn, of, sending, up, eof, answering, stream>>
      BY <1>3, <2>0 DEF SendOwn, Deliver, Sends
  <2>2. c \in 1..made /\ of[c] = turn
    <3>1. tickets # <<>> /\ tickets \in Seq(1..made) /\ turn > 0
      <4>1. turn > 0 /\ tickets # <<>>
          BY <2>1 DEF IInv, OwnInv, TicketInv, Types, TurnTypes, Sends
      <4> QED
          BY <4>1, Sizes
    <3>2. c = tickets[Len(tickets)] /\ Len(tickets) \in 1..Len(tickets)
        BY <2>0, <3>1, Members DEF Last
    <3>3. c \in 1..made
        BY <3>1, <3>2, Members
    <3>4. c >= Prompt
      <4>1. CASE phase = "prompting"
        <5>1. tickets = <<Prompt>>
            BY <4>1 DEF IInv, TicketInv
        <5>2. c = Prompt
            BY <3>2, <5>1
        <5> QED
            BY <3>3, <5>2
      <4>2. CASE phase = "flushing"
        <5>1. tickets[Len(tickets)] \in Prompt..Last(tickets)
            BY <3>2, <4>2 DEF IInv, TicketInv
        <5> QED
            BY <3>2, <5>1
      <4> QED
          BY <2>1, <4>1, <4>2 DEF Sends
    <3>5. \A q \in Queries : of[q] = turn <=> q \in Prompt..made
        BY <3>1 DEF IInv, OwnInv
    <3>6. c \in Queries /\ c \in Prompt..made
      <4>1. made \in Nat /\ 1..made \subseteq Queries /\ Prompt \in 1..made
          BY <3>1, Constants DEF IInv, OwnInv, Types, QueryTypes, Queries
      <4> QED
          BY <3>3, <3>4, <4>1
    <3> QED
        BY <3>3, <3>5, <3>6
  <2>3. ToSet(inbox') = ToSet(inbox) \cup {c}
      BY <2>1, <2>2, InboxGrows
  <2>4. \A q : Underway(q)' => Underway(q) \/ q = c
      BY <2>1, <2>3 DEF Underway
  <2>5. \A q : Underway(q)' => Mine(q)'
      BY <2>1, <2>2, <2>4 DEF HomeInv, Mine
  <2> QED
      BY <2>1, <2>5 DEF HomeInv
<1>4. CASE SteerEarly
  <2>1. /\ UNCHANGED <<turn, phase, outcome, sending, up, eof, inbox, answering, stream>>
        /\ of' = [of EXCEPT ![made + 1] = turn] /\ phase \in {"launched", "prompting", "flushing"}
      BY <1>4 DEF SteerEarly, turnVars, cliVars
  <2>2. \A q \in 1..made : of'[q] = of[q]
      BY <2>1, OthersKept
  <2>3. \A q : Underway(q)' => Underway(q)
      BY <2>1 DEF Underway
  <2> QED
      BY <2>1, <2>2, <2>3, HomeKept
<1>5. CASE CancelRow
  <2>1. /\ UNCHANGED <<turn, of, phase, outcome, sending, up, eof, inbox, answering, stream>>
      BY <1>5 DEF CancelRow, turnVars, queryVars, cliVars
  <2>2. \A q : Underway(q)' => Underway(q)
      BY <2>1 DEF Underway
  <2> QED
      BY <2>1, <2>2, HomeKept DEF HomeInv
<1>6. ASSUME NEW interrupt \in BOOLEAN, SteerBegin(interrupt) PROVE HomeInv'
  <2> DEFINE new == made + 1
  <2>1. /\ phase \in Reading
        /\ UNCHANGED <<turn, phase, outcome, up, eof, inbox, answering, stream>>
        /\ of' = [of EXCEPT ![new] = turn] /\ sending' = sending \cup {new}
      BY <1>6 DEF SteerBegin, turnVars, cliVars
  <2>2. new \in Queries
    <3>1. new \in 1..made'
      <4>1. made' = made + 1 /\ made \in Nat
          BY <1>6, Sizes DEF SteerBegin
      <4> QED
          BY <4>1
    <3>2. 1..made' \subseteq Queries
        BY Constants DEF IInv, Types, QueryTypes, Queries
    <3> QED
        BY <3>1, <3>2
  <2>3. of'[new] = turn /\ \A q \in 1..made : of'[q] = of[q]
      BY <2>1, <2>2, OthersKept DEF IInv, Types, QueryTypes
  <2> HIDE DEF new
  <2>4. \A q : Underway(q)' => Underway(q) \/ q = new
      BY <2>1 DEF Underway
  <2>5. \A q : Underway(q) => q \in 1..made /\ of[q] = turn
      BY <2>1, UnderwayMade DEF HomeInv, Mine
  <2>6. \A q : Underway(q)' => Mine(q)'
      BY <2>1, <2>3, <2>4, <2>5 DEF Mine
  <2> QED
      BY <2>1, <2>6 DEF HomeInv, Reading
<1> QED
    BY <1>1, <1>2, <1>3, <1>4, <1>5, <1>6

\* A steer's send returns, or the CLI works.
LEMMA CliHome ==
    ASSUME IInv, Books, Books', HomeInv, NoBackground,
           \/ \E q \in sending : SteerInterrupt(q) \/ SteerSend(q) \/ SteerFails(q)
           \/ CliWork \/ CliJoin \/ CliSpawn \/ CliSchedule \/ CliExit
    PROVE  HomeInv'
<1>1. /\ UNCHANGED <<turn, of, phase, outcome, up>>
      /\ phase \in Reading \/ ~eof' => phase \in Reading \/ ~eof
  <2>1. CASE \E q \in sending : SteerInterrupt(q) \/ SteerSend(q) \/ SteerFails(q)
      BY <2>1 DEF SteerInterrupt, SteerSend, SteerFails, turnVars, cliVars
  <2>2. CASE CliWork \/ CliJoin \/ CliSpawn \/ CliSchedule \/ CliExit
      BY <2>2 DEF CliWork, CliBegin, CliResult, CliWakes, CliTaskEnd, CliJoin, CliSpawn, CliSchedule,
                  CliExit, CliUnchanged, turnVars, queryVars, CliAlive
  <2> QED
      BY <2>1, <2>2
<1>2. ASSUME \/ stream' = Append(stream, Result(answering)) \/ stream' = Append(stream, Content)
             \/ UNCHANGED stream
      PROVE  \A q : (\E i \in 1..Len(stream') : stream'[i].kind = "result" /\ q \in stream'[i].what) =>
                        Underway(q)
  <2>1. /\ Result(answering) \in Messages /\ Result(answering).kind = "result"
        /\ Result(answering).what = answering
        /\ Content \in Messages /\ Content.kind = "content"
      BY Fitting DEF Result, Content, Message
  <2>2. CASE stream' = Append(stream, Result(answering))
    <3>1. \A i \in 1..Len(stream') :
             stream'[i] = Result(answering) \/ (i \in 1..Len(stream) /\ stream'[i] = stream[i])
        BY <2>1, <2>2, StreamAppended
    <3> QED
        BY <2>1, <3>1 DEF Underway
  <2>3. CASE stream' = Append(stream, Content)
    <3>1. \A i \in 1..Len(stream') :
             stream'[i] = Content \/ (i \in 1..Len(stream) /\ stream'[i] = stream[i])
        BY <2>1, <2>3, StreamAppended
    <3> QED
        BY <2>1, <3>1 DEF Underway
  <2>4. CASE UNCHANGED stream
      BY <2>4 DEF Underway
  <2> QED
      BY <1>2, <2>2, <2>3, <2>4
<1>3. inbox # <<>> => ToSet(inbox) = ToSet(Tail(inbox)) \cup {Head(inbox)}
  <2>1. inbox \in Seq(1..made)
      BY Sizes
  <2> QED
      BY <2>1, Tailed
<1>4. ASSUME \A q : Underway(q)' => Underway(q) PROVE HomeInv'
    BY <1>1, <1>4, HomeKept DEF HomeInv
<1>5. ASSUME NEW q \in sending, SteerInterrupt(q) PROVE HomeInv'
  <2>1. /\ UNCHANGED <<sending, inbox>> /\ answering' = {}
        /\ stream' = Append(stream, Result(answering)) \/ UNCHANGED stream
      BY <1>5 DEF SteerInterrupt
  <2> QED
      BY <1>2, <1>4, <2>1 DEF Underway
<1>6. ASSUME NEW q \in sending, SteerSend(q) PROVE HomeInv'
  <2>1. /\ sending' \subseteq sending /\ UNCHANGED <<answering, stream>> /\ inbox' = Append(inbox, q)
      BY <1>6 DEF SteerSend, Deliver
  <2>2. q \in 1..made
      BY DEF IInv, Types, QueryTypes
  <2>3. ToSet(inbox') = ToSet(inbox) \cup {q}
      BY <2>1, <2>2, InboxGrows
  <2> QED
      BY <1>4, <2>1, <2>3 DEF Underway
<1>7. ASSUME NEW q \in sending, SteerFails(q) PROVE HomeInv'
  <2>1. sending' \subseteq sending /\ UNCHANGED <<answering, stream, inbox>>
      BY <1>7 DEF SteerFails, cliVars
  <2> QED
      BY <1>4, <2>1 DEF Underway
<1>8. CASE CliBegin
  <2>1. /\ inbox # <<>> /\ answering' = {Head(inbox)} /\ inbox' = Tail(inbox)
        /\ stream' = Append(stream, Content) /\ UNCHANGED sending
      BY <1>8 DEF CliBegin, CliUnchanged, queryVars
  <2> QED
      BY <1>2, <1>3, <1>4, <2>1 DEF Underway
<1>9. CASE CliJoin
  <2>1. /\ inbox # <<>> /\ answering' = answering \cup {Head(inbox)} /\ inbox' = Tail(inbox)
        /\ UNCHANGED <<sending, stream>>
      BY <1>9 DEF CliJoin, CliUnchanged, queryVars
  <2> QED
      BY <1>2, <1>3, <1>4, <2>1 DEF Underway
<1>10. CASE CliResult
  <2>1. answering' = {} /\ stream' = Append(stream, Result(answering)) /\ UNCHANGED <<sending, inbox>>
      BY <1>10 DEF CliResult, CliUnchanged, queryVars
  <2> QED
      BY <1>2, <1>4, <2>1 DEF Underway
<1>11. CASE CliExit
  <2>1. answering' = {} /\ inbox' = <<>> /\ UNCHANGED <<sending, stream>>
      BY <1>11 DEF CliExit, CliUnchanged, queryVars
  <2> QED
      BY <1>4, <2>1 DEF Underway, ToSet
<1> QED
    BY <1>5, <1>6, <1>7, <1>8, <1>9, <1>10, <1>11, QuietCli DEF CliWork

LEMMA HomeStep == ASSUME IInv, Books, HomeInv, NoBackground, [Next]_vars PROVE HomeInv'
<1>0. IInv' /\ Books'
    BY Step, BooksStep
<1>1. CASE \/ NextCycle \/ ReadMessage \/ StampWrite \/ StampCheck \/ StampClear
           \/ ReadEnds \/ Conclude \/ ErrorResult \/ SendOwnFails
    BY <1>0, <1>1, ReaderHome
<1>2. CASE \/ Launch \/ BeginPrompt \/ SendOwn \/ SteerEarly \/ CancelRow
           \/ \E interrupt \in BOOLEAN : SteerBegin(interrupt)
    BY <1>0, <1>2, QueriesHome
<1>3. CASE \/ \E q \in sending : SteerInterrupt(q) \/ SteerSend(q) \/ SteerFails(q)
           \/ CliWork \/ CliJoin \/ CliSpawn \/ CliSchedule \/ CliExit
    BY <1>0, <1>3, CliHome
<1>4. CASE UNCHANGED vars
  <2>1. UNCHANGED <<turn, of, phase, outcome, sending, up, eof, inbox, answering, stream>>
      BY <1>4 DEF vars, turnVars, queryVars, cliVars
  <2>2. \A q : Underway(q)' => Underway(q)
      BY <2>1 DEF Underway
  <2> QED
      BY <2>1, <2>2, HomeKept DEF HomeInv
<1> QED
    BY <1>1, <1>2, <1>3, <1>4 DEF Next, Reader, OwnSend, SteerReturns

\* No turn reads the answer to another turn's query, when there is no background work:
\* "a steer's response must be consumed by the steered turn" (claude_sdk.py, _run_turn).
THEOREM AnswersComeHome == Spec /\ NoBackground => AnswersStayHome
<1> DEFINE Quietly == IInv /\ Books /\ HomeInv /\ NoBackground
<1>1. Init /\ NoBackground => Quietly
  <2>1. Init => HomeInv
    <3> SUFFICES ASSUME Init PROVE HomeInv
        OBVIOUS
    <3>1. ~up /\ sending = {} /\ answering = {} /\ inbox = <<>> /\ stream = <<>>
        BY DEF Init
    <3> QED
        BY <3>1 DEF HomeInv, Underway, ToSet
  <2> QED
      BY <2>1, Initially, BooksOpen
<1>2. Quietly /\ [Next]_vars => Quietly'
  <2> SUFFICES ASSUME Quietly, [Next]_vars PROVE Quietly'
      OBVIOUS
  <2>1. NoBackground'
      BY SettingStays, SettingKept DEF NoBackground
  <2> QED
      BY <2>1, Step, BooksStep, HomeStep
<1>3. Quietly => (ReadResult => \A q \in Head(stream).what : Mine(q))
  <2> SUFFICES ASSUME Quietly, ReadResult, NEW q \in Head(stream).what PROVE Mine(q)
      OBVIOUS
  <2>1. phase = "read" /\ stream # <<>> /\ Head(stream).kind = "result"
      BY DEF ReadResult, Receive
  <2>2. Head(stream) = stream[1] /\ 1 \in 1..Len(stream)
      BY <2>1, Sizes, Tailed
  <2> QED
      BY <2>1, <2>2 DEF HomeInv, Underway, Reading
<1> HIDE DEF Quietly
<1>4. Spec /\ NoBackground => []Quietly
    BY <1>1, <1>2, PTL DEF Spec
<1>5. Quietly /\ [Next]_vars => [ReadResult => \A q \in Head(stream).what : Mine(q)]_vars
    BY <1>3
<1> QED
    BY <1>4, <1>5, PTL DEF Spec, AnswersStayHome

-----------------------------------------------------------------------------
(* Background work in turns without steers.                                *)

Kind(i) == stream[i].kind

\* No result lies at positions j..i-1 of the stream: they are read in one cycle.
Together(j, i) == \A n \in 1..Len(stream) : j <= n /\ n < i => Kind(n) # "result"

\* When the messages before position i have been read, a task or wakeup event, or the ticket, tells
\* the reader that a result at i is not the wakeup's.
Credit == tickets # <<>> \/ (phase = "read" /\ (cycleEnded \/ cycleWoke))
Marked(i) ==
    \/ Credit /\ Together(1, i)
    \/ \E j \in 1..Len(stream) : j < i /\ Kind(j) \in {"ended", "wakeup"} /\ Together(j, i)
Unmarked(i) == Kind(i) = "result" /\ ~Marked(i)

\* When the messages before position i have been read, the reader knows of a wakeup, of task k.
WakeKnown(i) ==
    \/ wakeTracked /\ \A n \in 1..Len(stream) : n < i => ~Unmarked(n)
    \/ \E j \in 1..Len(stream) :
          j < i /\ Kind(j) = "wakeup" /\ \A n \in 1..Len(stream) : j < n /\ n < i => ~Unmarked(n)
TaskKnown(k, i) ==
    /\ k \in tracked \/ \E j \in 1..Len(stream) : j < i /\ Kind(j) = "started" /\ k \in stream[j].what
    /\ \A j \in 1..Len(stream) : j < i /\ Kind(j) = "ended" => k \notin stream[j].what

\* Position i is behind a result; the response it belongs to begins behind that result, too.
Behind(i) ==
    (tickets = <<>> /\ phase # "read") \/ \E j \in 1..Len(stream) : j < i /\ Kind(j) = "result"
Begun(i) == \E j \in 1..Len(stream) : j < i /\ Kind(j) = "content" /\ Together(j, i)

\* The CLI has nothing to do but what it was just sent.
Still == ~busy /\ cliTasks = {} /\ ~cliWake /\ \A i \in 1..Len(stream) : Kind(i) = "noop"

\* The turn has one query, and when its result was read there is no ticket.
AloneInv ==
    /\ made = turn /\ sending = {} /\ buffer = <<>> /\ phase # "flushing"
    /\ Len(tickets) <= 1 /\ ~invalidated
    /\ consumed => tickets = <<>>
    /\ lastResult => consumed
    /\ phase = "read" => cycle # "timed"
    /\ phase \in {"idle", "launched", "prompting", "ended"} =>
          ~consumed /\ ~lastResult /\ tracked = {} /\ ~wakeTracked
    /\ phase = "leave" => eof \/ ~up
ClosedInv ==
    ~up => ~eof /\ tickets = <<>> /\ inbox = <<>> /\ ~busy /\ stream = <<>> /\ cliTasks = {} /\ ~cliWake

InboxInv ==
    /\ Len(inbox) <= 1
    /\ inbox # <<>> => tickets # <<>> /\ Still
    /\ phase \in {"idle", "launched", "prompting", "ended", "validate"} => inbox = <<>> /\ Still
    /\ \A i \in 1..Len(stream) : Kind(i) = "noop" => i = 1 /\ tickets # <<>>
TaskInv ==
    /\ cliTasks \subseteq 1..spawned
    /\ \A i \in 1..Len(stream) : Kind(i) \in {"started", "ended"} => stream[i].what \subseteq 1..spawned
    /\ \A i \in 1..Len(stream) : Kind(i) = "ended" => stream[i].what # {}
    /\ \A k \in cliTasks : TaskKnown(k, Len(stream) + 1)
    /\ \A i \in 1..Len(stream) : Kind(i) = "ended" => \A k \in stream[i].what : TaskKnown(k, i)
BegunInv ==
    /\ \A i \in 1..Len(stream) : Kind(i) \in {"started", "wakeup", "result"} /\ Behind(i) => Begun(i)
    /\ busy /\ Behind(Len(stream) + 1) => Begun(Len(stream) + 1)
WakeInv ==
    /\ \A i \in 1..Len(stream) : Kind(i) = "content" => Marked(i) \/ WakeKnown(i)
    /\ cliWake => WakeKnown(Len(stream) + 1)
    /\ cliWake /\ busy => Marked(Len(stream) + 1)
Work == AloneInv /\ ClosedInv /\ (up /\ ~eof => InboxInv /\ TaskInv /\ BegunInv /\ WakeInv)

\* What the types say of the positions of the stream.
LEMMA StreamIs ==
    ASSUME IInv
    PROVE  /\ stream \in Seq(Messages) /\ Len(stream) \in Nat
           /\ stream = <<>> <=> Len(stream) = 0
           /\ \A i \in 1..Len(stream) : stream[i] \in Messages
           /\ \A i \in 1..Len(stream) : i \in Nat
<1>1. stream \in Seq(Messages)
    BY DEF IInv, Types, StreamTypes
<1> QED
    BY <1>1, Members

\* New messages change nothing about the positions before them.
LEMMA Longer ==
    ASSUME IInv, Len(stream') \in Nat, Len(stream) <= Len(stream'),
           \A n \in 1..Len(stream) : stream'[n] = stream[n],
           UNCHANGED <<tickets, phase, cycleEnded, cycleWoke, tracked, wakeTracked>>,
           NEW i \in 1..(Len(stream) + 1)
    PROVE  /\ Marked(i) => Marked(i)'
           /\ WakeKnown(i) => WakeKnown(i)'
           /\ \A k : TaskKnown(k, i) => TaskKnown(k, i)'
           /\ Behind(i)' => Behind(i)
           /\ Begun(i) => Begun(i)'
<1>1. /\ Len(stream) \in Nat /\ i \in Nat
      /\ \A n \in 1..Len(stream') : n < i => n \in 1..Len(stream)
      /\ \A n \in 1..Len(stream) : n \in 1..Len(stream') /\ Kind(n)' = Kind(n)
    BY StreamIs DEF Kind
<1>2. \A j, n : n \in 1..(Len(stream) + 1) => (Together(j, n)' <=> Together(j, n))
  <2> TAKE j, n
  <2> HAVE n \in 1..(Len(stream) + 1)
  <2>1. \A l \in 1..Len(stream') : l < n => l \in 1..Len(stream)
      BY <1>1
  <2> QED
      BY <1>1, <2>1 DEF Together
<1>3. Credit' = Credit
    BY DEF Credit
<1>4. \A n \in 1..(Len(stream) + 1) : Marked(n)' <=> Marked(n)
  <2> TAKE n \in 1..(Len(stream) + 1)
  <2>1. \A l \in 1..Len(stream') : l < n => l \in 1..Len(stream)
      BY <1>1
  <2> QED
      BY <1>1, <1>2, <1>3, <2>1 DEF Marked
<1>5. \A n \in 1..Len(stream) : Unmarked(n)' <=> Unmarked(n)
  <2>1. \A n \in 1..Len(stream) : n \in 1..(Len(stream) + 1)
      BY <1>1
  <2> QED
      BY <1>1, <1>4, <2>1 DEF Unmarked
<1>6. WakeKnown(i) => WakeKnown(i)'
    BY <1>1, <1>5 DEF WakeKnown
<1>7. ASSUME NEW k, TaskKnown(k, i) PROVE TaskKnown(k, i)'
    BY <1>1, <1>7 DEF TaskKnown, Kind
<1>8. Behind(i)' => Behind(i)
    BY <1>1 DEF Behind
<1>9. Begun(i) => Begun(i)'
    BY <1>1, <1>2 DEF Begun
<1> QED
    BY <1>4, <1>6, <1>7, <1>8, <1>9

\* Nor do new messages that are no results end the response the stream ends in.
LEMMA LongerStill ==
    ASSUME IInv, NEW l \in Nat, l = Len(stream), NEW m \in Nat, m = Len(stream'), l <= m,
           \A n \in 1..l : stream'[n] = stream[n],
           UNCHANGED <<tickets, phase, cycleEnded, cycleWoke, tracked, wakeTracked>>,
           \A n \in 1..m : n > l => stream'[n].kind # "result"
    PROVE  /\ Marked(l + 1) => Marked(l + 1)' /\ Marked(m + 1)'
           /\ WakeKnown(l + 1) => WakeKnown(m + 1)'
           /\ Behind(m + 1)' => Behind(l + 1)
           /\ Begun(l + 1) => Begun(m + 1)'
<1>1. l + 1 \in 1..(l + 1)
    OBVIOUS
<1>2. \A n \in 1..m : n \in 1..l \/ (n > l /\ n >= l + 1 /\ Kind(n)' # "result")
    BY DEF Kind
<1>3. \A n \in 1..l : n \in 1..m /\ n < l + 1 /\ n < m + 1 /\ Kind(n)' = Kind(n)
    BY DEF Kind
<1>4. \A j : Together(j, l + 1)' => Together(j, m + 1)'
    BY <1>2, <1>3 DEF Together
<1>5. Marked(l + 1) => Marked(l + 1)' /\ Marked(m + 1)'
  <2>1. Marked(l + 1) => Marked(l + 1)'
      BY <1>1, Longer
  <2>2. \A j \in 1..m : j < l + 1 => j < m + 1
      OBVIOUS
  <2>3. Marked(l + 1)' => Marked(m + 1)'
      BY <1>4, <2>2 DEF Marked
  <2> QED
      BY <2>1, <2>3
<1>6. WakeKnown(l + 1) => WakeKnown(m + 1)'
  <2>1. WakeKnown(l + 1) => WakeKnown(l + 1)'
      BY <1>1, Longer
  <2>2. \A n \in 1..m : Unmarked(n)' => n < l + 1
      BY <1>2 DEF Unmarked
  <2>3. \A j \in 1..m : j < l + 1 => j < m + 1
      OBVIOUS
  <2> QED
      BY <2>1, <2>2, <2>3 DEF WakeKnown
<1>7. Behind(m + 1)' => Behind(l + 1)
    BY <1>2, <1>3 DEF Behind
<1>8. Begun(l + 1) => Begun(m + 1)'
  <2>1. Begun(l + 1) => Begun(l + 1)'
      BY <1>1, Longer
  <2>2. \A j \in 1..m : j < l + 1 => j < m + 1
      OBVIOUS
  <2> QED
      BY <1>4, <2>1, <2>2 DEF Begun
<1> QED
    BY <1>5, <1>6, <1>7, <1>8

\* A task known before the last message is known behind it, unless that ended it.
LEMMA TasksLonger ==
    ASSUME IInv, NEW l \in Nat, l = Len(stream), NEW m \in Nat, m = Len(stream'), l <= m,
           \A n \in 1..l : stream'[n] = stream[n],
           UNCHANGED tracked,
           NEW k, TaskKnown(k, l + 1),
           \A n \in 1..m : n > l /\ stream'[n].kind = "ended" => k \notin stream'[n].what
    PROVE  TaskKnown(k, m + 1)'
<1>1. \A n \in 1..m : n \in 1..l \/ n > l
    OBVIOUS
<1>2. \A n \in 1..l : n \in 1..m /\ n < l + 1 /\ n < m + 1
    OBVIOUS
<1> QED
    BY <1>1, <1>2 DEF TaskKnown, Kind

\* What a step that reads the first message owes the positions behind it.
Reads ==
    /\ stream # <<>> /\ stream' = Tail(stream)
    /\ Kind(1) # "result" /\ Credit => Credit'
    /\ Kind(1) \in {"ended", "wakeup"} => Credit'
    /\ (wakeTracked /\ ~Unmarked(1)) \/ Kind(1) = "wakeup" => wakeTracked'
    /\ \A k \in tracked : Kind(1) # "ended" \/ k \notin stream[1].what => k \in tracked'
    /\ Kind(1) = "started" => stream[1].what \subseteq tracked'
    /\ tickets' = <<>> /\ phase' # "read" => Kind(1) = "result"

\* The positions of the stream when its first message has been read.
LEMMA TailIs ==
    ASSUME IInv, stream # <<>>, stream' = Tail(stream), NEW l, l = Len(stream)
    PROVE  /\ l \in Nat /\ l > 0 /\ Len(stream') = l - 1 /\ stream[1] = Head(stream)
           /\ \A n \in 1..(l - 1) : stream'[n] = stream[n + 1] /\ n + 1 \in 1..l
           /\ \A n \in 1..l : n = 1 \/ (n - 1 \in 1..(l - 1) /\ n = (n - 1) + 1 /\ stream'[n - 1] = stream[n])
<1>1. /\ l \in Nat /\ l # 0 /\ Len(stream') = l - 1 /\ stream[1] = Head(stream)
      /\ \A n \in 1..(l - 1) : stream'[n] = stream[n + 1] /\ n + 1 \in 1..l
    BY StreamIs, Tailed
<1>2. \A n \in 1..l : n = 1 \/ (n - 1 \in 1..(l - 1) /\ n = (n - 1) + 1)
    BY <1>1
<1> QED
    BY <1>1, <1>2

\* A position moves up by one; what its reader will know by then stays the same.
LEMMA Shorter ==
    ASSUME IInv, Reads, NEW l, l = Len(stream), NEW i \in 1..l
    PROVE  /\ Marked(i + 1) => Marked(i)'
           /\ WakeKnown(i + 1) => WakeKnown(i)'
           /\ \A k : TaskKnown(k, i + 1) => TaskKnown(k, i)'
           /\ Behind(i)' => Behind(i + 1)
           /\ Begun(i + 1) /\ Behind(i)' => Begun(i)'
<1>1. /\ l \in Nat /\ l > 0 /\ Len(stream') = l - 1
      /\ \A n \in 1..(l - 1) : Kind(n)' = Kind(n + 1) /\ stream'[n] = stream[n + 1] /\ n + 1 \in 1..l
      /\ \A n \in 1..l : n = 1 \/ \E j \in 1..(l - 1) : n = j + 1
    BY TailIs DEF Reads, Kind
<1>2. 1 \in 1..l /\ \A n \in 1..l : 1 < n + 1
    BY <1>1
<1>3. \A j, n : j \in 1..l /\ n \in 1..l /\ Together(j + 1, n + 1) => Together(j, n)'
  <2> SUFFICES ASSUME NEW j \in 1..l, NEW n \in 1..l, Together(j + 1, n + 1),
                      NEW a \in 1..(l - 1), j <= a, a < n
               PROVE  Kind(a)' # "result"
      BY <1>1 DEF Together
  <2>1. a + 1 \in 1..l /\ j + 1 <= a + 1 /\ a + 1 < n + 1
      BY <1>1
  <2> QED
      BY <1>1, <2>1 DEF Together
<1>4. ASSUME NEW n \in 1..l, NEW j \in 1..l, j = 1, Together(j, n + 1)
      PROVE  Together(1, n)' /\ Kind(1) # "result"
  <2>1. Kind(1) # "result"
      BY <1>1, <1>2, <1>4 DEF Together
  <2>2. Together(2, n + 1)
      BY <1>1, <1>4 DEF Together
  <2>3. Together(1 + 1, n + 1)
      BY <2>2
  <2> QED
      BY <1>2, <1>3, <2>1, <2>3
<1>5. ASSUME NEW n \in 1..l, Marked(n + 1) PROVE Marked(n)'
  <2>1. CASE Credit /\ Together(1, n + 1)
      BY <1>2, <1>4, <2>1 DEF Marked, Reads
  <2>2. CASE \E j \in 1..l : j < n + 1 /\ Kind(j) \in {"ended", "wakeup"} /\ Together(j, n + 1)
    <3>1. PICK j \in 1..l : j < n + 1 /\ Kind(j) \in {"ended", "wakeup"} /\ Together(j, n + 1)
        BY <2>2
    <3>2. CASE j = 1
        BY <1>4, <3>1, <3>2 DEF Marked, Reads
    <3>3. CASE j # 1
      <4>1. PICK a \in 1..(l - 1) : j = a + 1
          BY <1>1, <3>3
      <4>2. Kind(a)' \in {"ended", "wakeup"} /\ a < n /\ a \in 1..Len(stream') /\ Together(a, n)'
        <5>1. Kind(a)' = Kind(j) /\ a < n /\ a \in 1..Len(stream') /\ a \in 1..l
            BY <1>1, <3>1, <4>1
        <5>2. Together(a, n)'
            BY <1>3, <3>1, <4>1, <5>1
        <5> QED
            BY <3>1, <5>1, <5>2
      <4> QED
          BY <4>2 DEF Marked
    <3> QED
        BY <3>2, <3>3
  <2> QED
      BY <1>5, <2>1, <2>2 DEF Marked
<1>6. \A n \in 1..(l - 1) : Unmarked(n)' => Unmarked(n + 1)
  <2>1. \A n \in 1..(l - 1) : n \in 1..l
      BY <1>1
  <2> QED
      BY <1>1, <1>5, <2>1 DEF Unmarked
<1>7. ASSUME WakeKnown(i + 1) PROVE WakeKnown(i)'
  <2>1. \A n \in 1..(l - 1) : n < i => n + 1 < i + 1 /\ n + 1 \in 1..l
      BY <1>1
  <2>2. CASE wakeTracked /\ \A n \in 1..l : n < i + 1 => ~Unmarked(n)
    <3>1. ~Unmarked(1)
        BY <1>2, <2>2
    <3>2. \A n \in 1..(l - 1) : n < i => ~Unmarked(n)'
        BY <1>6, <2>1, <2>2
    <3> QED
        BY <1>1, <2>2, <3>1, <3>2 DEF WakeKnown, Reads
  <2>3. ASSUME NEW j \in 1..l, j < i + 1, Kind(j) = "wakeup",
               \A n \in 1..l : j < n /\ n < i + 1 => ~Unmarked(n)
        PROVE  WakeKnown(i)'
    <3>1. CASE j = 1
      <4>1. \A n \in 1..(l - 1) : n < i => ~Unmarked(n)'
        <5>1. \A n \in 1..(l - 1) : 1 < n + 1
            BY <1>1
        <5> QED
            BY <1>6, <2>1, <2>3, <3>1, <5>1
      <4> QED
          BY <1>1, <2>3, <3>1, <4>1 DEF WakeKnown, Reads
    <3>2. CASE j # 1
      <4>1. PICK a \in 1..(l - 1) : j = a + 1
          BY <1>1, <3>2
      <4>2. \A n \in 1..(l - 1) : a < n => j < n + 1
          BY <1>1, <4>1
      <4>3. Kind(a)' = "wakeup" /\ a < i
          BY <1>1, <2>3, <4>1
      <4>4. \A n \in 1..(l - 1) : a < n /\ n < i => ~Unmarked(n)'
          BY <1>6, <2>1, <2>3, <4>2
      <4> QED
          BY <1>1, <4>3, <4>4 DEF WakeKnown
    <3> QED
        BY <3>1, <3>2
  <2> QED
      BY <1>7, <2>2, <2>3 DEF WakeKnown
<1>8. ASSUME NEW k, TaskKnown(k, i + 1) PROVE TaskKnown(k, i)'
  <2>1. ~(Kind(1) = "ended" /\ k \in stream[1].what)
      BY <1>2, <1>8 DEF TaskKnown
  <2>2. \A n \in 1..(l - 1) : n < i => n + 1 < i + 1 /\ n + 1 \in 1..l
      BY <1>1
  <2>3. \A n \in 1..(l - 1) : n < i /\ Kind(n)' = "ended" => k \notin stream'[n].what
      BY <1>1, <1>8, <2>2 DEF TaskKnown
  <2>4. k \in tracked' \/ \E n \in 1..(l - 1) : n < i /\ Kind(n)' = "started" /\ k \in stream'[n].what
    <3>1. CASE k \in tracked
        BY <2>1, <3>1 DEF Reads
    <3>2. ASSUME NEW j \in 1..l, j < i + 1, Kind(j) = "started", k \in stream[j].what
          PROVE  <2>4!1 \/ <2>4!2
      <4>1. CASE j = 1
          BY <3>2, <4>1 DEF Reads
      <4>2. CASE j # 1
        <5>1. PICK a \in 1..(l - 1) : j = a + 1
            BY <1>1, <4>2
        <5>2. a < i /\ Kind(a)' = "started" /\ k \in stream'[a].what
            BY <1>1, <3>2, <5>1
        <5> QED
            BY <5>2
      <4> QED
          BY <4>1, <4>2
    <3> QED
        BY <1>8, <3>1, <3>2 DEF TaskKnown
  <2> QED
      BY <1>1, <2>3, <2>4 DEF TaskKnown
<1>9. ASSUME Behind(i)' PROVE Behind(i + 1)
  <2>1. CASE Kind(1) = "result"
      BY <1>2, <2>1 DEF Behind
  <2>2. ASSUME NEW n \in 1..(l - 1), n < i, Kind(n)' = "result" PROVE Behind(i + 1)
    <3>1. n + 1 \in 1..l /\ n + 1 < i + 1 /\ Kind(n + 1) = "result"
        BY <1>1, <2>2
    <3> QED
        BY <3>1 DEF Behind
  <2> QED
      BY <1>1, <1>9, <2>1, <2>2 DEF Behind, Reads
<1>10. ASSUME Begun(i + 1), Behind(i)' PROVE Begun(i)'
  <2>1. PICK j \in 1..l : j < i + 1 /\ Kind(j) = "content" /\ Together(j, i + 1)
      BY <1>10 DEF Begun
  <2>2. CASE j = 1
    <3>1. Together(1, i)' /\ Kind(1) = "content"
        BY <1>4, <2>1, <2>2
    <3>2. PICK n \in 1..(l - 1) : n < i /\ Kind(n)' = "result"
        BY <1>1, <1>10, <3>1 DEF Behind, Reads
    <3>3. 1 <= n /\ n \in 1..Len(stream')
        BY <1>1
    <3> QED
        BY <3>1, <3>2, <3>3 DEF Together
  <2>3. CASE j # 1
    <3>1. PICK a \in 1..(l - 1) : j = a + 1
        BY <1>1, <2>3
    <3>2. Kind(a)' = "content" /\ a < i /\ a \in 1..l /\ Together(a, i)'
        BY <1>1, <1>3, <2>1, <3>1
    <3> QED
        BY <1>1, <3>2 DEF Begun
  <2> QED
      BY <2>2, <2>3
<1> QED
    BY <1>5, <1>7, <1>8, <1>9, <1>10

\* The invariants of the stream when its first message has been read.
LEMMA ReadWork ==
    ASSUME IInv, TaskInv, BegunInv, WakeInv, Reads, UNCHANGED <<spawned, cliTasks, busy, cliWake>>
    PROVE  TaskInv' /\ BegunInv' /\ WakeInv'
<1>1. PICK l : l = Len(stream)
    OBVIOUS
<1>2. /\ l \in Nat /\ l > 0 /\ Len(stream') = l - 1 /\ Len(stream') + 1 = l /\ l \in 1..l
      /\ \A n \in 1..(l - 1) : Kind(n)' = Kind(n + 1) /\ stream'[n] = stream[n + 1] /\ n + 1 \in 1..l
      /\ \A n \in 1..(l - 1) : n \in 1..l
    BY <1>1, TailIs DEF Reads, Kind
<1>3. TaskInv'
  <2>1. \A k \in cliTasks : TaskKnown(k, l)'
      BY <1>1, <1>2, Shorter DEF TaskInv
  <2>2. \A n \in 1..(l - 1) : Kind(n)' = "ended" => \A k \in stream'[n].what : TaskKnown(k, n)'
      BY <1>1, <1>2, Shorter DEF TaskInv
  <2> QED
      BY <1>1, <1>2, <2>1, <2>2 DEF TaskInv
<1>4. BegunInv'
  <2>1. \A n \in 1..(l - 1) : Kind(n)' \in {"started", "wakeup", "result"} /\ Behind(n)' => Begun(n)'
      BY <1>1, <1>2, Shorter DEF BegunInv
  <2>2. busy /\ Behind(l)' => Begun(l)'
      BY <1>1, <1>2, Shorter DEF BegunInv
  <2> QED
      BY <1>1, <1>2, <2>1, <2>2 DEF BegunInv
<1>5. WakeInv'
  <2>1. \A n \in 1..(l - 1) : Kind(n)' = "content" => Marked(n)' \/ WakeKnown(n)'
      BY <1>1, <1>2, Shorter DEF WakeInv
  <2>2. (cliWake => WakeKnown(l)') /\ (cliWake /\ busy => Marked(l)')
      BY <1>1, <1>2, Shorter DEF WakeInv
  <2> QED
      BY <1>1, <1>2, <2>1, <2>2 DEF WakeInv
<1> QED
    BY <1>3, <1>4, <1>5

\* A step that changes no message and loses no credit keeps the accounts of the stream.
LEMMA KeptWork ==
    ASSUME TaskInv, BegunInv, WakeInv,
           UNCHANGED <<stream, spawned, cliTasks, busy, cliWake, tracked, wakeTracked>>,
           Credit => Credit',
           tickets' = <<>> /\ phase' # "read" => tickets = <<>> /\ phase # "read"
    PROVE  TaskInv' /\ BegunInv' /\ WakeInv'
<1>1. \A i : Kind(i)' = Kind(i)
    BY DEF Kind
<1>2. \A i, j : Together(j, i)' = Together(j, i)
    BY <1>1 DEF Together
<1>3. \A i : (Behind(i)' => Behind(i)) /\ Begun(i)' = Begun(i)
    BY <1>1, <1>2 DEF Behind, Begun
<1>4. \A i : Marked(i) => Marked(i)'
    BY <1>1, <1>2 DEF Marked
<1>5. \A i : Unmarked(i)' => Unmarked(i)
    BY <1>1, <1>4 DEF Unmarked
<1>6. \A i : WakeKnown(i) => WakeKnown(i)'
    BY <1>1, <1>5 DEF WakeKnown
<1>7. \A k, i : TaskKnown(k, i)' = TaskKnown(k, i)
    BY <1>1 DEF TaskKnown
<1>8. Len(stream') = Len(stream)
    OBVIOUS
<1>9. TaskInv'
    BY <1>1, <1>7, <1>8 DEF TaskInv
<1>10. BegunInv'
  <2>1. \A i \in 1..Len(stream) : Kind(i)' \in {"started", "wakeup", "result"} /\ Behind(i)' => Begun(i)'
      BY <1>1, <1>3 DEF BegunInv
  <2>2. PICK l : l = Len(stream)
      OBVIOUS
  <2>3. busy /\ Behind(l + 1)' => Begun(l + 1)'
      BY <1>3, <2>2 DEF BegunInv
  <2> QED
      BY <1>8, <2>1, <2>2, <2>3 DEF BegunInv
<1>11. WakeInv'
  <2>1. \A i \in 1..Len(stream) : Kind(i)' = "content" => Marked(i)' \/ WakeKnown(i)'
      BY <1>1, <1>4, <1>6 DEF WakeInv
  <2>2. PICK l : l = Len(stream)
      OBVIOUS
  <2>3. (cliWake => WakeKnown(l + 1)') /\ (cliWake /\ busy => Marked(l + 1)')
      BY <1>4, <1>6, <2>2 DEF WakeInv
  <2> QED
      BY <1>8, <2>1, <2>2, <2>3 DEF WakeInv
<1> QED
    BY <1>9, <1>10, <1>11

\* A still CLI whose stream holds at most an empty result has nothing to explain.
LEMMA StillWork ==
    ASSUME Still'
    PROVE  TaskInv' /\ BegunInv' /\ WakeInv'
BY DEF Still, TaskInv, BegunInv, WakeInv

\* An empty stream and a CLI with nothing to do are still.
LEMMA EmptyStill ==
    ASSUME stream' = <<>>, cliTasks' = {}, ~busy', ~cliWake'
    PROVE  Still' /\ Len(stream') = 0
BY DEF Still

\* When the client is dropped, all that matters is what the reader keeps.
LEMMA DroppedWork == ASSUME Disconnect, AloneInv' PROVE Work'
<1>1. /\ up' = FALSE /\ eof' = FALSE /\ tickets' = <<>> /\ inbox' = <<>> /\ busy' = FALSE
      /\ stream' = <<>> /\ cliTasks' = {} /\ cliWake' = FALSE
    BY DEF Disconnect, ClearTickets
<1> QED
    BY <1>1 DEF Work, ClosedInv

\* A still CLI without a ticket open has nothing unread.
LEMMA StreamEmpty == ASSUME IInv, Work, up, ~eof, tickets = <<>>, Still PROVE stream = <<>>
<1> SUFFICES ASSUME stream # <<>> PROVE FALSE
    OBVIOUS
<1>1. 1 \in 1..Len(stream)
    BY StreamIs
<1> QED
    BY <1>1 DEF Still, Work, InboxInv

\* A reader with no ticket and no background work to wait for has read everything.
LEMMA ReadyIsIdle ==
    ASSUME IInv, Work, up, ~eof, phase = "top", tickets = <<>>, ~Background
    PROVE  stream = <<>> /\ inbox = <<>> /\ Still
<1>1. InboxInv /\ TaskInv /\ BegunInv /\ WakeInv /\ tracked = {} /\ ~wakeTracked
    BY DEF Work, Background
<1>2. inbox = <<>>
    BY <1>1 DEF InboxInv
<1>3. stream = <<>>
  <2> SUFFICES ASSUME stream # <<>> PROVE FALSE
      OBVIOUS
  <2>1. /\ 1 \in 1..Len(stream) /\ stream[1] \in Messages
        /\ \A j \in 1..Len(stream) : ~(j < 1)
      BY StreamIs
  <2>2. Kind(1) \in {"content", "result", "noop", "started", "ended", "wakeup"}
      BY <2>1 DEF Messages, Kind
  <2>3. ~Credit /\ Behind(1) /\ ~Marked(1) /\ ~Begun(1)
      BY <2>1 DEF Credit, Behind, Marked, Begun
  <2>4. ~WakeKnown(1) /\ \A k : ~TaskKnown(k, 1)
      BY <1>1, <2>1 DEF WakeKnown, TaskKnown
  <2>5. Kind(1) \notin {"result", "started", "wakeup"}
      BY <1>1, <2>1, <2>3 DEF BegunInv
  <2>6. Kind(1) # "ended"
      BY <1>1, <2>1, <2>4 DEF TaskInv
  <2>7. Kind(1) # "content"
      BY <1>1, <2>1, <2>3, <2>4 DEF WakeInv
  <2>8. Kind(1) # "noop"
      BY <1>1, <2>1 DEF InboxInv
  <2> QED
      BY <2>2, <2>5, <2>6, <2>7, <2>8
<1>4. Len(stream) = 0 /\ Len(stream) + 1 = 1 /\ 1..Len(stream) = {}
    BY <1>3
<1>5. ~busy /\ ~cliWake /\ cliTasks = {}
  <2>1. Behind(1) /\ ~Begun(1) /\ ~WakeKnown(1) /\ \A k : ~TaskKnown(k, 1)
      BY <1>1, <1>4 DEF Behind, Begun, WakeKnown, TaskKnown
  <2> QED
      BY <1>1, <1>4, <2>1 DEF BegunInv, WakeInv, TaskInv
<1> QED
    BY <1>2, <1>3, <1>4, <1>5 DEF Still

\* In a turn without steers the turn's own query is the only one.
LEMMA NoRoom == ASSUME IInv, NoSteers, made = turn PROVE ~RoomForSteer
<1>1. turn \in Nat /\ LastTurn \in Nat /\ LastQuery \in Nat /\ LastQuery <= LastTurn
    BY Bounds DEF IInv, Types, TurnTypes, NoSteers
<1> QED
    BY <1>1 DEF RoomForSteer

\* The turn is launched and sends its prompt to a CLI that has nothing else to do.
LEMMA StartWork ==
    ASSUME IInv, IInv', Work, NoSteers, Launch \/ BeginPrompt \/ SendOwn
    PROVE  Work'
<1>1. CASE Launch
  <2>1. /\ phase \in {"idle", "ended"} /\ phase' = "launched" /\ turn' = turn + 1 /\ made' = made + 1
        /\ UNCHANGED <<cycle, consumed, lastResult, tracked, wakeTracked, cycleEnded, cycleWoke>>
        /\ UNCHANGED <<buffer, sending, tickets, stream, up, eof, inbox, busy, cliTasks, spawned, cliWake>>
        /\ invalidated' = FALSE
      BY <1>1 DEF Launch, readVars, trackVars, ticketVars, cliVars
  <2>2. AloneInv' /\ ClosedInv'
      BY <2>1 DEF Work, AloneInv, ClosedInv
  <2>3. ASSUME up, ~eof PROVE InboxInv' /\ Still'
      BY <2>1, <2>3 DEF Work, InboxInv, Still, Kind
  <2>4. ASSUME up, ~eof PROVE TaskInv' /\ BegunInv' /\ WakeInv'
      BY <2>3, <2>4, StillWork
  <2> QED
      BY <2>1, <2>2, <2>3, <2>4 DEF Work
<1>2. CASE BeginPrompt
  <2>1. /\ phase = "launched" /\ phase' = "prompting" /\ up' = TRUE
        /\ tickets' = Append(tickets, Prompt)
        /\ IF up THEN UNCHANGED stream ELSE stream' \in {<<>>, <<Noop>>}
        /\ UNCHANGED <<turn, made, cycle, consumed, lastResult, tracked, wakeTracked>>
        /\ UNCHANGED <<invalidated, buffer, sending, eof, inbox, busy, cliTasks, spawned, cliWake>>
      BY <1>2 DEF BeginPrompt, readVars, trackVars, validVars, queryVars, Register
  <2>2. tickets = <<>> /\ Len(tickets') = 1 /\ tickets' # <<>>
    <3>1. tickets = <<>>
        BY <2>1 DEF IInv, TicketInv
    <3> QED
        BY <2>1, <3>1
  <2>3. AloneInv' /\ ClosedInv'
      BY <2>1, <2>2 DEF Work, AloneInv, ClosedInv
  <2>4. ASSUME ~eof
        PROVE  /\ inbox = <<>> /\ ~busy /\ cliTasks = {} /\ ~cliWake
               /\ \A i \in 1..Len(stream') : Kind(i)' = "noop" /\ i = 1
    <3>1. CASE up
      <4>1. inbox = <<>> /\ Still /\ stream = <<>>
          BY <2>1, <2>2, <2>4, <3>1, StreamEmpty DEF Work, InboxInv
      <4> QED
          BY <2>1, <3>1, <4>1 DEF Still
    <3>2. CASE ~up
      <4>1. stream' = <<>> \/ stream' = <<Noop>>
          BY <2>1, <3>2
      <4>2. \A i \in 1..Len(stream') : stream'[i] = Noop /\ i = 1
        <5>1. CASE stream' = <<>>
            BY <5>1
        <5>2. CASE stream' = <<Noop>>
          <6>1. Len(<<Noop>>) = 1 /\ <<Noop>>[1] = Noop
              OBVIOUS
          <6> QED
              BY <5>2, <6>1
        <5> QED
            BY <4>1, <5>1, <5>2
      <4>3. Noop.kind = "noop"
          BY DEF Noop, Message
      <4>4. \A i \in 1..Len(stream') : Kind(i)' = "noop" /\ i = 1
          BY <4>2, <4>3 DEF Kind
      <4> QED
          BY <3>2, <4>4 DEF Work, ClosedInv
    <3> QED
        BY <3>1, <3>2
  <2>5. ASSUME ~eof PROVE Still' /\ InboxInv'
      BY <2>1, <2>2, <2>4, <2>5 DEF Still, InboxInv
  <2> QED
      BY <2>1, <2>3, <2>5, StillWork DEF Work
<1>3. CASE SendOwn
  <2>1. phase = "prompting" /\ buffer = <<>> /\ ~eof
      BY <1>3 DEF SendOwn, Work, AloneInv
  <2>2. /\ phase' = "top" /\ inbox' = Append(inbox, Last(tickets))
        /\ UNCHANGED <<turn, made, cycle, consumed, lastResult, tracked, wakeTracked>>
        /\ UNCHANGED <<invalidated, buffer, sending, tickets, stream>>
        /\ UNCHANGED <<up, eof, busy, cliTasks, spawned, cliWake>>
      BY <1>3, <2>1 DEF SendOwn, readVars, trackVars, validVars, Deliver
  <2>3. tickets # <<>>
      BY <2>1 DEF IInv, TicketInv
  <2>4. up
      BY <2>3 DEF Work, ClosedInv
  <2>5. AloneInv' /\ ClosedInv'
      BY <2>1, <2>2, <2>4 DEF Work, AloneInv, ClosedInv
  <2>6. inbox = <<>> /\ Still /\ InboxInv
      BY <2>1, <2>4 DEF Work, InboxInv
  <2>7. Len(inbox') = 1 /\ Still'
      BY <2>2, <2>6 DEF Still, Kind
  <2>8. InboxInv'
      BY <2>2, <2>3, <2>6, <2>7 DEF InboxInv, Kind
  <2> QED
      BY <2>2, <2>5, <2>7, <2>8, StillWork DEF Work
<1> QED
    BY <1>1, <1>2, <1>3

\* The turn goes on without reading: nothing at the CLI changes.
LEMMA MovesWork ==
    ASSUME IInv, Work,
           UNCHANGED <<turn, made, tracked, sending, buffer, tickets, stream>>,
           UNCHANGED <<up, eof, inbox, busy, cliTasks, spawned, cliWake>>,
           AloneInv', Credit => Credit',
           tickets = <<>> /\ phase' # "read" => phase # "read",
           wakeTracked' = wakeTracked \/ (stream = <<>> /\ ~cliWake),
           phase' \in {"idle", "launched", "prompting", "ended", "validate"} /\ up /\ ~eof =>
               inbox = <<>> /\ Still
    PROVE  Work'
<1>1. ClosedInv'
    BY DEF Work, ClosedInv
<1>2. ASSUME up, ~eof PROVE InboxInv'
  <2>1. Still' = Still /\ \A i : Kind(i)' = Kind(i)
      BY DEF Still, Kind
  <2> QED
      BY <1>2, <2>1 DEF Work, InboxInv
<1>3. ASSUME up, ~eof, wakeTracked' = wakeTracked PROVE TaskInv' /\ BegunInv' /\ WakeInv'
    BY <1>3, KeptWork DEF Work
<1>4. ASSUME up, ~eof, stream = <<>>, ~cliWake PROVE TaskInv' /\ BegunInv' /\ WakeInv'
  <2>1. /\ TaskInv' /\ BegunInv'
    <3>1. \A k, i : TaskKnown(k, i)' = TaskKnown(k, i)
        BY DEF TaskKnown, Kind
    <3>2. \A i : (Behind(i)' => Behind(i)) /\ Begun(i)' = Begun(i)
        BY DEF Behind, Begun, Kind, Together
    <3>3. PICK l : l = Len(stream) + 1
        OBVIOUS
    <3>4. TaskInv /\ BegunInv
        BY <1>4 DEF Work
    <3>5. (\A k \in cliTasks : TaskKnown(k, l)') /\ (busy /\ Behind(l)' => Begun(l)')
        BY <3>1, <3>2, <3>3, <3>4 DEF TaskInv, BegunInv
    <3> QED
        BY <1>4, <3>3, <3>4, <3>5 DEF TaskInv, BegunInv
  <2>2. WakeInv'
      BY <1>4 DEF WakeInv
  <2> QED
      BY <2>1, <2>2
<1> QED
    BY <1>1, <1>2, <1>3, <1>4 DEF Work

\* The steps of a turn that read nothing and send nothing.
LEMMA QuietWork ==
    ASSUME IInv, Work,
           \/ NextCycle \/ StampWrite \/ StampCheck \/ StampClear \/ CancelRow \/ DrainEnded
           \/ WakeupExpires \/ Reread \/ StartValidation \/ ValidatorAnswers
    PROVE  Work'
<1> USE DEF turnVars, readVars, trackVars, validVars, queryVars, ticketVars, cliVars
<1>1. CASE StampWrite \/ StampCheck \/ StampClear \/ CancelRow \/ ValidatorAnswers
  <2>1. /\ UNCHANGED <<turn, made, tracked, sending, buffer, tickets, stream>>
        /\ UNCHANGED <<up, eof, inbox, busy, cliTasks, spawned, cliWake>>
        /\ UNCHANGED <<cycle, consumed, lastResult, wakeTracked, cycleEnded, cycleWoke, invalidated>>
        /\ phase' = phase \/ (phase \in {"stamp", "check", "clear"} /\ phase' \in {"check", "clear", "top"})
      BY <1>1 DEF StampWrite, StampCheck, StampClear, CancelRow, ValidatorAnswers
  <2>2. AloneInv'
      BY <2>1 DEF Work, AloneInv
  <2>3. Credit => Credit'
      BY <2>1 DEF Credit
  <2>4. phase' \in {"idle", "launched", "prompting", "ended", "validate"} /\ up /\ ~eof =>
            inbox = <<>> /\ Still
      BY <2>1 DEF Work, InboxInv
  <2> QED
      BY <2>1, <2>2, <2>3, <2>4, MovesWork
<1>2. CASE NextCycle
  <2>1. /\ UNCHANGED <<turn, made, tracked, sending, buffer, tickets, stream>>
        /\ UNCHANGED <<up, eof, inbox, busy, cliTasks, spawned, cliWake>>
        /\ UNCHANGED <<wakeTracked, invalidated>>
        /\ phase = "top" /\ phase' = "read"
        /\ consumed' = (consumed /\ ~NeedsResult) /\ lastResult' = (lastResult /\ ~NeedsResult)
        /\ cycle' = IF tickets = <<>> THEN "drain" ELSE IF consumed' THEN "timed" ELSE "block"
      BY <1>2 DEF NextCycle
  <2>2. AloneInv'
      BY <2>1 DEF Work, AloneInv
  <2>3. Credit => Credit'
      BY <2>1 DEF Credit
  <2> QED
      BY <2>1, <2>2, <2>3, MovesWork
<1>3. CASE WakeupExpires
  <2>1. /\ UNCHANGED <<turn, phase, made, tracked, sending, buffer, tickets, stream>>
        /\ UNCHANGED <<up, eof, inbox, busy, cliTasks, spawned, cliWake>>
        /\ UNCHANGED <<cycle, consumed, lastResult, cycleEnded, cycleWoke, invalidated>>
        /\ phase = "read" /\ stream = <<>> /\ ~cliWake /\ wakeTracked' = FALSE
      BY <1>3 DEF WakeupExpires
  <2>2. AloneInv'
      BY <2>1 DEF Work, AloneInv
  <2>3. Credit => Credit'
      BY <2>1 DEF Credit
  <2> QED
      BY <2>1, <2>2, <2>3, MovesWork
<1>4. CASE DrainEnded
  <2>1. /\ UNCHANGED <<turn, made, tracked, wakeTracked, sending, buffer, tickets, stream>>
        /\ UNCHANGED <<up, eof, inbox, busy, cliTasks, spawned, cliWake>>
        /\ UNCHANGED <<cycle, consumed, lastResult, invalidated>>
        /\ eof /\ phase' = "leave"
      BY <1>4 DEF DrainEnded
  <2>2. AloneInv' /\ ClosedInv'
      BY <2>1 DEF Work, AloneInv, ClosedInv
  <2> QED
      BY <2>1, <2>2 DEF Work
<1>5. CASE Reread
  <2>1. /\ UNCHANGED <<turn, made, tracked, wakeTracked, sending, buffer, tickets, stream>>
        /\ UNCHANGED <<up, eof, inbox, busy, cliTasks, spawned, cliWake>>
        /\ UNCHANGED <<cycle, consumed, lastResult, invalidated>>
        /\ phase' = "top" /\ LeavesLoop /\ NeedsResult
      BY <1>5 DEF Reread
  <2>2. AloneInv' /\ ClosedInv'
      BY <2>1 DEF Work, AloneInv, ClosedInv
  <2>3. tickets # <<>>
      BY <2>1, Members DEF NeedsResult, IInv, Types, TicketTypes
  <2>4. phase = "leave"
      BY <2>1, <2>3 DEF LeavesLoop, MoreToRead
  <2>5. eof \/ ~up
      BY <2>4 DEF Work, AloneInv
  <2> QED
      BY <2>1, <2>2, <2>5 DEF Work
<1>6. CASE StartValidation
  <2>1. /\ UNCHANGED <<turn, made, tracked, wakeTracked, sending, buffer, tickets, stream>>
        /\ UNCHANGED <<up, eof, inbox, busy, cliTasks, spawned, cliWake>>
        /\ UNCHANGED <<cycle, consumed, lastResult>>
        /\ phase' = "validate" /\ LeavesLoop /\ lastResult /\ ~Background /\ invalidated' = FALSE
      BY <1>6 DEF StartValidation
  <2>2. AloneInv'
      BY <2>1 DEF Work, AloneInv
  <2>3. phase \in {"top", "leave"}
      BY <2>1 DEF LeavesLoop
  <2>4. Credit => Credit'
      BY <2>1, <2>3 DEF Credit
  <2>5. ASSUME up, ~eof PROVE inbox = <<>> /\ Still
    <3>1. phase = "top" /\ tickets = <<>>
        BY <2>1, <2>3, <2>5 DEF LeavesLoop, MoreToRead, Work, AloneInv
    <3> QED
        BY <2>1, <2>5, <3>1, ReadyIsIdle
  <2> QED
      BY <2>1, <2>2, <2>3, <2>4, <2>5, MovesWork
<1> QED
    BY <1>1, <1>2, <1>3, <1>4, <1>5, <1>6

\* The turn ends: its client is dropped, or has nothing left to do.
LEMMA EndsWork ==
    ASSUME IInv, Work,
           \/ SendOwnFails \/ TimedOut \/ TimedOutOwed \/ TimedOutInterrupted \/ StreamEnded
           \/ DrainPoll \/ Unverified \/ ErrorResult \/ CompleteTurn \/ ValidationResumes
           \/ TurnCancelled
    PROVE  Work'
<1>1. ASSUME Disconnect, NEW o, End(o) PROVE Work'
  <2>1. AloneInv'
    <3>1. /\ UNCHANGED <<turn, made, invalidated>> /\ sending' = {} /\ tickets' = <<>> /\ buffer' = <<>>
          /\ phase' = "ended" /\ consumed' = FALSE /\ lastResult' = FALSE /\ tracked' = {}
          /\ wakeTracked' = FALSE
        BY <1>1 DEF Disconnect, ClearTickets, End, validVars
    <3> QED
        BY <3>1 DEF Work, AloneInv
  <2> QED
      BY <1>1, <2>1, DroppedWork
<1>2. ASSUME Fail PROVE Work'
    BY <1>1, <1>2 DEF Fail
<1>3. ASSUME Complete, tickets = <<>>, up /\ ~eof => stream = <<>> /\ inbox = <<>> /\ Still PROVE Work'
  <2>1. CASE rowCancelled
      BY <1>1, <1>3, <2>1 DEF Complete
  <2>2. CASE ~rowCancelled
    <3>1. /\ UNCHANGED <<turn, made, invalidated, sending, tickets, stream>> /\ buffer' = <<>>
          /\ UNCHANGED <<up, eof, inbox, busy, cliTasks, spawned, cliWake>>
          /\ phase' = "ended" /\ consumed' = FALSE /\ lastResult' = FALSE /\ tracked' = {}
          /\ wakeTracked' = FALSE
        BY <1>3, <2>2 DEF Complete, KeepClient, End, validVars, ticketVars, cliVars
    <3>2. AloneInv' /\ ClosedInv'
        BY <3>1 DEF Work, AloneInv, ClosedInv
    <3>3. ASSUME up, ~eof PROVE Still' /\ InboxInv'
      <4>1. Still' /\ \A i \in 1..Len(stream') : FALSE
          BY <1>3, <3>1, <3>3 DEF Still, Kind
      <4> QED
          BY <1>3, <3>1, <3>3, <4>1 DEF InboxInv
    <3> QED
        BY <3>1, <3>2, <3>3, StillWork DEF Work
  <2> QED
      BY <2>1, <2>2
<1>4. CASE SendOwnFails \/ TurnCancelled \/ Unverified \/ ErrorResult
    BY <1>1, <1>2, <1>4 DEF SendOwnFails, TurnCancelled, Unverified, ErrorResult
<1>5. CASE TimedOut \/ TimedOutOwed \/ TimedOutInterrupted
    BY <1>5 DEF TimedOut, TimedOutOwed, TimedOutInterrupted, Work, AloneInv
<1>6. CASE StreamEnded
  <2>1. CASE NeedsResult
      BY <1>2, <1>6, <2>1 DEF StreamEnded
  <2>2. CASE ~NeedsResult
    <3>1. /\ UNCHANGED <<turn, made, invalidated, sending, buffer, tracked, wakeTracked>>
          /\ UNCHANGED <<cycle, consumed, lastResult, up, eof>>
          /\ eof /\ tickets' = <<>> /\ phase' = "leave"
        BY <1>6, <2>2 DEF StreamEnded, ClearTickets, readVars, trackVars, validVars, cliVars
    <3>2. AloneInv' /\ ClosedInv'
        BY <3>1 DEF Work, AloneInv, ClosedInv
    <3> QED
        BY <3>1, <3>2 DEF Work
  <2> QED
      BY <2>1, <2>2
<1>7. CASE DrainPoll
  <2>1. /\ UNCHANGED <<turn, made, invalidated, buffer, tracked, wakeTracked, cycle, consumed, lastResult>>
        /\ sending' = {} /\ tickets' = <<>> /\ phase' = "top" /\ Disconnect
      BY <1>7 DEF DrainPoll, Disconnect, ClearTickets, readVars, trackVars, validVars
  <2>2. AloneInv'
      BY <2>1 DEF Work, AloneInv
  <2> QED
      BY <2>1, <2>2, DroppedWork
<1>8. CASE CompleteTurn
  <2>1. LeavesLoop /\ ~NeedsResult /\ lastResult /\ Complete
      BY <1>8 DEF CompleteTurn
  <2>2. tickets = <<>>
      BY <2>1, LeaveTickets
  <2>3. ASSUME up, ~eof PROVE stream = <<>> /\ inbox = <<>> /\ Still
    <3>1. phase = "top" /\ ~Background
        BY <2>1, <2>3 DEF LeavesLoop, MoreToRead, Work, AloneInv
    <3> QED
        BY <2>2, <2>3, <3>1, ReadyIsIdle
  <2> QED
      BY <1>3, <2>1, <2>2, <2>3
<1>9. CASE ValidationResumes
  <2>1. phase = "validate" /\ ~invalidated
      BY <1>9 DEF ValidationResumes, Work, AloneInv
  <2>2. tickets = <<>>
      BY <2>1 DEF IInv, TicketInv
  <2>3. ASSUME up, ~eof PROVE stream = <<>> /\ inbox = <<>> /\ Still
    <3>1. inbox = <<>> /\ Still
        BY <2>1, <2>3 DEF Work, InboxInv
    <3> QED
        BY <2>2, <2>3, <3>1, StreamEmpty
  <2>4. Complete \/ Fail
      BY <1>9, <2>1 DEF ValidationResumes
  <2> QED
      BY <1>2, <1>3, <2>2, <2>3, <2>4
<1> QED
    BY <1>4, <1>5, <1>6, <1>7, <1>8, <1>9

\* A message is read.
LEMMA MessageWork == ASSUME IInv, Work, ReadMessage PROVE Work'
<1>1. /\ phase = "read" /\ stream # <<>> /\ stream' = Tail(stream) /\ Head(stream) = stream[1]
      /\ 1 \in 1..Len(stream) /\ Together(1, 1)
      /\ UNCHANGED <<turn, made, invalidated, sending, buffer>>
      /\ UNCHANGED <<up, eof, inbox, busy, cliTasks, spawned, cliWake>>
      /\ cycle' = IF cycle = "timed" THEN "block" ELSE cycle
  <2>1. \E kind \in {"content", "started", "ended", "wakeup", "noop", "result"} : Receive(kind)
      BY DEF ReadMessage, ReadContent, ReadTaskStart, ReadTaskEnd, ReadWakeup, ReadNoop, ReadResult
  <2>2. /\ phase = "read" /\ stream # <<>> /\ stream' = Tail(stream)
        /\ UNCHANGED <<turn, made, invalidated, sending, buffer>>
        /\ UNCHANGED <<up, eof, inbox, busy, cliTasks, spawned, cliWake>>
        /\ cycle' = IF cycle = "timed" THEN "block" ELSE cycle
      BY <2>1 DEF Receive, validVars, cliVars
  <2>3. Head(stream) = stream[1] /\ 1 \in 1..Len(stream)
      BY <2>2, StreamIs, Tailed
  <2>4. Together(1, 1)
      BY DEF Together
  <2> QED
      BY <2>2, <2>3, <2>4
<1>2. \/ /\ Kind(1) \in {"content", "noop"} /\ UNCHANGED <<tickets, tracked, wakeTracked, cycleEnded, cycleWoke>>
         /\ UNCHANGED <<consumed, lastResult>>
         /\ phase' = IF Kind(1) = "noop" THEN "top" ELSE "read"
      \/ /\ Kind(1) = "started" /\ UNCHANGED <<tickets, phase, wakeTracked, cycleEnded, cycleWoke>>
         /\ UNCHANGED <<consumed, lastResult>>
         /\ tracked' = tracked \cup stream[1].what
      \/ /\ Kind(1) = "ended" /\ UNCHANGED <<tickets, phase, wakeTracked, cycleWoke>> /\ cycleEnded' = TRUE
         /\ UNCHANGED <<consumed, lastResult>>
         /\ tracked' = tracked \ stream[1].what
      \/ /\ Kind(1) = "wakeup" /\ UNCHANGED <<tickets, phase, tracked, cycleEnded>>
         /\ UNCHANGED <<consumed, lastResult>>
         /\ wakeTracked' = TRUE /\ cycleWoke' = TRUE
      \/ /\ Kind(1) = "result" /\ UNCHANGED <<tracked, cycleEnded, cycleWoke>>
         /\ tickets' = IF tickets = <<>> THEN <<>> ELSE Tail(tickets)
         /\ wakeTracked' = (wakeTracked /\ (tickets # <<>> \/ cycleEnded \/ cycleWoke))
         /\ phase' = "stamp" /\ consumed' = TRUE
    BY <1>1 DEF ReadMessage, ReadContent, ReadTaskStart, ReadTaskEnd, ReadWakeup, ReadNoop, ReadResult,
                Receive, trackVars, ticketVars, Kind
<1>3. Kind(1) = "result" => tickets' = <<>>
  <2> SUFFICES ASSUME Kind(1) = "result", tickets # <<>> PROVE tickets' = <<>>
      BY <1>2
  <2>1. tickets' = Tail(tickets) /\ tickets \in Seq(1..made) /\ Len(tickets) <= 1
      BY <1>2 DEF IInv, Types, TicketTypes, Work, AloneInv
  <2>2. Len(tickets) \in Nat /\ Len(tickets) # 0
      BY <2>1, Members
  <2>3. Len(tickets') = Len(tickets) - 1 /\ tickets' \in Seq(1..made)
      BY <2>1, Tailed
  <2>4. Len(tickets') = 0
      BY <2>1, <2>2, <2>3
  <2> QED
      BY <2>3, <2>4, EmptySeq
<1>4. AloneInv'
  <2>1. phase' \in {"read", "top", "stamp"} /\ (Kind(1) # "result" => UNCHANGED <<tickets, consumed, lastResult>>)
      BY <1>1, <1>2
  <2>2. Len(tickets') <= 1
      BY <1>3, <2>1 DEF Work, AloneInv
  <2>3. (consumed' => tickets' = <<>>) /\ (lastResult' => consumed')
      BY <1>2, <1>3, <2>1 DEF Work, AloneInv
  <2>4. cycle' # "timed"
      BY <1>1
  <2> QED
      BY <1>1, <2>1, <2>2, <2>3, <2>4 DEF Work, AloneInv
<1>5. ClosedInv'
    BY <1>1 DEF Work, ClosedInv
<1>6. ASSUME up, ~eof PROVE Work'
  <2>1. InboxInv /\ TaskInv /\ BegunInv /\ WakeInv
      BY <1>6 DEF Work
  <2>2. Kind(1) = "noop" => tickets # <<>>
      BY <1>1, <2>1 DEF InboxInv
  <2>3. Marked(1) <=> Credit
    <3>1. \A j \in 1..Len(stream) : ~(j < 1)
        BY StreamIs
    <3> QED
        BY <1>1, <3>1 DEF Marked
  <2>4. Reads
    <3>1. Kind(1) # "result" /\ Credit => Credit'
        BY <1>1, <1>2, <2>2 DEF Credit
    <3>2. Kind(1) \in {"ended", "wakeup"} => Credit'
        BY <1>1, <1>2 DEF Credit
    <3>3. (wakeTracked /\ ~Unmarked(1)) \/ Kind(1) = "wakeup" => wakeTracked'
        BY <1>2, <2>3 DEF Unmarked, Credit
    <3>4. \A k \in tracked : Kind(1) # "ended" \/ k \notin stream[1].what => k \in tracked'
        BY <1>2
    <3>5. Kind(1) = "started" => stream[1].what \subseteq tracked'
        BY <1>2
    <3>6. tickets' = <<>> /\ phase' # "read" => Kind(1) = "result"
        BY <1>1, <1>2, <2>2
    <3> QED
        BY <1>1, <3>1, <3>2, <3>3, <3>4, <3>5, <3>6 DEF Reads
  <2>5. TaskInv' /\ BegunInv' /\ WakeInv'
      BY <1>1, <2>1, <2>4, ReadWork
  <2>6. InboxInv'
    <3>1. \A i \in 1..Len(stream') : Kind(i)' # "noop"
      <4> TAKE i \in 1..Len(stream')
      <4>1. stream'[i] = stream[i + 1] /\ i + 1 \in 1..Len(stream) /\ i + 1 # 1
          BY <1>1, TailIs
      <4> QED
          BY <2>1, <4>1 DEF InboxInv, Kind
    <3>2. phase' \in {"read", "top", "stamp"}
        BY <1>1, <1>2
    <3>3. ASSUME inbox # <<>> PROVE tickets' # <<>> /\ Still'
      <4>1. Still /\ tickets # <<>>
          BY <2>1, <3>3 DEF InboxInv
      <4>2. Kind(1) = "noop"
          BY <1>1, <4>1 DEF Still
      <4>3. \A i \in 1..Len(stream') : FALSE
        <5> TAKE i \in 1..Len(stream')
        <5>1. stream'[i] = stream[i + 1] /\ i + 1 \in 1..Len(stream)
            BY <1>1, TailIs
        <5>2. Kind(i + 1) = "noop"
            BY <4>1, <5>1 DEF Still
        <5> QED
            BY <3>1, <5>1, <5>2 DEF Kind
      <4> QED
          BY <1>1, <1>2, <4>1, <4>2, <4>3 DEF Still
    <3> QED
        BY <1>1, <2>1, <3>1, <3>2, <3>3 DEF InboxInv
  <2> QED
      BY <1>4, <1>5, <2>5, <2>6 DEF Work
<1> QED
    BY <1>1, <1>4, <1>5, <1>6 DEF Work

\* What a step of the CLI owes the messages it adds behind position l.
LEMMA CliAdds ==
    ASSUME IInv, Work, up, ~eof, CliUnchanged, UNCHANGED <<eof, inbox>>, inbox = <<>>, stream' \in Seq(Messages),
           NEW l \in Nat, l = Len(stream), NEW m \in Nat, m = Len(stream'), l < m,
           \A n \in 1..l : stream'[n] = stream[n],
           \A n \in 1..m : n > l => stream'[n].kind # "noop",
           phase \notin {"idle", "launched", "prompting", "ended", "validate"},
           TaskInv', BegunInv', WakeInv'
    PROVE  Work'
<1>1. /\ UNCHANGED <<turn, phase, made, cycle, consumed, lastResult, tracked, wakeTracked>>
      /\ UNCHANGED <<invalidated, buffer, sending, tickets, up>>
    BY DEF CliUnchanged, turnVars, readVars, trackVars, validVars, queryVars, ticketVars
<1>2. AloneInv' /\ ClosedInv'
    BY <1>1 DEF Work, AloneInv, ClosedInv
<1>3. \A n \in 1..m : Kind(n)' = "noop" => n \in 1..l /\ Kind(n) = "noop"
  <2>1. \A n \in 1..m : n \in 1..l \/ n > l
      OBVIOUS
  <2> QED
      BY <2>1 DEF Kind
<1>4. InboxInv'
    BY <1>1, <1>3 DEF Work, InboxInv
<1> QED
    BY <1>1, <1>2, <1>4 DEF Work

\* A CLI that works owes nothing to its inbox, and its turn is in its loop.
LEMMA Working ==
    ASSUME IInv, Work, up, ~eof, busy \/ cliTasks # {} \/ cliWake
    PROVE  inbox = <<>> /\ phase \notin {"idle", "launched", "prompting", "ended", "validate"}
BY DEF Work, InboxInv, Still

\* Message m arrives.
LEMMA OneMore ==
    ASSUME IInv, NEW m \in Messages, stream' = Append(stream, m), NEW l, l = Len(stream)
    PROVE  /\ l \in Nat /\ l + 1 \in Nat /\ Len(stream') = l + 1 /\ stream'[l + 1] = m
           /\ l < l + 1 /\ l <= l + 1 /\ l + 1 \in 1..(l + 1) /\ ~(l + 1 < l + 1)
           /\ \A n \in 1..l : stream'[n] = stream[n] /\ n \in 1..(l + 1) /\ n < l + 1 /\ ~(n > l)
           /\ \A n \in 1..(l + 1) : n \in 1..l \/ n = l + 1
<1>1. stream \in Seq(Messages) /\ l \in Nat
    BY StreamIs
<1>2. Len(stream') = l + 1 /\ stream'[l + 1] = m /\ \A n \in 1..l : stream'[n] = stream[n]
    BY <1>1, Appended
<1> QED
    BY <1>1, <1>2

\* A result arrives, or another message of a response under way, or a new response begins.
LEMMA ResultAdded ==
    ASSUME IInv, Work, CliResult PROVE Work'
<1> DEFINE m == Result(answering)
<1>1. /\ up /\ ~eof /\ busy /\ busy' = FALSE /\ stream' = Append(stream, m) /\ CliUnchanged
      /\ UNCHANGED <<eof, inbox, cliTasks, spawned, cliWake>>
    BY DEF CliResult, CliAlive
<1>2. m \in Messages /\ m.kind = "result"
    BY Fitting DEF Result, Message
<1> HIDE DEF m
<1>3. PICK l : l = Len(stream)
    OBVIOUS
<1>4. /\ l \in Nat /\ l + 1 \in Nat /\ Len(stream') = l + 1 /\ stream'[l + 1] = m
      /\ l < l + 1 /\ l <= l + 1 /\ l + 1 \in 1..(l + 1) /\ ~(l + 1 < l + 1)
      /\ \A n \in 1..l : stream'[n] = stream[n] /\ n \in 1..(l + 1) /\ n < l + 1 /\ ~(n > l)
      /\ \A n \in 1..(l + 1) : n \in 1..l \/ n = l + 1
    BY <1>1, <1>2, <1>3, OneMore
<1>5. UNCHANGED <<tickets, phase, cycleEnded, cycleWoke, tracked, wakeTracked>>
    BY <1>1 DEF CliUnchanged, turnVars, trackVars, ticketVars
<1>6. \A n \in 1..(l + 1) :
          /\ Marked(n) => Marked(n)'
          /\ WakeKnown(n) => WakeKnown(n)'
          /\ \A k : TaskKnown(k, n) => TaskKnown(k, n)'
          /\ Behind(n)' => Behind(n)
          /\ Begun(n) => Begun(n)'
    BY <1>3, <1>4, <1>5, Longer
<1>7. TaskInv /\ BegunInv /\ WakeInv
    BY <1>1 DEF Work
<1>8. TaskInv'
  <2>1. \A k : TaskKnown(k, l + 1) => TaskKnown(k, (l + 1) + 1)'
      BY <1>2, <1>3, <1>4, <1>5, TasksLonger
  <2>2. \A k \in cliTasks' : TaskKnown(k, (l + 1) + 1)'
      BY <1>1, <1>3, <1>7, <2>1 DEF TaskInv
  <2>3. \A n \in 1..(l + 1) : Kind(n)' \in {"started", "ended"} => n \in 1..l /\ Kind(n) = Kind(n)'
      BY <1>2, <1>4 DEF Kind
  <2> QED
      BY <1>1, <1>3, <1>4, <1>6, <1>7, <2>2, <2>3 DEF TaskInv
<1>9. BegunInv'
  <2>1. \A n \in 1..l : Kind(n)' = Kind(n)
      BY <1>4 DEF Kind
  <2>2. Behind(l + 1)' => Begun(l + 1)'
      BY <1>1, <1>3, <1>4, <1>6, <1>7 DEF BegunInv
  <2> QED
      BY <1>1, <1>3, <1>4, <1>6, <1>7, <2>1, <2>2 DEF BegunInv
<1>10. WakeInv'
  <2>1. \A n \in 1..(l + 1) : Kind(n)' = "content" => n \in 1..l /\ Kind(n) = "content"
      BY <1>2, <1>4 DEF Kind
  <2>2. cliWake => WakeKnown((l + 1) + 1)'
    <3> SUFFICES ASSUME cliWake PROVE WakeKnown((l + 1) + 1)'
        OBVIOUS
    <3>1. Marked(l + 1)' /\ WakeKnown(l + 1)'
        BY <1>1, <1>3, <1>4, <1>6, <1>7 DEF WakeInv
    <3>2. \A n \in 1..(l + 1) : n < l + 1 \/ ~Unmarked(n)'
        BY <1>4, <3>1 DEF Unmarked
    <3>3. \A n \in 1..(l + 1) : n < (l + 1) + 1
        BY <1>4
    <3> QED
        BY <1>4, <3>1, <3>2, <3>3 DEF WakeKnown
  <2> QED
      BY <1>1, <1>3, <1>4, <1>6, <1>7, <2>1, <2>2 DEF WakeInv
<1>11. stream' \in Seq(Messages) /\ \A n \in 1..(l + 1) : n > l => stream'[n].kind # "noop"
    BY <1>1, <1>2, <1>4, StreamIs, Appended
<1>12. inbox = <<>> /\ phase \notin {"idle", "launched", "prompting", "ended", "validate"}
    BY <1>1, Working
<1> QED
    BY <1>1, <1>3, <1>4, <1>8, <1>9, <1>10, <1>11, <1>12, CliAdds

\* Messages behind the others keep the accounts when each of them is explained.
LEMMA AddsWork ==
    ASSUME IInv, TaskInv, BegunInv, WakeInv,
           NEW l \in Nat, l = Len(stream), NEW m \in Nat, m = Len(stream'), l <= m,
           \A n \in 1..l : stream'[n] = stream[n],
           UNCHANGED <<tickets, phase, cycleEnded, cycleWoke, tracked, wakeTracked>>,
           spawned \in Nat, spawned' \in Nat, spawned <= spawned',
           cliTasks' \subseteq 1..spawned', \A k \in cliTasks' : TaskKnown(k, m + 1)',
           \A n \in 1..m : n > l =>
               /\ Kind(n)' \in {"started", "ended"} => stream'[n].what \subseteq 1..spawned'
               /\ Kind(n)' = "ended" => stream'[n].what # {} /\ \A k \in stream'[n].what : TaskKnown(k, n)'
               /\ Kind(n)' \in {"started", "wakeup", "result"} /\ Behind(n)' => Begun(n)'
               /\ Kind(n)' = "content" => Marked(n)' \/ WakeKnown(n)',
           busy' /\ Behind(m + 1)' => Begun(m + 1)',
           cliWake' => WakeKnown(m + 1)',
           cliWake' /\ busy' => Marked(m + 1)'
    PROVE  TaskInv' /\ BegunInv' /\ WakeInv'
<1>1. \A n \in 1..l : n \in 1..(l + 1) /\ Kind(n)' = Kind(n)
    BY DEF Kind
<1>2. \A n \in 1..(l + 1) :
          /\ Marked(n) => Marked(n)'
          /\ WakeKnown(n) => WakeKnown(n)'
          /\ \A k : TaskKnown(k, n) => TaskKnown(k, n)'
          /\ Behind(n)' => Behind(n)
          /\ Begun(n) => Begun(n)'
    BY Longer
<1>3. \A n \in 1..m : n \in 1..l \/ n > l
    OBVIOUS
<1>4. 1..spawned \subseteq 1..spawned'
    OBVIOUS
<1>5. TaskInv'
  <2>1. \A n \in 1..m : Kind(n)' \in {"started", "ended"} => stream'[n].what \subseteq 1..spawned'
      BY <1>1, <1>3, <1>4 DEF TaskInv
  <2>2. \A n \in 1..m : Kind(n)' = "ended" =>
            stream'[n].what # {} /\ \A k \in stream'[n].what : TaskKnown(k, n)'
      BY <1>1, <1>2, <1>3 DEF TaskInv
  <2> QED
      BY <2>1, <2>2 DEF TaskInv
<1>6. BegunInv'
  <2>1. \A n \in 1..m : Kind(n)' \in {"started", "wakeup", "result"} /\ Behind(n)' => Begun(n)'
      BY <1>1, <1>2, <1>3 DEF BegunInv
  <2> QED
      BY <2>1 DEF BegunInv
<1>7. WakeInv'
  <2>1. \A n \in 1..m : Kind(n)' = "content" => Marked(n)' \/ WakeKnown(n)'
      BY <1>1, <1>2, <1>3 DEF WakeInv
  <2> QED
      BY <2>1 DEF WakeInv
<1> QED
    BY <1>5, <1>6, <1>7

\* A message of a response under way, or the end of a task that starts no response.
LEMMA NoteAdded ==
    ASSUME IInv, Work, up, ~eof, CliUnchanged, UNCHANGED <<eof, inbox, busy>>,
           NEW m \in Messages, stream' = Append(stream, m),
           busy \/ cliTasks # {} \/ cliWake,
           \/ /\ m.kind = "started" /\ busy /\ spawned' = spawned + 1 /\ m.what = {spawned + 1}
              /\ cliTasks' = cliTasks \cup {spawned + 1} /\ UNCHANGED cliWake
           \/ /\ m.kind = "wakeup" /\ busy /\ UNCHANGED <<spawned, cliTasks>>
           \/ /\ m.kind = "ended" /\ UNCHANGED <<spawned, cliWake>>
              /\ \E k \in cliTasks : m.what = {k} /\ cliTasks' = cliTasks \ {k}
    PROVE  Work'
<1>1. PICK l : l = Len(stream)
    OBVIOUS
<1>2. /\ l \in Nat /\ l + 1 \in Nat /\ Len(stream') = l + 1 /\ stream'[l + 1] = m
      /\ l < l + 1 /\ l <= l + 1 /\ l + 1 \in 1..(l + 1) /\ ~(l + 1 < l + 1)
      /\ \A n \in 1..l : stream'[n] = stream[n] /\ n \in 1..(l + 1) /\ n < l + 1 /\ ~(n > l)
      /\ \A n \in 1..(l + 1) : n \in 1..l \/ n = l + 1
    BY <1>1, OneMore
<1>3. UNCHANGED <<tickets, phase, cycleEnded, cycleWoke, tracked, wakeTracked>>
    BY DEF CliUnchanged, turnVars, trackVars, ticketVars
<1>4. TaskInv /\ BegunInv /\ WakeInv
    BY DEF Work
<1>5. \A n \in 1..(l + 1) : n > l => stream'[n] = m /\ n = l + 1
    BY <1>2
<1>6. /\ Marked(l + 1) => Marked(l + 1)' /\ Marked((l + 1) + 1)'
      /\ WakeKnown(l + 1) => WakeKnown((l + 1) + 1)'
      /\ Behind((l + 1) + 1)' => Behind(l + 1)
      /\ Begun(l + 1) => Begun((l + 1) + 1)'
    BY <1>1, <1>2, <1>3, <1>5, LongerStill
<1>7. /\ \A k : TaskKnown(k, l + 1) => TaskKnown(k, l + 1)'
      /\ Behind(l + 1)' => Behind(l + 1)
      /\ Begun(l + 1) => Begun(l + 1)'
    BY <1>1, <1>2, <1>3, Longer
<1>8. spawned \in Nat /\ spawned + 1 \in Nat
    BY Bounds DEF IInv, Types, TurnTypes, CliTypes
<1>9. /\ spawned' \in Nat /\ spawned <= spawned' /\ cliTasks' \subseteq 1..spawned'
      /\ m.kind \in {"started", "ended"} => m.what \subseteq 1..spawned'
      /\ m.kind = "ended" => m.what # {} /\ m.what \subseteq cliTasks /\ m.what \cap cliTasks' = {}
      /\ m.kind = "started" => m.what = {spawned + 1} /\ cliTasks' = cliTasks \cup {spawned + 1}
      /\ m.kind # "started" => cliTasks' \subseteq cliTasks
      /\ m.kind # "ended" => busy
      /\ m.kind # "wakeup" => cliWake' = cliWake
      /\ m.kind \in {"started", "wakeup", "ended"}
  <2>1. cliTasks \subseteq 1..spawned /\ 1..spawned \subseteq 1..(spawned + 1) /\ spawned + 1 \in 1..(spawned + 1)
      BY <1>4, <1>8 DEF TaskInv
  <2>2. CASE m.kind = "started"
    <3>1. /\ busy /\ spawned' = spawned + 1 /\ m.what = {spawned + 1}
          /\ cliTasks' = cliTasks \cup {spawned + 1} /\ UNCHANGED cliWake
        BY <2>2
    <3>2. spawned' \in Nat /\ spawned <= spawned'
        BY <1>8, <3>1
    <3>3. cliTasks' \subseteq 1..spawned' /\ m.what \subseteq 1..spawned'
        BY <2>1, <3>1
    <3> QED
        BY <2>2, <3>1, <3>2, <3>3
  <2>3. CASE m.kind = "wakeup"
    <3>1. busy /\ UNCHANGED <<spawned, cliTasks>>
        BY <2>3
    <3>2. spawned' \in Nat /\ spawned <= spawned'
        BY <1>8, <3>1
    <3> QED
        BY <2>1, <2>3, <3>1, <3>2
  <2>4. CASE m.kind = "ended"
    <3>1. UNCHANGED <<spawned, cliWake>> /\ \E k \in cliTasks : m.what = {k} /\ cliTasks' = cliTasks \ {k}
        BY <2>4
    <3>2. PICK k \in cliTasks : m.what = {k} /\ cliTasks' = cliTasks \ {k}
        BY <3>1
    <3>3. spawned' \in Nat /\ spawned <= spawned'
        BY <1>8, <3>1
    <3>4. m.what # {} /\ m.what \subseteq cliTasks /\ m.what \cap cliTasks' = {} /\ cliTasks' \subseteq cliTasks
        BY <3>2
    <3>5. cliTasks' \subseteq 1..spawned' /\ m.what \subseteq 1..spawned'
        BY <2>1, <3>1, <3>4
    <3> QED
        BY <2>4, <3>1, <3>3, <3>4, <3>5
  <2> QED
      BY <2>2, <2>3, <2>4
<1>10. \A k \in cliTasks' : TaskKnown(k, (l + 1) + 1)'
  <2> SUFFICES ASSUME NEW k \in cliTasks' PROVE TaskKnown(k, (l + 1) + 1)'
      OBVIOUS
  <2>1. CASE k \in cliTasks
    <3>1. TaskKnown(k, l + 1)
        BY <1>1, <1>4, <2>1 DEF TaskInv
    <3>2. m.kind = "ended" => k \notin m.what
        BY <1>9
    <3> QED
        BY <1>1, <1>2, <1>3, <1>5, <3>1, <3>2, TasksLonger
  <2>2. CASE k \notin cliTasks
    <3>1. m.kind = "started" /\ k = spawned + 1 /\ k \in m.what
        BY <1>9, <2>2
    <3>2. \A n \in 1..l : Kind(n) = "ended" => k \notin stream[n].what
        BY <1>1, <1>4, <1>8, <3>1 DEF TaskInv
    <3>3. \A n \in 1..(l + 1) : Kind(n)' = "ended" => k \notin stream'[n].what
        BY <1>2, <3>1, <3>2 DEF Kind
    <3>4. l + 1 < (l + 1) + 1 /\ Kind(l + 1)' = "started" /\ k \in stream'[l + 1].what
        BY <1>2, <3>1 DEF Kind
    <3> QED
        BY <1>2, <3>3, <3>4 DEF TaskKnown
  <2> QED
      BY <2>1, <2>2
<1>11. ASSUME NEW n \in 1..(l + 1), n > l
       PROVE  /\ Kind(n)' \in {"started", "ended"} => stream'[n].what \subseteq 1..spawned'
              /\ Kind(n)' = "ended" => stream'[n].what # {} /\ \A k \in stream'[n].what : TaskKnown(k, n)'
              /\ Kind(n)' \in {"started", "wakeup", "result"} /\ Behind(n)' => Begun(n)'
              /\ Kind(n)' = "content" => Marked(n)' \/ WakeKnown(n)'
  <2>1. stream'[n] = m /\ n = l + 1 /\ Kind(n)' = m.kind
      BY <1>5, <1>11 DEF Kind
  <2>2. m.kind = "ended" => \A k \in m.what : TaskKnown(k, l + 1)'
      BY <1>1, <1>4, <1>7, <1>9 DEF TaskInv
  <2>3. m.kind # "ended" /\ Behind(l + 1)' => Begun(l + 1)'
      BY <1>1, <1>4, <1>7, <1>9 DEF BegunInv
  <2> QED
      BY <1>9, <2>1, <2>2, <2>3
<1>12. busy' /\ Behind((l + 1) + 1)' => Begun((l + 1) + 1)'
    BY <1>1, <1>4, <1>6 DEF BegunInv
<1>13. m.kind = "wakeup" => WakeKnown((l + 1) + 1)' /\ Marked((l + 1) + 1)'
  <2> SUFFICES ASSUME m.kind = "wakeup" PROVE WakeKnown((l + 1) + 1)' /\ Marked((l + 1) + 1)'
      OBVIOUS
  <2>1. l + 1 < (l + 1) + 1 /\ Kind(l + 1)' = "wakeup"
        /\ \A n \in 1..(l + 1) : ~(l + 1 < n) /\ (l + 1 <= n => n = l + 1)
      BY <1>2 DEF Kind
  <2>2. Together(l + 1, (l + 1) + 1)'
      BY <1>2, <2>1 DEF Together
  <2> QED
      BY <1>2, <2>1, <2>2 DEF WakeKnown, Marked
<1>14. (cliWake' => WakeKnown((l + 1) + 1)') /\ (cliWake' /\ busy' => Marked((l + 1) + 1)')
    BY <1>1, <1>4, <1>6, <1>9, <1>13 DEF WakeInv
<1>15. TaskInv' /\ BegunInv' /\ WakeInv'
    BY <1>1, <1>2, <1>3, <1>4, <1>8, <1>9, <1>10, <1>11, <1>12, <1>14, AddsWork
<1>16. stream' \in Seq(Messages) /\ \A n \in 1..(l + 1) : n > l => stream'[n].kind # "noop"
    BY <1>5, <1>9, StreamIs, Appended
<1>17. inbox = <<>> /\ phase \notin {"idle", "launched", "prompting", "ended", "validate"}
    BY Working
<1> QED
    BY <1>1, <1>2, <1>15, <1>16, <1>17, CliAdds

\* A response begins: to the prompt, to the end of a task, or to a wakeup.
LEMMA ResponseBegun ==
    ASSUME IInv, TaskInv, BegunInv, WakeInv,
           UNCHANGED <<tickets, phase, cycleEnded, cycleWoke, tracked, wakeTracked, spawned>>,
           NEW l \in Nat, l = Len(stream), NEW m \in Nat, m = Len(stream'), l < m,
           \A n \in 1..l : stream'[n] = stream[n],
           stream'[m].kind = "content",
           cliTasks' \subseteq cliTasks, cliWake' => cliWake,
           m = l + 1 =>
               /\ UNCHANGED cliTasks
               /\ (Marked(l + 1) /\ ~cliWake) \/ (~cliWake' /\ WakeKnown(l + 1)),
           m # l + 1 =>
               /\ m = l + 2
               /\ stream'[l + 1].kind = "ended"
               /\ \E k \in cliTasks : stream'[l + 1].what = {k} /\ cliTasks' = cliTasks \ {k}
    PROVE  TaskInv' /\ BegunInv' /\ WakeInv'
<1>1. /\ \A n \in 1..m : n > l => (n = m \/ (m = l + 2 /\ n = l + 1))
      /\ m \in 1..m /\ m > l /\ m < m + 1 /\ l <= m /\ l + 1 \in 1..(l + 1) /\ l + 1 \in 1..m
      /\ \A n \in 1..l : n \in 1..m
      /\ Kind(m)' = "content"
    BY DEF Kind
<1>2. \A n \in 1..m : n > l => Kind(n)' \in {"content", "ended"}
    BY <1>1 DEF Kind
<1>3. /\ Marked(l + 1) => Marked(l + 1)' /\ Marked(m + 1)'
      /\ WakeKnown(l + 1) => WakeKnown(m + 1)'
    <2>1. \A n \in 1..m : n > l => stream'[n].kind # "result"
        BY <1>2 DEF Kind
    <2> QED
        BY <1>1, <2>1, LongerStill
<1>4. /\ WakeKnown(l + 1) => WakeKnown(l + 1)'
      /\ \A k : TaskKnown(k, l + 1) => TaskKnown(k, l + 1)'
    BY <1>1, Longer
<1>5. spawned \in Nat /\ spawned' \in Nat /\ spawned <= spawned' /\ cliTasks' \subseteq 1..spawned'
    BY Bounds DEF IInv, Types, TurnTypes, CliTypes, TaskInv
<1>6. \A k \in cliTasks' : TaskKnown(k, m + 1)'
  <2> SUFFICES ASSUME NEW k \in cliTasks' PROVE TaskKnown(k, m + 1)'
      OBVIOUS
  <2>1. TaskKnown(k, l + 1)
      BY DEF TaskInv
  <2>2. \A n \in 1..m : n > l /\ stream'[n].kind = "ended" => k \notin stream'[n].what
      BY <1>1
  <2> QED
      BY <1>1, <2>1, <2>2, TasksLonger
<1>7. Begun(m + 1)'
  <2>1. Together(m, m + 1)'
    <3>1. \A n \in 1..m : m <= n => n = m
        OBVIOUS
    <3> QED
        BY <1>1, <3>1 DEF Together
  <2> QED
      BY <1>1, <2>1 DEF Begun
<1>8. m = l + 2 => Marked(m)' /\ Marked(m + 1)'
  <2> SUFFICES ASSUME m = l + 2 PROVE Marked(m)' /\ Marked(m + 1)'
      OBVIOUS
  <2>1. /\ Kind(l + 1)' = "ended" /\ l + 1 < m /\ l + 1 < m + 1
        /\ \A n \in 1..m : l + 1 <= n => Kind(n)' # "result"
      BY <1>2 DEF Kind
  <2>2. Together(l + 1, m)' /\ Together(l + 1, m + 1)'
      BY <2>1 DEF Together
  <2> QED
      BY <1>1, <2>1, <2>2 DEF Marked
<1>9. ASSUME NEW n \in 1..m, n > l
      PROVE  /\ Kind(n)' \in {"started", "ended"} => stream'[n].what \subseteq 1..spawned'
             /\ Kind(n)' = "ended" => stream'[n].what # {} /\ \A k \in stream'[n].what : TaskKnown(k, n)'
             /\ Kind(n)' \in {"started", "wakeup", "result"} /\ Behind(n)' => Begun(n)'
             /\ Kind(n)' = "content" => Marked(n)' \/ WakeKnown(n)'
  <2>1. CASE n = m
    <3>1. Marked(m)' \/ WakeKnown(m)'
        BY <1>1, <1>3, <1>4, <1>8
    <3> QED
        BY <1>1, <2>1, <3>1
  <2>2. CASE m = l + 2 /\ n = l + 1
    <3>1. PICK k \in cliTasks : stream'[n].what = {k}
        BY <2>2
    <3>2. Kind(n)' = "ended" /\ k \in 1..spawned /\ TaskKnown(k, n)'
        BY <1>4, <2>2, <3>1 DEF Kind, TaskInv
    <3> QED
        BY <1>5, <3>1, <3>2
  <2> QED
      BY <1>1, <1>9, <2>1, <2>2
<1>10. cliWake' => WakeKnown(m + 1)'
    BY <1>3 DEF WakeInv
<1>11. cliWake' /\ busy' => Marked(m + 1)'
    BY <1>1, <1>8
<1> QED
    BY <1>1, <1>5, <1>6, <1>7, <1>9, <1>10, <1>11, AddsWork

\* The steps of the CLI.
LEMMA CliWorks ==
    ASSUME IInv, Work, CliWork \/ CliJoin \/ CliSpawn \/ CliSchedule \/ CliExit
    PROVE  Work'
<1>1. /\ CliUnchanged /\ up /\ ~eof
      /\ UNCHANGED <<turn, phase, made, cycle, consumed, lastResult, tracked, wakeTracked>>
      /\ UNCHANGED <<invalidated, buffer, sending, tickets, cycleEnded, cycleWoke, up>>
  <2>1. CliUnchanged /\ up /\ ~eof
      BY DEF CliWork, CliBegin, CliResult, CliWakes, CliTaskEnd, CliJoin, CliSpawn, CliSchedule, CliExit,
             CliAlive
  <2> QED
      BY <2>1 DEF CliUnchanged, turnVars, readVars, trackVars, validVars, queryVars, ticketVars
<1>2. InboxInv /\ TaskInv /\ BegunInv /\ WakeInv
    BY <1>1 DEF Work
<1>3. AloneInv' /\ (~eof \/ up => ClosedInv')
  <2>1. AloneInv'
    <3>1. ~(phase = "leave")
        BY <1>1 DEF Work, AloneInv
    <3> QED
        BY <1>1, <3>1 DEF Work, AloneInv
  <2> QED
      BY <1>1, <2>1 DEF ClosedInv
<1>4. PICK l : l = Len(stream)
    OBVIOUS
<1>5. l \in Nat /\ l + 1 \in 1..(l + 1)
    BY <1>4, StreamIs
<1>6. CASE CliResult
    BY <1>6, ResultAdded
<1>7. CASE CliJoin
    BY <1>2, <1>7 DEF CliJoin, InboxInv, Still
<1>8. CASE CliExit
    BY <1>1, <1>3, <1>8 DEF CliExit, Work
<1>9. CASE CliSpawn
  <2>1. /\ UNCHANGED <<eof, inbox, busy, cliWake>> /\ busy
        /\ stream' = Append(stream, Message("started", {spawned + 1}))
        /\ spawned' = spawned + 1 /\ cliTasks' = cliTasks \cup {spawned + 1}
        /\ spawned < MaxTasks
      BY <1>9 DEF CliSpawn
  <2>2. spawned + 1 \in Tasks
      BY <2>1, Bounds DEF IInv, Types, TurnTypes, CliTypes, Tasks
  <2>3. Message("started", {spawned + 1}) \in Messages
      BY <2>2, Fitting
  <2>4. Message("started", {spawned + 1}).kind = "started" /\ Message("started", {spawned + 1}).what = {spawned + 1}
      BY DEF Message
  <2> QED
      BY <1>1, <2>1, <2>3, <2>4, NoteAdded
<1>10. CASE CliSchedule
  <2>1. /\ UNCHANGED <<eof, inbox, busy, cliTasks, spawned>> /\ busy
        /\ stream' = Append(stream, Message("wakeup", {}))
      BY <1>10 DEF CliSchedule
  <2>2. Message("wakeup", {}) \in Messages /\ Message("wakeup", {}).kind = "wakeup"
      BY Fitting DEF Message
  <2> QED
      BY <1>1, <2>1, <2>2, NoteAdded
<1>11. CASE CliBegin
  <2>1. /\ inbox # <<>> /\ inbox' = Tail(inbox) /\ stream' = Append(stream, Content)
        /\ UNCHANGED <<eof, cliTasks, spawned, cliWake>>
      BY <1>11 DEF CliBegin
  <2>2. tickets # <<>> /\ Still /\ phase \notin {"idle", "launched", "prompting", "ended", "validate"}
      BY <1>2, <2>1 DEF InboxInv
  <2>3. Content \in Messages /\ Content.kind = "content"
      BY Fitting DEF Content, Message
  <2>4. /\ Len(stream') = l + 1 /\ stream'[l + 1] = Content /\ l < l + 1
        /\ \A n \in 1..l : stream'[n] = stream[n] /\ n < l + 1
        /\ \A n \in 1..(l + 1) : n \in 1..l \/ n = l + 1
      BY <1>4, <2>1, <2>3, OneMore
  <2>5. Marked(l + 1) /\ ~cliWake
    <3>1. Together(1, l + 1)
        BY <1>4, <2>2 DEF Together, Still
    <3> QED
        BY <2>2, <3>1 DEF Marked, Credit, Still
  <2>6. TaskInv' /\ BegunInv' /\ WakeInv'
      BY <1>1, <1>2, <1>4, <1>5, <2>1, <2>3, <2>4, <2>5, ResponseBegun
  <2>7. InboxInv'
    <3>1. inbox' = <<>>
      <4>1. inbox \in Seq(1..made) /\ Len(inbox) \in Nat /\ Len(inbox) <= 1 /\ Len(inbox) # 0
          BY <1>2, <2>1, Members DEF IInv, Types, CliTypes, InboxInv
      <4>2. inbox' \in Seq(1..made) /\ Len(inbox') = Len(inbox) - 1
          BY <2>1, <4>1, Tailed
      <4>3. Len(inbox') = 0
          BY <4>1, <4>2
      <4> QED
          BY <4>2, <4>3, Members
    <3>2. \A n \in 1..(l + 1) : Kind(n)' = "noop" => n = 1
        BY <1>2, <1>4, <2>3, <2>4 DEF InboxInv, Kind
    <3> QED
        BY <1>1, <2>2, <2>4, <3>1, <3>2 DEF InboxInv
  <2> QED
      BY <1>1, <1>3, <2>6, <2>7 DEF Work
<1>12. CASE CliWakes
  <2>1. /\ stream' = Append(stream, Content) /\ cliWake /\ cliWake' = FALSE
        /\ UNCHANGED <<eof, inbox, cliTasks, spawned>>
      BY <1>12 DEF CliWakes
  <2>2. Content \in Messages /\ Content.kind = "content"
      BY Fitting DEF Content, Message
  <2>3. /\ Len(stream') = l + 1 /\ stream'[l + 1] = Content /\ l < l + 1 /\ l + 1 \in Nat
        /\ \A n \in 1..l : stream'[n] = stream[n] /\ n < l + 1
        /\ \A n \in 1..(l + 1) : n > l => n = l + 1
      BY <1>4, <2>1, <2>2, OneMore
  <2>4. WakeKnown(l + 1)
      BY <1>2, <1>4, <2>1 DEF WakeInv
  <2>5. TaskInv' /\ BegunInv' /\ WakeInv'
      BY <1>1, <1>2, <1>4, <1>5, <2>1, <2>2, <2>3, <2>4, ResponseBegun
  <2>6. stream' \in Seq(Messages) /\ \A n \in 1..(l + 1) : n > l => stream'[n].kind # "noop"
      BY <2>1, <2>2, <2>3, StreamIs, Appended
  <2> QED
      BY <1>1, <1>4, <1>5, <2>1, <2>3, <2>5, <2>6, Working, CliAdds
<1>13. ASSUME NEW k \in Tasks, CliTaskEnd(k) PROVE Work'
  <2> DEFINE e == Message("ended", {k})
  <2>1. PICK follows \in BOOLEAN :
            /\ k \in cliTasks /\ cliTasks' = cliTasks \ {k}
            /\ busy => ~follows
            /\ busy' = (busy \/ follows)
            /\ stream' = stream \o <<e>> \o (IF follows THEN <<Content>> ELSE <<>>)
            /\ UNCHANGED <<eof, inbox, spawned, cliWake>>
      BY <1>13 DEF CliTaskEnd
  <2>2. /\ e \in Messages /\ e.kind = "ended" /\ e.what = {k}
        /\ Content \in Messages /\ Content.kind = "content"
      BY Fitting DEF Content, Message
  <2> HIDE DEF e
  <2>3. stream \in Seq(Messages) /\ stream \o <<e>> = Append(stream, e) /\ Append(stream, e) \in Seq(Messages)
      BY <2>2, StreamIs
  <2>4. CASE ~follows
    <3>1. stream' = Append(stream, e)
        BY <2>1, <2>3, <2>4
    <3>2. busy' = busy
        BY <2>1, <2>4 DEF IInv, Types, CliTypes
    <3> QED
        BY <1>1, <2>1, <2>2, <3>1, <3>2, NoteAdded
  <2>5. CASE follows
    <3>1. stream' = Append(Append(stream, e), Content)
        BY <2>1, <2>2, <2>3, <2>5
    <3>2. /\ Len(stream') = l + 2 /\ stream'[l + 1] = e /\ stream'[l + 2] = Content
          /\ \A n \in 1..l : stream'[n] = stream[n]
          /\ stream' \in Seq(Messages)
      <4> DEFINE a == Append(stream, e)
      <4>1. a \in Seq(Messages) /\ Len(a) = l + 1 /\ a[l + 1] = e /\ \A n \in 1..l : a[n] = stream[n]
          BY <1>4, <2>2, <2>3, Appended
      <4> HIDE DEF a
      <4>2. stream' = Append(a, Content)
          BY <3>1 DEF a
      <4>3. /\ stream' \in Seq(Messages) /\ Len(stream') = (l + 1) + 1
            /\ stream'[(l + 1) + 1] = Content /\ \A n \in 1..(l + 1) : stream'[n] = a[n]
          BY <2>2, <4>1, <4>2, Appended
      <4> QED
          BY <1>5, <4>1, <4>3
    <3>3. l + 2 \in Nat /\ l < l + 2 /\ l + 2 # l + 1 /\ \A n \in 1..(l + 2) : n > l => n \in {l + 1, l + 2}
        BY <1>5
    <3>4. TaskInv' /\ BegunInv' /\ WakeInv'
        BY <1>1, <1>2, <1>4, <1>5, <2>1, <2>2, <3>2, <3>3, ResponseBegun
    <3>5. \A n \in 1..(l + 2) : n > l => stream'[n].kind # "noop"
        BY <2>2, <3>2, <3>3
    <3> QED
        BY <1>1, <1>4, <1>5, <2>1, <3>2, <3>3, <3>4, <3>5, Working, CliAdds
  <2> QED
      BY <2>4, <2>5
<1> QED
    BY <1>6, <1>7, <1>8, <1>9, <1>10, <1>11, <1>12, <1>13 DEF CliWork

\* Every step of a turn without steers keeps the accounts of its work.
LEMMA WorkStep == ASSUME IInv, IInv', Work, NoSteers, [Next]_vars PROVE Work'
<1>1. sending = {} /\ ~RoomForSteer
    BY NoRoom DEF Work, AloneInv
<1>2. CASE UNCHANGED vars
  <2>1. /\ UNCHANGED <<turn, made, tracked, sending, buffer, tickets, stream>>
        /\ UNCHANGED <<up, eof, inbox, busy, cliTasks, spawned, cliWake, wakeTracked>>
        /\ UNCHANGED <<phase, cycle, consumed, lastResult, cycleEnded, cycleWoke, invalidated>>
      BY <1>2 DEF vars, turnVars, readVars, trackVars, validVars, queryVars, ticketVars, cliVars
  <2>2. AloneInv'
      BY <2>1 DEF Work, AloneInv
  <2>3. phase \in {"idle", "launched", "prompting", "ended", "validate"} /\ up /\ ~eof => inbox = <<>> /\ Still
      BY DEF Work, InboxInv
  <2> QED
      BY <2>1, <2>2, <2>3, MovesWork DEF Credit
<1>3. CASE SteerEarly \/ SteerReturns \/ (\E interrupt \in BOOLEAN : SteerBegin(interrupt))
           \/ \E q \in sending : SteerFails(q)
    BY <1>1, <1>3 DEF SteerEarly, SteerReturns, SteerBegin
<1>4. CASE Launch \/ BeginPrompt \/ SendOwn
    BY <1>4, StartWork
<1>5. CASE CancelRow \/ NextCycle \/ StampWrite \/ StampCheck \/ StampClear
    BY <1>5, QuietWork
<1>6. CASE SendOwnFails \/ ErrorResult
    BY <1>6, EndsWork
<1>7. CASE ReadMessage
    BY <1>7, MessageWork
<1>8. CASE ReadEnds
    BY <1>8, EndsWork, QuietWork DEF ReadEnds
<1>9. CASE Conclude
    BY <1>9, EndsWork, QuietWork DEF Conclude
<1>10. CASE CliWork \/ CliJoin \/ CliSpawn \/ CliSchedule \/ CliExit
    BY <1>10, CliWorks
<1> QED
    BY <1>2, <1>3, <1>4, <1>5, <1>6, <1>7, <1>8, <1>9, <1>10 DEF Next, Reader, OwnSend

\* They hold when no turn has been made.
LEMMA WorkOpen == Init => Work
BY DEF Init, Work, AloneInv, ClosedInv

\* A turn without steers reads whatever its tasks and wakeups start, and what it leaves
\* behind explains every message and response that is still to come.
THEOREM WorkIsExplained == Spec => [](NoSteers => Work)
<1> DEFINE Explained == NoSteers => Work
<1>1. Init => IInv /\ Explained
    BY Initially, WorkOpen
<1>2. IInv /\ Explained /\ [Next]_vars => IInv' /\ Explained'
  <2> SUFFICES ASSUME IInv, Explained, [Next]_vars, NoSteers' PROVE Work'
      BY Step
  <2>1. NoSteers
      BY SettingStays DEF NoSteers, LastQuery, LastTurn
  <2> QED
      BY <2>1, Step, WorkStep
<1> HIDE DEF Explained
<1>3. Spec => [](IInv /\ Explained)
    BY <1>1, <1>2, PTL DEF Spec
<1> QED
    BY <1>3, PTL DEF Explained

\* A completed turn leaves the next one a clean stream, whichever tasks and wakeups it had,
\* unless steers and background work met in it (claude_sdk.py, _run_turn).
THEOREM HandOverIsClean == Spec => []CleanHandOver
<1>1. ASSUME IInv, NoSteers => Work, NoBackground => Books PROVE CleanHandOver
  <2> SUFFICES ASSUME Completed, up, ~eof, NoBackground \/ NoSteers
               PROVE  stream = <<>> /\ inbox = <<>> /\ ~busy /\ cliTasks = {} /\ ~cliWake
      BY DEF CleanHandOver, CliAlive
  <2>1. CASE NoBackground
      BY <1>1, <2>1, NoTasks, NothingOwed DEF Books, QuietInv
  <2>2. CASE NoSteers
    <3>1. tickets = <<>>
        BY <1>1 DEF Completed, IInv, TicketInv
    <3>2. inbox = <<>> /\ Still
        BY <1>1, <2>2 DEF Completed, Work, InboxInv
    <3> QED
        BY <1>1, <2>2, <3>1, <3>2, StreamEmpty DEF Still
  <2> QED
      BY <2>1, <2>2
<1> QED
    BY <1>1, Invariance, WorkIsExplained, BooksBalance, PTL

=============================================================================
