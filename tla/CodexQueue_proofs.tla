-------------------------- MODULE CodexQueue_proofs --------------------------
(***************************************************************************)
(* TLAPS proofs about CodexQueue, for any processes, any number of prompts *)
(* and any number of failures.                                             *)
(***************************************************************************)
EXTENDS CodexQueue, FunctionTheorems, SequenceTheorems, WellFoundedInduction, TLAPS

-----------------------------------------------------------------------------
(* The inductive invariant.                                                *)

\* The prompts in the file, and those that it marks as being started.
Listed == {file[n].id : n \in DOMAIN file}
Marked == {file[n].id : n \in {m \in DOMAIN file : Unexpired(file[m])}}

\* A drain task that works on a prompt.
Busy(p) == job[p]["drain"].pc \in {"start", "persist", "settle", "undo"}

\* The prompts that the server has not started, as far as anybody can know.
Fresh == {i \in Items : starts[i] = 0 \/ i \in excused}

FileItems == [id : Items, status : {"queued", "starting"}, stale : BOOLEAN]
Pcs == {"none", "check", "reserve", "start", "persist", "settle", "undo"}
Jobs == [pc : Pcs, id : Items \cup {NoItem}]

\* The file lists submitted prompts, in the order of their submission.
FileInv ==
    /\ file \in Seq(FileItems)
    /\ \A m, n \in DOMAIN file : m < n => file[m].id < file[n].id
    /\ \A n \in DOMAIN file : file[n].id <= made

\* The mark in the file is what keeps drain tasks apart: a busy task's prompt has it, and
\* no two prompts do.
DrainInv ==
    /\ \A i, j \in Marked : i = j
    /\ \A p \in Procs : Busy(p) => job[p]["drain"].id \in Marked
    /\ \A p, q \in Procs : Busy(p) /\ Busy(q) => p = q

\* A caller that starts a prompt directly has it for itself.
DirectInv ==
    /\ \A p \in Procs : LET d == job[p]["direct"] IN
          /\ d.pc \in {"none", "start", "persist"}
          /\ d.pc # "none" => d.id \in 1..made /\ d.id \notin Listed \cup cancelled
    /\ \A p, q \in Procs :
          /\ job[p]["direct"].pc # "none" /\ job[q]["direct"].pc # "none"
          /\ job[p]["direct"].id = job[q]["direct"].id
          => p = q

\* What the history says of a prompt, from who has it.
Taken ==
    {job[p]["drain"].id : p \in {q \in Procs : job[q]["drain"].pc \in {"persist", "settle"}}}
StartsInv ==
    /\ \A p \in Procs, s \in Slots :
          /\ job[p][s].pc \in {"start", "undo"} => job[p][s].id \in Fresh
          /\ job[p][s].pc \in {"persist", "settle"} => starts[job[p][s].id] > 0
    /\ \A i \in Items :
          /\ starts[i] > 1 => i \in excused
          /\ i > made => starts[i] = 0 /\ i \notin cancelled
          /\ i \in Listed => i \notin cancelled /\ i \in Fresh \cup Taken
          /\ i \in cancelled => i \in Fresh

\* The conjuncts of TypeOK, by what they are about.
JobTypes == job \in [Procs -> [Slots -> Jobs]]
RecordTypes == active \in Items \cup {NoItem} /\ old \in BOOLEAN
ProcTypes ==
    /\ alive \in [Procs -> BOOLEAN] /\ subscribed \subseteq Procs
    /\ tracked \in [Procs -> SUBSET Items] /\ notes \in [Procs -> SUBSET Items]
    /\ current \in [Procs -> Items \cup {NoItem}]
CountTypes ==
    /\ running \subseteq Items /\ cancelled \subseteq Items /\ excused \subseteq Items
    /\ starts \in [Items -> Nat]
    /\ made \in 0..MaxItems /\ troubles \in 0..MaxTroubles
Types == JobTypes /\ RecordTypes /\ ProcTypes /\ CountTypes

IInv == Types /\ FileInv /\ DrainInv /\ DirectInv /\ StartsInv

-----------------------------------------------------------------------------
(* Lemmas about the file.                                                  *)

LEMMA TypeParts == Types /\ FileInv => TypeOK
BY DEF Types, JobTypes, RecordTypes, ProcTypes, CountTypes, FileInv, FileItems, Jobs, Pcs, TypeOK

\* A set of numbers that is not empty has a least element.
LEMMA Least ==
    ASSUME NEW S \in SUBSET Nat, S # {}
    PROVE  \E n \in S : \A m \in S : n <= m
<1> DEFINE R == {ss \in Nat \X Nat : ss[1] < ss[2]}
<1>1. IsWellFoundedOn(R, Nat)
    BY NatLessThanWellFounded, Zenon DEF OpToRel
<1>2. PICK x \in S : \A y \in S : ~ (<<y, x>> \in R)
  <2> HIDE DEF R
  <2> QED
      BY <1>1, WFMin
<1>3. ASSUME NEW y \in S PROVE x <= y
  <2>1. <<y, x>> \notin R
      BY <1>2
  <2>2. <<y, x>> \in R <=> y < x
      OBVIOUS
  <2> QED
      BY <2>1, <2>2
<1> QED
    BY <1>3

\* The file as a function, and that it names a prompt once.
LEMMA FileShape ==
    ASSUME FileInv
    PROVE  /\ Len(file) \in Nat /\ DOMAIN file = 1..Len(file)
           /\ \A n \in 1..Len(file) :
                 /\ file[n] \in FileItems
                 /\ file[n].id \in Items /\ file[n].status \in {"queued", "starting"}
           /\ \A m, n \in 1..Len(file) : file[m].id = file[n].id => m = n
<1>1. Len(file) \in Nat /\ DOMAIN file = 1..Len(file) /\ file \in [1..Len(file) -> FileItems]
    BY LenProperties DEF FileInv
<1>2. \A n \in 1..Len(file) :
         /\ file[n] \in FileItems
         /\ file[n].id \in Items /\ file[n].status \in {"queued", "starting"}
    BY <1>1 DEF FileItems
<1>3. ASSUME NEW m \in 1..Len(file), NEW n \in 1..Len(file), file[m].id = file[n].id
      PROVE  m = n
  <2>1. file[m].id \in Int /\ file[n].id \in Int
      BY <1>2 DEF Items
  <2>2. ~ (m < n) /\ ~ (n < m)
      BY <1>1, <1>3, <2>1 DEF FileInv
  <2> QED
      BY <2>2
<1> QED
    BY <1>1, <1>2, <1>3

\* Append: the new prompt is the last one, and nobody is starting it.
LEMMA AppendedFile ==
    ASSUME FileInv, made \in Nat, made' = made + 1, made' \in Items,
           file' = Append(file, QueuedTurn(made + 1))
    PROVE  /\ FileInv'
           /\ Listed' = Listed \cup {made'} /\ Marked' = Marked
<1> DEFINE L == Len(file)
           x == QueuedTurn(made + 1)
<1>1. L \in Nat /\ DOMAIN file = 1..L /\ \A n \in 1..L : file[n].id \in Items
    BY FileShape
<1>2. x \in FileItems /\ x.id = made' /\ x.status = "queued"
    BY DEF QueuedTurn, FileItems
<1>3. /\ file' \in Seq(FileItems) /\ Len(file') = L + 1
      /\ \A n \in 1..L : file'[n] = file[n]
      /\ file'[L + 1] = x
    BY <1>2, AppendProperties DEF FileInv
<1>4. DOMAIN file' = 1..(L + 1)
    BY <1>3, LenProperties
<1> HIDE DEF x, L
<1>5. FileInv'
  <2>1. \A n \in 1..L : file[n].id <= made /\ file[n].id \in Int
      BY <1>1 DEF FileInv, Items
  <2>2. \A m, n \in 1..L : m < n => file[m].id < file[n].id
      BY <1>1 DEF FileInv
  <2>3. \A n \in 1..(L + 1) : n \in 1..L \/ n = L + 1
      BY <1>1
  <2>4. ASSUME NEW m \in 1..(L + 1), NEW n \in 1..(L + 1), m < n
        PROVE  file'[m].id < file'[n].id
    <3>1. m \in 1..L
        BY <1>1, <2>4
    <3> QED
        BY <1>2, <1>3, <2>1, <2>2, <2>3, <2>4, <3>1
  <2>5. \A n \in 1..(L + 1) : file'[n].id <= made'
      BY <1>2, <1>3, <2>1, <2>3
  <2> QED
      BY <1>3, <1>4, <2>4, <2>5 DEF FileInv
<1>6. \A n \in 1..(L + 1) : n \in 1..L \/ n = L + 1
    BY <1>1
<1>7. 1..L \subseteq 1..(L + 1) /\ L + 1 \in 1..(L + 1)
    BY <1>1
<1>8. Listed' = Listed \cup {made'}
    BY <1>1, <1>2, <1>3, <1>4, <1>6, <1>7 DEF Listed
<1>9. Marked' = Marked
    BY <1>1, <1>2, <1>3, <1>4, <1>6, <1>7 DEF Marked, Unexpired
<1> QED
    BY <1>5, <1>8, <1>9

\* Remaining: one item fewer.
LEMMA RemainingFile ==
    ASSUME FileInv, NEW i, InFile(i), made' = made, file' = Remaining(i)
    PROVE  /\ FileInv'
           /\ Listed' = Listed \ {i} /\ Marked' = Marked \ {i}
           /\ file' = <<>> => Listed = {i}
<1> DEFINE L == Len(file)
           k == Position(i)
           front == SubSeq(file, 1, k - 1)
           back == SubSeq(file, k + 1, L)
<1>1. /\ L \in Nat /\ DOMAIN file = 1..L
      /\ \A n \in 1..L : file[n] \in FileItems /\ file[n].id \in Items
      /\ \A m, n \in 1..L : file[m].id = file[n].id => m = n
    BY FileShape
<1>2. k \in 1..L /\ file[k].id = i
    BY <1>1 DEF InFile, Position
<1>3. file' = front \o back
    BY DEF Remaining, RemoveAt
<1> HIDE DEF k
<1>4. /\ front \in Seq(FileItems) /\ Len(front) = k - 1
      /\ \A n \in 1..(k - 1) : front[n] = file[n]
  <2>1. \A n \in 1..(k - 1) : file[n] \in FileItems
      BY <1>1, <1>2
  <2>2. /\ front \in Seq(FileItems)
        /\ Len(front) = IF 1 <= k - 1 THEN k - 1 - 1 + 1 ELSE 0
        /\ \A n \in 1..(k - 1 - 1 + 1) : front[n] = file[1 + n - 1]
      BY <1>1, <1>2, <2>1, SubSeqProperties
  <2> HIDE DEF front
  <2> QED
      BY <1>1, <1>2, <2>2
<1>5. /\ back \in Seq(FileItems) /\ Len(back) = L - k
      /\ \A n \in 1..(L - k) : back[n] = file[k + n]
  <2>1. \A n \in (k + 1)..L : file[n] \in FileItems
      BY <1>1, <1>2
  <2>2. /\ back \in Seq(FileItems)
        /\ Len(back) = IF k + 1 <= L THEN L - (k + 1) + 1 ELSE 0
        /\ \A n \in 1..(L - (k + 1) + 1) : back[n] = file[k + 1 + n - 1]
      BY <1>1, <1>2, <2>1, SubSeqProperties
  <2> HIDE DEF back
  <2>k. k \in Int /\ L \in Int /\ k <= L
      BY <1>1, <1>2
  <2>3. L - (k + 1) + 1 = L - k
      BY <2>k
  <2>5. ~ (k + 1 <= L) => L - k = 0
      BY <2>k
  <2>6. \A n \in 1..(L - k) : k + 1 + n - 1 = k + n
      BY <2>k
  <2>7. Len(back) = L - k
      BY <2>2, <2>3, <2>5
  <2>8. \A n \in 1..(L - k) : back[n] = file[k + n]
      BY <2>2, <2>3, <2>6
  <2> QED
      BY <2>2, <2>7, <2>8
<1> HIDE DEF front, back, L
<1>6. /\ file' \in Seq(FileItems) /\ Len(file') = L - 1
      /\ \A n \in 1..(L - 1) : file'[n] = IF n < k THEN file[n] ELSE file[n + 1]
  <2>1. /\ file' \in Seq(FileItems) /\ Len(file') = (k - 1) + (L - k)
        /\ \A n \in 1..((k - 1) + (L - k)) :
              file'[n] = IF n <= k - 1 THEN front[n] ELSE back[n - (k - 1)]
      BY <1>3, <1>4, <1>5, ConcatProperties
  <2> QED
      BY <1>1, <1>2, <1>4, <1>5, <2>1
<1>7. DOMAIN file' = 1..(L - 1)
    BY <1>6, LenProperties
\* Where the items come from, and where they go.
<1>8. \A n \in 1..(L - 1) : \E m \in 1..L : file'[n] = file[m] /\ m # k /\ n <= m
    BY <1>1, <1>2, <1>6
<1>9. \A m \in 1..L : m # k => \E n \in 1..(L - 1) : file'[n] = file[m]
  <2> SUFFICES ASSUME NEW m \in 1..L, m # k PROVE \E n \in 1..(L - 1) : file'[n] = file[m]
      OBVIOUS
  <2>1. CASE m < k
      BY <1>1, <1>2, <1>6, <2>1
  <2>2. CASE m > k
    <3>1. m - 1 \in 1..(L - 1) /\ ~ (m - 1 < k) /\ (m - 1) + 1 = m
        BY <1>1, <1>2, <2>2
    <3> QED
        BY <1>6, <3>1
  <2> QED
      BY <1>1, <1>2, <2>1, <2>2
<1>10. FileInv'
  <2>1. \A m, n \in 1..(L - 1) : m < n => file'[m].id < file'[n].id
    <3> SUFFICES ASSUME NEW m \in 1..(L - 1), NEW n \in 1..(L - 1), m < n
                 PROVE  file'[m].id < file'[n].id
        OBVIOUS
    <3>1. PICK a \in 1..L, b \in 1..L : file'[m] = file[a] /\ file'[n] = file[b] /\ a < b
        BY <1>1, <1>2, <1>6
    <3> QED
        BY <1>1, <3>1 DEF FileInv
  <2>2. \A n \in 1..(L - 1) : file'[n].id <= made'
      BY <1>1, <1>8 DEF FileInv
  <2> QED
      BY <1>6, <1>7, <2>1, <2>2 DEF FileInv
<1>11. Listed' = Listed \ {i}
  <2>1. ASSUME NEW j \in Listed' PROVE j \in Listed \ {i}
    <3>1. PICK n \in 1..(L - 1) : file'[n].id = j
        BY <1>7, <2>1 DEF Listed
    <3>2. PICK m \in 1..L : file'[n] = file[m] /\ m # k
        BY <1>8
    <3> QED
        BY <1>1, <1>2, <3>1, <3>2 DEF Listed
  <2>2. ASSUME NEW j \in Listed \ {i} PROVE j \in Listed'
    <3>1. PICK m \in 1..L : file[m].id = j
        BY <1>1, <2>2 DEF Listed
    <3>2. PICK n \in 1..(L - 1) : file'[n] = file[m]
        BY <1>2, <1>9, <2>2, <3>1
    <3> QED
        BY <1>7, <3>1, <3>2 DEF Listed
  <2> QED
      BY <2>1, <2>2
<1>12. Marked' = Marked \ {i}
  <2>1. ASSUME NEW j \in Marked' PROVE j \in Marked \ {i}
    <3>1. PICK n \in 1..(L - 1) : file'[n].id = j /\ Unexpired(file'[n])
        BY <1>7, <2>1 DEF Marked, Unexpired
    <3>2. PICK m \in 1..L : file'[n] = file[m] /\ m # k
        BY <1>8
    <3> QED
        BY <1>1, <1>2, <3>1, <3>2 DEF Marked
  <2>2. ASSUME NEW j \in Marked \ {i} PROVE j \in Marked'
    <3>1. PICK m \in 1..L : file[m].id = j /\ Unexpired(file[m])
        BY <1>1, <2>2 DEF Marked
    <3>2. PICK n \in 1..(L - 1) : file'[n] = file[m]
        BY <1>2, <1>9, <2>2, <3>1
    <3> QED
        BY <1>7, <3>1, <3>2 DEF Marked, Unexpired
  <2> QED
      BY <2>1, <2>2
<1>13. ASSUME file' = <<>> PROVE Listed = {i}
  <2>1. L - 1 = 0
      BY <1>6, <1>13, EmptySeq
  <2>2. L = 1 /\ k = 1
      BY <1>1, <1>2, <2>1
  <2> QED
      BY <1>1, <1>2, <2>2 DEF Listed
<1> QED
    BY <1>10, <1>11, <1>12, <1>13

\* An item is replaced in its place, by one for the same prompt.
LEMMA ReplacedFile ==
    ASSUME FileInv, NEW k \in DOMAIN file, NEW x \in FileItems, x.id = file[k].id,
           made' = made, file' = SetItem(k, x)
    PROVE  /\ FileInv'
           /\ Listed' = Listed
           /\ Marked' = IF Unexpired(x) THEN Marked \cup {x.id} ELSE Marked \ {x.id}
<1> DEFINE L == Len(file)
<1>1. /\ L \in Nat /\ DOMAIN file = 1..L
      /\ \A m, n \in 1..L : file[m].id = file[n].id => m = n
    BY FileShape
<1>2. /\ file' \in Seq(FileItems) /\ Len(file') = L
      /\ \A n \in 1..L : file'[n] = IF n = k THEN x ELSE file[n]
    BY <1>1, ExceptSeq DEF FileInv, SetItem
<1>3. DOMAIN file' = 1..L
    BY <1>2, LenProperties
<1>4. \A n \in 1..L : file'[n].id = file[n].id
    BY <1>2
<1>5. FileInv'
    BY <1>1, <1>2, <1>3, <1>4 DEF FileInv
<1>6. Listed' = Listed
    BY <1>1, <1>3, <1>4 DEF Listed
<1>7. Marked' = IF Unexpired(x) THEN Marked \cup {x.id} ELSE Marked \ {x.id}
    BY <1>1, <1>2, <1>3, <1>4 DEF Marked, Unexpired
<1> QED
    BY <1>5, <1>6, <1>7

\* The first item that can be started is one that can be started.
LEMMA FirstTakeable ==
    ASSUME FileInv
    PROVE  LET takeable == {n \in DOMAIN file : Startable(file[n])}
               first == CHOOSE n \in takeable : \A m \in takeable : n <= m
           IN  takeable # {} => first \in DOMAIN file
<1> DEFINE takeable == {n \in DOMAIN file : Startable(file[n])}
<1>1. takeable \in SUBSET Nat
    BY FileShape
<1>2. takeable \subseteq DOMAIN file
    OBVIOUS
<1> HIDE DEF takeable
<1>3. takeable # {} => \E n \in takeable : \A m \in takeable : n <= m
    BY <1>1, Least
<1>4. takeable # {} => (CHOOSE n \in takeable : \A m \in takeable : n <= m) \in DOMAIN file
    BY <1>2, <1>3
<1> QED
    BY <1>4 DEF takeable

LEMMA PositionInFile ==
    ASSUME FileInv, NEW i, InFile(i)
    PROVE  Position(i) \in DOMAIN file /\ file[Position(i)].id = i
BY DEF InFile, Position

LEMMA Views ==
    ASSUME FileInv
    PROVE  /\ Marked \subseteq Listed /\ Listed \subseteq Items
           /\ \A i \in Listed : i <= made
           /\ \A i : InFile(i) <=> i \in Listed
           /\ \A n \in DOMAIN file :
                 /\ file[n].id \in Listed
                 /\ file[n].id \in Marked <=> Unexpired(file[n])
BY FileShape DEF Listed, Marked, InFile, FileInv

-----------------------------------------------------------------------------
(* Initially.                                                              *)

LEMMA InitIInv == Init => IInv
<1> SUFFICES ASSUME Init PROVE IInv
    OBVIOUS
<1>1. \A p \in Procs, s \in Slots : job[p][s].pc = "none" /\ job[p][s].id = NoItem
    BY DEF Init, Idle
<1>2. Types
  <2>1. JobTypes
      BY DEF Init, JobTypes, Jobs, Pcs, Idle
  <2>2. RecordTypes /\ ProcTypes
      BY DEF Init, RecordTypes, ProcTypes
  <2>3. CountTypes
      BY QueueAssumption DEF Init, CountTypes
  <2> QED
      BY <2>1, <2>2, <2>3 DEF Types
<1>3. FileInv /\ Listed = {} /\ Marked = {}
  <2>1. file = <<>> /\ DOMAIN file = {}
      BY DEF Init
  <2> QED
      BY <2>1, EmptySeq DEF FileInv, Listed, Marked
<1>4. DrainInv /\ DirectInv
    BY <1>1, <1>3 DEF DrainInv, DirectInv, Busy, Slots
<1>5. StartsInv
    BY <1>1, <1>3 DEF Init, StartsInv, Fresh
<1> QED
    BY <1>2, <1>3, <1>4, <1>5 DEF IInv

-----------------------------------------------------------------------------
(* Types.                                                                  *)

LEMMA JobShape ==
    ASSUME JobTypes
    PROVE  \A p \in Procs, s \in Slots :
              job[p][s] \in Jobs /\ job[p][s].id \in Items \cup {NoItem}
BY DEF JobTypes, Jobs

\* One job changes, to a record that is a job.
JobSet(p, s, r) == job' = [job EXCEPT ![p][s] = r]

LEMMA JobReplaced ==
    ASSUME JobTypes, NEW p \in Procs, NEW s \in Slots, NEW r \in Jobs,
           JobSet(p, s, r)
    PROVE  /\ JobTypes'
           /\ \A q \in Procs, u \in Slots :
                 job'[q][u] = IF q = p /\ u = s THEN r ELSE job[q][u]
<1>1. job' = [job EXCEPT ![p] = [job[p] EXCEPT ![s] = r]] /\ job[p] \in [Slots -> Jobs]
    BY DEF JobTypes, JobSet
<1>2. [job[p] EXCEPT ![s] = r] \in [Slots -> Jobs]
    BY <1>1
<1> QED
    BY <1>1, <1>2 DEF JobTypes

\* A job moves on with its prompt.
JobStep(p, s, pc) == job' = [job EXCEPT ![p][s].pc = pc]

LEMMA JobMoved ==
    ASSUME JobTypes, NEW p \in Procs, NEW s \in Slots,
           NEW pc \in Pcs, JobStep(p, s, pc)
    PROVE  /\ JobTypes'
           /\ \A q \in Procs, u \in Slots :
                 /\ job'[q][u].pc = IF q = p /\ u = s THEN pc ELSE job[q][u].pc
                 /\ job'[q][u].id = job[q][u].id
<1> DEFINE r == [job[p][s] EXCEPT !.pc = pc]
<1>1. r \in Jobs /\ r.pc = pc /\ r.id = job[p][s].id
  <2>1. job[p][s] \in Jobs
      BY JobShape
  <2> QED
      BY <2>1 DEF Jobs
<1>2. JobSet(p, s, r)
    BY DEF JobSet, JobStep
<1> HIDE DEF r
<1>3. /\ JobTypes'
      /\ \A q \in Procs, u \in Slots :
            job'[q][u] = IF q = p /\ u = s THEN r ELSE job[q][u]
    BY <1>1, <1>2, JobReplaced
<1> QED
    BY <1>1, <1>3

LEMMA ScheduledJobs ==
    ASSUME JobTypes, NEW p \in Procs, job' = Scheduled(p)
    PROVE  /\ JobTypes'
           /\ \A q \in Procs, u \in Slots :
                 /\ job'[q][u].pc = IF q = p /\ u = "drain" /\ job[p]["drain"].pc = "none"
                                    THEN "check" ELSE job[q][u].pc
                 /\ job'[q][u].id = job[q][u].id
<1>1. "drain" \in Slots /\ "check" \in Pcs
    BY DEF Slots, Pcs
<1>2. CASE job[p]["drain"].pc = "none"
  <2>1. JobStep(p, "drain", "check")
      BY <1>2 DEF Scheduled, JobStep
  <2>2. /\ JobTypes'
        /\ \A q \in Procs, u \in Slots :
              /\ job'[q][u].pc = IF q = p /\ u = "drain" THEN "check" ELSE job[q][u].pc
              /\ job'[q][u].id = job[q][u].id
      BY <1>1, <2>1, JobMoved
  <2> QED
      BY <1>2, <2>2
<1>3. CASE job[p]["drain"].pc # "none"
    BY <1>3 DEF Scheduled, JobTypes
<1> QED
    BY <1>2, <1>3

LEMMA AfterJobs ==
    ASSUME JobTypes, NEW p \in Procs, NEW s \in Slots,
           NEW pc \in {"settle", "undo"}, job' = After(p, s, pc)
    PROVE  /\ JobTypes'
           /\ \A q \in Procs, u \in Slots :
                 IF q = p /\ u = s
                 THEN IF s = "direct" THEN job'[q][u] = Idle
                      ELSE job'[q][u].pc = pc /\ job'[q][u].id = job[q][u].id
                 ELSE job'[q][u] = job[q][u]
<1> DEFINE r == IF s = "direct" THEN Idle ELSE [job[p][s] EXCEPT !.pc = pc]
<1>1. r \in Jobs /\ (s # "direct" => r.pc = pc /\ r.id = job[p][s].id)
  <2>1. job[p][s] \in Jobs /\ pc \in Pcs /\ "none" \in Pcs
      BY JobShape DEF Pcs
  <2> QED
      BY <2>1 DEF Jobs, Idle
<1>2. JobSet(p, s, r)
    BY DEF After, JobSet
<1>3. s = "direct" => r = Idle
    OBVIOUS
<1> HIDE DEF r
<1>4. /\ JobTypes'
      /\ \A q \in Procs, u \in Slots :
            job'[q][u] = IF q = p /\ u = s THEN r ELSE job[q][u]
    BY <1>1, <1>2, JobReplaced
<1> QED
    BY <1>1, <1>3, <1>4

LEMMA NewestTypes ==
    ASSUME RecordTypes, ProcTypes, NEW i \in Items, NEW hearers, Newest(i, hearers)
    PROVE  /\ RecordTypes' /\ tracked' \in [Procs -> SUBSET Items]
           /\ current' \in [Procs -> Items \cup {NoItem}]
BY DEF Newest, RecordTypes, ProcTypes, recordVars

-----------------------------------------------------------------------------
(* Kinds of steps.                                                         *)

\* What a step that starts nothing may do to a drain task: leave it, or stop a task that has
\* nothing or whose prompt is out of the file or may be started again; and to a caller's
\* start: leave it or end it.
LeftAlone(p) ==
    /\ \/ job'[p]["direct"].pc = "none"
       \/ /\ job'[p]["direct"].pc = job[p]["direct"].pc
          /\ job'[p]["direct"].id = job[p]["direct"].id
    /\ \/ /\ job'[p]["drain"].pc = job[p]["drain"].pc
          /\ job'[p]["drain"].id = job[p]["drain"].id
          /\ Busy(p) => job[p]["drain"].id \in Marked'
       \/ /\ job'[p]["drain"].pc \in {"none", "check", "reserve"}
          /\ Busy(p) => LET i == job[p]["drain"].id IN
                        i \notin Listed' \/ starts'[i] = 0 \/ i \in excused'

\* A step that starts nothing: prompts leave the file, some of them cancelled.
LEMMA NothingStarts ==
    ASSUME IInv, Types', FileInv', made' = made, starts' = starts, excused \subseteq excused',
           Listed' \subseteq Listed, Marked' \subseteq Marked,
           cancelled' \subseteq cancelled \cup (Fresh \cap (Listed \ Listed')),
           \A p \in Procs : LeftAlone(p)
    PROVE  IInv'
<1>1. DrainInv'
  <2>1. \A p \in Procs : Busy(p)' => Busy(p) /\ job'[p]["drain"].id \in Marked'
      BY DEF LeftAlone, Busy
  <2>2. \A i, j \in Marked' : i = j
      BY DEF IInv, DrainInv
  <2> QED
      BY <2>1, <2>2 DEF IInv, DrainInv
<1>2. DirectInv'
  <2>1. \A p \in Procs : job'[p]["direct"].pc # "none" =>
            job'[p]["direct"].pc = job[p]["direct"].pc /\ job'[p]["direct"].id = job[p]["direct"].id
      BY DEF LeftAlone
  <2> QED
      BY <2>1 DEF IInv, DirectInv
<1>3. StartsInv'
  <2>1. Fresh \subseteq Fresh'
      BY DEF Fresh
  <2>2. ASSUME NEW p \in Procs, NEW s \in Slots
        PROVE  /\ job'[p][s].pc \in {"start", "undo"} => job'[p][s].id \in Fresh'
               /\ job'[p][s].pc \in {"persist", "settle"} => starts'[job'[p][s].id] > 0
    <3>1. \/ job'[p][s].pc \in {"none", "check", "reserve"}
          \/ job'[p][s].pc = job[p][s].pc /\ job'[p][s].id = job[p][s].id
        BY DEF LeftAlone, Slots
    <3> QED
        BY <2>1, <3>1 DEF IInv, StartsInv
  <2>3. ASSUME NEW i \in Items
        PROVE  /\ starts'[i] > 1 => i \in excused'
               /\ i > made' => starts'[i] = 0 /\ i \notin cancelled'
               /\ i \in Listed' => i \notin cancelled'
               /\ i \in cancelled' => i \in Fresh'
    <3>1. i \in Listed => i <= made /\ i \in Int /\ made \in Int
        BY Views DEF IInv, Items, Types, CountTypes
    <3>2. /\ starts[i] > 1 => i \in excused
          /\ i > made => starts[i] = 0 /\ i \notin cancelled
          /\ i \in Listed => i \notin cancelled
          /\ i \in cancelled => i \in Fresh
        BY DEF IInv, StartsInv
    <3>3. i \in cancelled' => i \in cancelled \/ (i \in Fresh /\ i \in Listed /\ i \notin Listed')
        OBVIOUS
    <3> QED
        BY <2>1, <3>1, <3>2, <3>3
  <2>4. ASSUME NEW i \in Items, i \in Listed' PROVE i \in Fresh' \cup Taken'
    <3>1. CASE i \in Fresh
        BY <2>1, <3>1
    <3>2. CASE i \in Taken
      <4>1. PICK p \in Procs :
                job[p]["drain"].pc \in {"persist", "settle"} /\ job[p]["drain"].id = i
          BY <3>2 DEF Taken
      <4>2. \/ /\ job'[p]["drain"].pc = job[p]["drain"].pc
               /\ job'[p]["drain"].id = job[p]["drain"].id
            \/ i \in Fresh'
          BY <2>4, <4>1 DEF LeftAlone, Fresh, Busy
      <4> QED
          BY <4>1, <4>2 DEF Taken
    <3> QED
        BY <2>4, <3>1, <3>2 DEF IInv, StartsInv
  <2> QED
      BY <2>2, <2>3, <2>4 DEF StartsInv
<1> QED
    BY <1>1, <1>2, <1>3 DEF IInv

\* A drain task goes on with the prompt it works on.
LEMMA DrainAdvances ==
    ASSUME IInv, Types', UNCHANGED <<file, made, starts, cancelled>>, excused \subseteq excused',
           NEW p \in Procs, Busy(p), job'[p]["drain"].id = job[p]["drain"].id,
           \/ job'[p]["drain"].pc = "undo" /\ job[p]["drain"].id \in Fresh'
           \/ job'[p]["drain"].pc = "settle" /\ starts[job[p]["drain"].id] > 0,
           \A q \in Procs, u \in Slots : q # p \/ u # "drain" => job'[q][u] = job[q][u]
    PROVE  IInv'
<1>1. FileInv' /\ Listed' = Listed /\ Marked' = Marked
    BY DEF IInv, FileInv, Listed, Marked, Unexpired
<1>2. \A q \in Procs : /\ job'[q]["drain"].id = job[q]["drain"].id
                       /\ Busy(q)' <=> Busy(q)
                       /\ job'[q]["direct"] = job[q]["direct"]
    BY DEF Busy, Slots
<1>3. DrainInv' /\ DirectInv'
    BY <1>1, <1>2 DEF IInv, DrainInv, DirectInv
<1>4. Fresh \subseteq Fresh'
    BY DEF Fresh
<1>5. Taken \subseteq Taken' \cup Fresh'
    BY <1>2 DEF Taken, Slots
<1>6. ASSUME NEW q \in Procs, NEW s \in Slots
      PROVE  /\ job'[q][s].pc \in {"start", "undo"} => job'[q][s].id \in Fresh'
             /\ job'[q][s].pc \in {"persist", "settle"} => starts'[job'[q][s].id] > 0
    BY <1>4 DEF IInv, StartsInv
<1>7. StartsInv'
    BY <1>1, <1>4, <1>5, <1>6 DEF IInv, StartsInv
<1> QED
    BY <1>1, <1>3, <1>7 DEF IInv

-----------------------------------------------------------------------------
(* The actions.                                                            *)

\* What the invariant says of the jobs of a process.
LEMMA JobFacts ==
    ASSUME IInv, NEW p \in Procs
    PROVE  /\ Busy(p) => job[p]["drain"].id \in Marked /\ job[p]["drain"].id \in Items
           /\ job[p]["direct"].pc # "none" =>
                 /\ job[p]["direct"].id \in 1..made /\ job[p]["direct"].id \in Items
                 /\ job[p]["direct"].id \notin Listed \cup cancelled
           /\ \A s \in Slots : job[p][s].pc \in {"start", "persist", "settle", "undo"} =>
                 job[p][s].id \in Items
<1>1. Marked \subseteq Items /\ made \in 0..MaxItems /\ MaxItems \in Nat
    BY Views, QueueAssumption DEF IInv, Types, CountTypes
<1>2. Busy(p) => job[p]["drain"].id \in Marked
    BY DEF IInv, DrainInv
<1>3. job[p]["direct"].pc # "none" =>
          job[p]["direct"].id \in 1..made /\ job[p]["direct"].id \notin Listed \cup cancelled
    BY DEF IInv, DirectInv
<1>4. 1..made \subseteq Items
    BY <1>1 DEF Items
<1> QED
    BY <1>1, <1>2, <1>3, <1>4 DEF Busy, Slots

\* The file is the same.
LEMMA SameFile ==
    ASSUME FileInv, file' = file, made' = made
    PROVE  FileInv' /\ Listed' = Listed /\ Marked' = Marked
BY DEF FileInv, Listed, Marked, Unexpired

LEMMA SubmitStep == ASSUME IInv, NEW p \in Procs, Submit(p) PROVE IInv'
<1>1. /\ made < MaxItems /\ made' = made + 1 /\ made \in Nat /\ MaxItems \in Nat
      /\ UNCHANGED <<active, old, tracked, current, alive, running, subscribed, notes, starts,
                     troubles, cancelled, excused>>
    BY QueueAssumption DEF Submit, IInv, Types, CountTypes, recordVars, serverVars, historyVars
<1>2. RecordTypes' /\ ProcTypes' /\ CountTypes' /\ made' \in Items
    BY <1>1 DEF IInv, Types, RecordTypes, ProcTypes, CountTypes, Items
<1>3. Fresh' = Fresh /\ made' \in Fresh /\ made' \notin cancelled /\ made' \notin Listed
    BY <1>1, <1>2, Views DEF Fresh, IInv, StartsInv
<1>4. \A i \in Items : i > made' => i > made
    BY <1>1 DEF Items
<1>5. 1..made \subseteq 1..made' /\ made' \notin 1..made /\ made' \in 1..made'
    BY <1>1
\* The prompt is queued.
<1>6. ASSUME ThreadHasActiveTurn(p), job' = Scheduled(p), file' = Append(file, QueuedTurn(made + 1))
      PROVE  IInv'
  <2>1. FileInv' /\ Listed' = Listed \cup {made'} /\ Marked' = Marked
      BY <1>1, <1>2, <1>6, AppendedFile DEF IInv
  <2>2. /\ JobTypes'
        /\ \A q \in Procs, u \in Slots :
              /\ job'[q][u].pc = IF q = p /\ u = "drain" /\ job[p]["drain"].pc = "none"
                                 THEN "check" ELSE job[q][u].pc
              /\ job'[q][u].id = job[q][u].id
      BY <1>6, ScheduledJobs DEF IInv, Types
  <2>3. \A q \in Procs : Busy(q)' <=> Busy(q)
      BY <2>2 DEF Busy, Slots
  <2>4. DrainInv'
      BY <2>1, <2>2, <2>3 DEF IInv, DrainInv, Slots
  <2>5. \A q \in Procs : /\ job'[q]["direct"].pc = job[q]["direct"].pc
                         /\ job'[q]["direct"].id = job[q]["direct"].id
      BY <2>2 DEF Slots
  <2>6. DirectInv'
      BY <1>1, <1>5, <2>1, <2>5 DEF IInv, DirectInv
  <2>7. Taken' = Taken
      BY <2>2 DEF Taken, Slots
  <2>8. \A q \in Procs, u \in Slots :
            job'[q][u].pc \in {"start", "persist", "settle", "undo"} =>
                job'[q][u].pc = job[q][u].pc /\ job'[q][u].id = job[q][u].id
      BY <2>2
  <2>9. StartsInv'
      BY <1>1, <1>3, <1>4, <2>1, <2>7, <2>8 DEF IInv, StartsInv
  <2> QED
      BY <1>2, <2>1, <2>2, <2>4, <2>6, <2>9 DEF IInv, Types
\* The prompt is started at once.
<1>7. ASSUME file' = file, job[p]["direct"].pc = "none",
             job' = [job EXCEPT ![p]["direct"] = [pc |-> "start", id |-> made + 1]]
      PROVE  IInv'
  <2>1. FileInv' /\ Listed' = Listed /\ Marked' = Marked
    <3>1. Listed' = Listed /\ Marked' = Marked
        BY <1>7 DEF Listed, Marked, Unexpired
    <3>2. \A n \in DOMAIN file : file[n].id \in Int /\ file[n].id <= made
        BY FileShape DEF IInv, FileInv, Items
    <3>3. \A n \in DOMAIN file : file[n].id <= made'
        BY <1>1, <3>2
    <3> QED
        BY <1>7, <3>1, <3>3 DEF IInv, FileInv
  <2>2. [pc |-> "start", id |-> made'] \in Jobs /\ "direct" \in Slots
      BY <1>2 DEF Jobs, Pcs, Slots
  <2>3. /\ JobTypes'
        /\ \A q \in Procs, u \in Slots :
              job'[q][u] = IF q = p /\ u = "direct" THEN [pc |-> "start", id |-> made']
                           ELSE job[q][u]
    <3>1. JobSet(p, "direct", [pc |-> "start", id |-> made'])
        BY <1>1, <1>7 DEF JobSet
    <3> DEFINE r == [pc |-> "start", id |-> made']
    <3> HIDE DEF r
    <3> QED
        BY <2>2, <3>1, JobReplaced DEF IInv, Types, r
  <2>4. \A q \in Procs : /\ job'[q]["drain"] = job[q]["drain"]
                         /\ Busy(q)' <=> Busy(q)
                         /\ q # p => job'[q]["direct"] = job[q]["direct"]
      BY <2>3 DEF Busy, Slots
  <2>5. job'[p]["direct"].pc = "start" /\ job'[p]["direct"].id = made'
      BY <2>2, <2>3
  <2>6. DrainInv'
      BY <2>1, <2>4 DEF IInv, DrainInv
  <2>7. DirectInv'
      BY <1>1, <1>3, <1>5, <2>1, <2>4, <2>5 DEF IInv, DirectInv
  <2>8. Taken' = Taken
      BY <2>4 DEF Taken
  <2>9. StartsInv'
      BY <1>1, <1>3, <1>4, <2>1, <2>3, <2>5, <2>8 DEF IInv, StartsInv
  <2> QED
      BY <1>2, <2>1, <2>3, <2>6, <2>7, <2>9 DEF IInv, Types
<1> QED
    BY <1>6, <1>7 DEF Submit

LEMMA CancelStep == ASSUME IInv, NEW p \in Procs, NEW i \in Items, CancelQueuedTurn(p, i) PROVE IInv'
<1>1. /\ InFile(i) /\ file[Position(i)].status = "queued" /\ file' = Remaining(i)
      /\ cancelled' = cancelled \cup {i}
      /\ job' = IF Remaining(i) = <<>> THEN DrainCancelled(p) ELSE job
      /\ UNCHANGED <<active, old, tracked, current, alive, running, subscribed, notes, starts,
                     made, troubles, excused>>
    BY DEF CancelQueuedTurn, recordVars, serverVars, countVars
<1>2. /\ FileInv' /\ Listed' = Listed \ {i} /\ Marked' = Marked \ {i}
      /\ Remaining(i) = <<>> => Listed = {i}
    BY <1>1, RemainingFile DEF IInv
<1>3. i \in Listed /\ i \notin Marked
    BY <1>1, PositionInFile, Views DEF IInv, Unexpired
<1>4. Marked' = Marked /\ Marked \subseteq Listed
    BY <1>2, <1>3, Views DEF IInv
<1>5. /\ JobTypes'
      /\ \A q \in Procs, u \in Slots :
            \/ job'[q][u] = job[q][u]
            \/ q = p /\ u = "drain" /\ Listed = {i} /\ job'[q][u] = Idle
  <2>1. CASE Remaining(i) = <<>>
    <3>1. JobSet(p, "drain", Idle) /\ Idle \in Jobs /\ "drain" \in Slots
        BY <1>1, <2>1 DEF JobSet, DrainCancelled, Idle, Jobs, Pcs, Slots
    <3> QED
        BY <1>2, <2>1, <3>1, JobReplaced DEF IInv, Types
  <2>2. CASE Remaining(i) # <<>>
      BY <1>1, <2>2 DEF IInv, Types, JobTypes
  <2> QED
      BY <2>1, <2>2
<1>6. \A q \in Procs : LeftAlone(q)
  <2> SUFFICES ASSUME NEW q \in Procs PROVE LeftAlone(q)
      OBVIOUS
  <2>1. job'[q]["direct"] = job[q]["direct"]
      BY <1>5 DEF Slots
  <2>2. Listed = {i} => ~ Busy(q)
      BY <1>3, <1>4, JobFacts
  <2>3. Busy(q) => job[q]["drain"].id \in Marked'
      BY <1>4, JobFacts
  <2>4. job'[q]["drain"] = job[q]["drain"] \/ (Listed = {i} /\ job'[q]["drain"].pc = "none")
      BY <1>5 DEF Slots, Idle
  <2> QED
      BY <2>1, <2>2, <2>3, <2>4 DEF LeftAlone
<1>7. i \in Fresh
  <2>1. i \notin Taken
      BY <1>3, JobFacts DEF Taken, Busy
  <2> QED
      BY <1>3, <2>1 DEF IInv, StartsInv
<1>8. Types'
    BY <1>1, <1>5 DEF IInv, Types, RecordTypes, ProcTypes, CountTypes
<1> QED
    BY <1>1, <1>2, <1>3, <1>6, <1>7, <1>8, NothingStarts

LEMMA DrainCheckStep == ASSUME IInv, NEW p \in Procs, DrainCheck(p) PROVE IInv'
<1>1. /\ job[p]["drain"].pc = "check"
      /\ UNCHANGED <<file, active, old, tracked, current, alive, running, subscribed, notes, starts,
                     made, troubles, cancelled, excused>>
    BY DEF DrainCheck, recordVars, serverVars, countVars, historyVars
<1> DEFINE pc == IF ThreadHasActiveTurn(p) THEN "none" ELSE "reserve"
<1>2. pc \in {"none", "reserve"} /\ pc \in Pcs /\ "drain" \in Slots
    BY DEF Pcs, Slots
<1>3. JobStep(p, "drain", pc)
    BY DEF DrainCheck, JobStep
<1> HIDE DEF pc
<1>4. /\ JobTypes'
      /\ \A q \in Procs, u \in Slots :
            /\ job'[q][u].pc = IF q = p /\ u = "drain" THEN pc ELSE job[q][u].pc
            /\ job'[q][u].id = job[q][u].id
    BY <1>2, <1>3, JobMoved DEF IInv, Types
<1>5. FileInv' /\ Listed' = Listed /\ Marked' = Marked
    BY <1>1, SameFile DEF IInv
<1>6. \A q \in Procs : LeftAlone(q)
  <2> SUFFICES ASSUME NEW q \in Procs PROVE LeftAlone(q)
      OBVIOUS
  <2>1. ~ Busy(p) /\ (Busy(q) => job[q]["drain"].id \in Marked')
      BY <1>1, <1>5, JobFacts DEF Busy
  <2> QED
      BY <1>2, <1>4, <2>1 DEF LeftAlone, Slots
<1>7. Types'
    BY <1>1, <1>4 DEF IInv, Types, RecordTypes, ProcTypes, CountTypes
<1> QED
    BY <1>1, <1>5, <1>6, <1>7, NothingStarts

LEMMA ReserveStep == ASSUME IInv, NEW p \in Procs, Reserve(p) PROVE IInv'
<1> DEFINE takeable == {n \in DOMAIN file : Startable(file[n])}
           k == CHOOSE n \in takeable : \A m \in takeable : n <= m
           x == [file[k] EXCEPT !.status = "starting", !.stale = FALSE]
<1>1. /\ job[p]["drain"].pc = "reserve"
      /\ UNCHANGED <<active, old, tracked, current, alive, running, subscribed, notes, starts,
                     made, troubles, cancelled, excused>>
    BY DEF Reserve, recordVars, serverVars, countVars, historyVars
<1>2. RecordTypes' /\ ProcTypes' /\ CountTypes'
    BY <1>1 DEF IInv, Types, RecordTypes, ProcTypes, CountTypes
\* The file has nothing to start, or something that is being started: the task stops.
<1>3. ASSUME job' = [job EXCEPT ![p]["drain"] = Idle], file' = file PROVE IInv'
  <2>1. JobSet(p, "drain", Idle) /\ Idle \in Jobs /\ "drain" \in Slots
      BY <1>3 DEF JobSet, Idle, Jobs, Pcs, Slots
  <2>2. /\ JobTypes'
        /\ \A q \in Procs, u \in Slots :
              job'[q][u] = IF q = p /\ u = "drain" THEN Idle ELSE job[q][u]
      BY <2>1, JobReplaced DEF IInv, Types
  <2>3. FileInv' /\ Listed' = Listed /\ Marked' = Marked
      BY <1>1, <1>3, SameFile DEF IInv
  <2>4. \A q \in Procs : LeftAlone(q)
    <3> SUFFICES ASSUME NEW q \in Procs PROVE LeftAlone(q)
        OBVIOUS
    <3>1. ~ Busy(p) /\ (Busy(q) => job[q]["drain"].id \in Marked')
        BY <1>1, <2>3, JobFacts DEF Busy
    <3> QED
        BY <2>2, <3>1 DEF LeftAlone, Slots, Idle
  <2> QED
      BY <1>1, <1>2, <2>2, <2>3, <2>4, NothingStarts DEF Types
\* It takes the first that it may: nobody is busy.
<1>4. ASSUME takeable # {}, ~ \E n \in DOMAIN file : Unexpired(file[n]),
             file' = SetItem(k, x),
             job' = [job EXCEPT ![p]["drain"] = [pc |-> "start", id |-> file[k].id]]
      PROVE  IInv'
  <2>1. k \in DOMAIN file
      BY <1>4, FirstTakeable DEF IInv
  <2> HIDE DEF takeable, k
  <2>2. Marked = {} /\ \A q \in Procs : ~ Busy(q)
      BY <1>4, JobFacts DEF Marked
  <2>3. file[k] \in FileItems /\ file[k].id \in Items /\ file[k].id \in Listed
      BY <2>1, FileShape, Views DEF IInv
  <2>4. x \in FileItems /\ x.id = file[k].id /\ Unexpired(x)
      BY <2>3 DEF FileItems, Unexpired
  <2> DEFINE i == file[k].id
  <2> HIDE DEF x
  <2>5. FileInv' /\ Listed' = Listed /\ Marked' = {i}
      BY <1>1, <1>4, <2>1, <2>2, <2>4, ReplacedFile DEF IInv
  <2> DEFINE r == [pc |-> "start", id |-> i]
  <2>6. r \in Jobs /\ r.pc = "start" /\ r.id = i /\ "drain" \in Slots
      BY <2>3 DEF Jobs, Pcs, Slots
  <2>7. JobSet(p, "drain", r)
      BY <1>4 DEF JobSet
  <2> HIDE DEF r
  <2>8. /\ JobTypes'
        /\ \A q \in Procs, u \in Slots :
              job'[q][u] = IF q = p /\ u = "drain" THEN r ELSE job[q][u]
      BY <2>6, <2>7, JobReplaced DEF IInv, Types
  <2>9. \A q \in Procs : /\ Busy(q)' <=> q = p
                         /\ job'[q]["direct"] = job[q]["direct"]
      BY <2>2, <2>6, <2>8 DEF Busy, Slots
  <2>10. DrainInv'
      BY <2>5, <2>6, <2>8, <2>9 DEF DrainInv
  <2>11. DirectInv'
      BY <1>1, <2>5, <2>9 DEF IInv, DirectInv
  <2>12. Taken = {} /\ Fresh' = Fresh /\ i \in Fresh
    <3>1. Taken = {}
        BY <2>2 DEF Taken, Busy
    <3> QED
        BY <1>1, <2>3, <3>1 DEF Fresh, IInv, StartsInv
  <2>13. StartsInv'
      BY <1>1, <2>5, <2>6, <2>8, <2>12 DEF IInv, StartsInv
  <2> QED
      BY <1>2, <2>5, <2>8, <2>10, <2>11, <2>13 DEF IInv, Types
<1> QED
    BY <1>3, <1>4 DEF Reserve

LEMMA CompleteStep == ASSUME IInv, NEW p \in Procs, Complete(p) PROVE IInv'
<1> DEFINE i == job[p]["drain"].id
           r == [pc |-> "check", id |-> NoItem]
<1>1. /\ job[p]["drain"].pc = "settle" /\ file' = Remaining(i)
      /\ UNCHANGED <<active, old, tracked, current, alive, running, subscribed, notes, starts,
                     made, troubles, cancelled, excused>>
    BY DEF Complete, recordVars, serverVars, countVars, historyVars
<1>2. Busy(p) /\ i \in Marked /\ InFile(i)
    BY <1>1, JobFacts, Views DEF Busy, IInv
<1>3. r \in Jobs /\ r.pc = "check" /\ JobSet(p, "drain", r) /\ "drain" \in Slots
    BY DEF Jobs, Pcs, Slots, Complete, JobSet
<1> HIDE DEF r, i
<1>4. /\ JobTypes'
      /\ \A q \in Procs, u \in Slots :
            job'[q][u] = IF q = p /\ u = "drain" THEN r ELSE job[q][u]
    BY <1>3, JobReplaced DEF IInv, Types
<1>5. FileInv' /\ Listed' = Listed \ {i} /\ Marked' = Marked \ {i}
    BY <1>1, <1>2, RemainingFile DEF IInv
<1>6. \A q \in Procs : LeftAlone(q)
  <2> SUFFICES ASSUME NEW q \in Procs PROVE LeftAlone(q)
      OBVIOUS
  <2>1. q # p => ~ Busy(q)
      BY <1>2 DEF IInv, DrainInv
  <2>2. job'[q]["direct"] = job[q]["direct"]
      BY <1>4 DEF Slots
  <2>3. IF q = p THEN job'[q]["drain"].pc = "check" ELSE job'[q]["drain"] = job[q]["drain"]
      BY <1>3, <1>4
  <2> QED
      BY <1>5, <2>1, <2>2, <2>3 DEF LeftAlone, i
<1>7. Types'
    BY <1>1, <1>4 DEF IInv, Types, RecordTypes, ProcTypes, CountTypes
<1> QED
    BY <1>1, <1>5, <1>6, <1>7, NothingStarts

LEMMA ReleaseStep == ASSUME IInv, NEW p \in Procs, Release(p) PROVE IInv'
<1> DEFINE i == job[p]["drain"].id
<1>1. /\ job[p]["drain"].pc = "undo" /\ job' = [job EXCEPT ![p]["drain"] = Idle]
      /\ UNCHANGED <<active, old, tracked, current, alive, running, subscribed, notes, starts,
                     made, troubles, cancelled, excused>>
    BY DEF Release, recordVars, serverVars, countVars, historyVars
<1>2. Busy(p) /\ i \in Marked /\ i \in Items /\ InFile(i)
    BY <1>1, JobFacts, Views DEF Busy, IInv
<1>3. file' = SetItem(Position(i), QueuedTurn(i))
    BY <1>2 DEF Release
<1>4. Idle \in Jobs /\ JobSet(p, "drain", Idle) /\ "drain" \in Slots
    BY <1>1 DEF Idle, Jobs, Pcs, Slots, JobSet
<1>5. i \in Fresh
    BY <1>1 DEF IInv, StartsInv, Slots
<1> HIDE DEF i
<1>6. /\ JobTypes'
      /\ \A q \in Procs, u \in Slots :
            job'[q][u] = IF q = p /\ u = "drain" THEN Idle ELSE job[q][u]
    BY <1>4, JobReplaced DEF IInv, Types
<1>7. Position(i) \in DOMAIN file /\ file[Position(i)].id = i
    BY <1>2, PositionInFile DEF IInv
<1>8. QueuedTurn(i) \in FileItems /\ QueuedTurn(i).id = i /\ ~ Unexpired(QueuedTurn(i))
    BY <1>2 DEF QueuedTurn, FileItems, Unexpired
<1>9. FileInv' /\ Listed' = Listed /\ Marked' = Marked \ {i}
    BY <1>1, <1>3, <1>7, <1>8, ReplacedFile DEF IInv
<1>10. \A q \in Procs : LeftAlone(q)
  <2> SUFFICES ASSUME NEW q \in Procs PROVE LeftAlone(q)
      OBVIOUS
  <2>1. q # p => ~ Busy(q)
      BY <1>2 DEF IInv, DrainInv
  <2>2. job'[q]["direct"] = job[q]["direct"]
      BY <1>6 DEF Slots
  <2>3. IF q = p THEN job'[q]["drain"].pc = "none" ELSE job'[q]["drain"] = job[q]["drain"]
      BY <1>4, <1>6 DEF Idle
  <2>4. starts'[i] = 0 \/ i \in excused'
      BY <1>1, <1>5 DEF Fresh
  <2> QED
      BY <2>1, <2>2, <2>3, <2>4 DEF LeftAlone, i
<1>11. Types'
    BY <1>1, <1>6 DEF IInv, Types, RecordTypes, ProcTypes, CountTypes
<1> QED
    BY <1>1, <1>9, <1>10, <1>11, NothingStarts

LEMMA StartRequestStep ==
    ASSUME IInv, NEW p \in Procs, NEW s \in Slots, StartRequest(p, s) PROVE IInv'
<1> DEFINE i == job[p][s].id
<1>1. /\ job[p][s].pc = "start" /\ Newest(i, subscribed \ {p})
      /\ subscribed' = subscribed \cup {p} /\ running' = running \cup {i}
      /\ starts' = [starts EXCEPT ![i] = @ + 1]
      /\ UNCHANGED <<file, alive, notes, made, troubles, cancelled, excused>>
    BY DEF StartRequest, countVars, historyVars
<1>2. i \in Items /\ i \in Fresh /\ (s = "drain" => i \in Marked) /\ (s = "direct" => i \notin Listed)
    BY <1>1, JobFacts DEF IInv, StartsInv, Busy
<1>3. JobStep(p, s, "persist") /\ "persist" \in Pcs
    BY DEF StartRequest, JobStep, Pcs
<1> HIDE DEF i
<1>4. /\ JobTypes'
      /\ \A q \in Procs, u \in Slots :
            /\ job'[q][u].pc = IF q = p /\ u = s THEN "persist" ELSE job[q][u].pc
            /\ job'[q][u].id = job[q][u].id
    BY <1>3, JobMoved DEF IInv, Types
<1>5. FileInv' /\ Listed' = Listed /\ Marked' = Marked
    BY <1>1, SameFile DEF IInv
<1>6. /\ starts' \in [Items -> Nat] /\ starts'[i] = starts[i] + 1
      /\ \A j \in Items : j # i => starts'[j] = starts[j]
    BY <1>1, <1>2 DEF IInv, Types, CountTypes
<1>7. Types'
  <2>1. RecordTypes' /\ tracked' \in [Procs -> SUBSET Items]
        /\ current' \in [Procs -> Items \cup {NoItem}]
      BY <1>1, <1>2, NewestTypes DEF IInv, Types
  <2>2. ProcTypes'
      BY <1>1, <2>1 DEF IInv, Types, ProcTypes
  <2>3. CountTypes'
      BY <1>1, <1>2, <1>6 DEF IInv, Types, CountTypes
  <2> QED
      BY <1>4, <2>1, <2>2, <2>3 DEF Types
<1>8. \A q \in Procs : Busy(q)' <=> Busy(q)
    BY <1>1, <1>4 DEF Busy, Slots
<1>9. DrainInv'
    BY <1>4, <1>5, <1>8 DEF IInv, DrainInv, Slots
<1>10. DirectInv'
  <2>1. \A q \in Procs :
           /\ job'[q]["direct"].pc # "none" <=> job[q]["direct"].pc # "none"
           /\ job'[q]["direct"].pc \in {job[q]["direct"].pc, "persist"}
           /\ job'[q]["direct"].id = job[q]["direct"].id
      BY <1>1, <1>4 DEF Slots
  <2> QED
      BY <1>1, <1>5, <2>1 DEF IInv, DirectInv
\* Nobody else is about to start the prompt.
<1>11. \A q \in Procs, u \in Slots :
          (q # p \/ u # s) /\ job[q][u].pc \in {"start", "persist", "settle", "undo"} =>
              job[q][u].id # i
  <2> SUFFICES ASSUME NEW q \in Procs, NEW u \in Slots, q # p \/ u # s,
                      job[q][u].pc \in {"start", "persist", "settle", "undo"}
               PROVE  job[q][u].id # i
      OBVIOUS
  <2>1. CASE u = "drain" /\ s = "drain"
      BY <1>1, <2>1 DEF IInv, DrainInv, Busy
  <2>2. CASE u = "direct" /\ s = "direct"
      BY <1>1, <2>2 DEF IInv, DirectInv, i
  <2>3. CASE u = "drain" /\ s = "direct"
      BY <1>2, <2>3, JobFacts, Views DEF Busy, IInv
  <2>4. CASE u = "direct" /\ s = "drain"
      BY <1>2, <2>4, JobFacts, Views DEF Busy, IInv
  <2> QED
      BY <2>1, <2>2, <2>3, <2>4 DEF Slots
<1>12. i \notin cancelled /\ i <= made
  <2>1. CASE s = "direct"
      BY <1>1, <2>1, JobFacts DEF i
  <2>2. CASE s = "drain"
      BY <1>2, <2>2, Views DEF IInv, StartsInv
  <2> QED
      BY <2>1, <2>2 DEF Slots
<1>13. \A j \in Items : j # i => (j \in Fresh' <=> j \in Fresh)
    BY <1>1, <1>6 DEF Fresh
<1>14. \A j \in Taken : j \in Taken'
  <2> SUFFICES ASSUME NEW q \in Procs, job[q]["drain"].pc \in {"persist", "settle"}
               PROVE  job[q]["drain"].id \in Taken'
      BY DEF Taken
  <2>1. job'[q]["drain"].pc = job[q]["drain"].pc /\ job'[q]["drain"].id = job[q]["drain"].id
      BY <1>1, <1>4 DEF Slots
  <2> QED
      BY <2>1 DEF Taken
<1>15. i \in Listed => i \in Taken'
  <2>1. s = "drain" => job'[p]["drain"].pc = "persist" /\ job'[p]["drain"].id = i
      BY <1>4 DEF i
  <2> QED
      BY <1>2, <2>1 DEF Taken, Slots
<1>16. \A q \in Procs, u \in Slots :
          /\ job'[q][u].pc \in {"start", "undo"} => job'[q][u].id \in Fresh'
          /\ job'[q][u].pc \in {"persist", "settle"} => starts'[job'[q][u].id] > 0
  <2> SUFFICES ASSUME NEW q \in Procs, NEW u \in Slots
               PROVE  /\ job'[q][u].pc \in {"start", "undo"} => job'[q][u].id \in Fresh'
                      /\ job'[q][u].pc \in {"persist", "settle"} => starts'[job'[q][u].id] > 0
      OBVIOUS
  <2>1. CASE q = p /\ u = s
    <3>1. starts[i] \in Nat
        BY <1>2 DEF IInv, Types, CountTypes
    <3>2. job'[q][u].pc = "persist" /\ job'[q][u].id = i
        BY <1>4, <2>1 DEF i
    <3> QED
        BY <1>6, <3>1, <3>2
  <2>2. CASE q # p \/ u # s
    <3>1. job'[q][u].pc = job[q][u].pc /\ job'[q][u].id = job[q][u].id
        BY <1>4, <2>2
    <3>2. job[q][u].pc \in {"start", "persist", "settle", "undo"} =>
              job[q][u].id \in Items /\ job[q][u].id # i
        BY <1>11, <2>2, JobFacts
    <3>3. /\ job[q][u].pc \in {"start", "undo"} => job[q][u].id \in Fresh
          /\ job[q][u].pc \in {"persist", "settle"} => starts[job[q][u].id] > 0
        BY DEF IInv, StartsInv
    <3> QED
        BY <1>6, <1>13, <3>1, <3>2, <3>3
  <2> QED
      BY <2>1, <2>2
<1>17. \A j \in Items :
          /\ starts'[j] > 1 => j \in excused'
          /\ j > made' => starts'[j] = 0 /\ j \notin cancelled'
          /\ j \in Listed' => j \notin cancelled' /\ j \in Fresh' \cup Taken'
          /\ j \in cancelled' => j \in Fresh'
  <2> SUFFICES ASSUME NEW j \in Items
               PROVE  /\ starts'[j] > 1 => j \in excused'
                      /\ j > made' => starts'[j] = 0 /\ j \notin cancelled'
                      /\ j \in Listed' => j \notin cancelled' /\ j \in Fresh' \cup Taken'
                      /\ j \in cancelled' => j \in Fresh'
      OBVIOUS
  <2>1. /\ starts[j] > 1 => j \in excused
        /\ j > made => starts[j] = 0 /\ j \notin cancelled
        /\ j \in Listed => j \notin cancelled /\ j \in Fresh \cup Taken
        /\ j \in cancelled => j \in Fresh
      BY DEF IInv, StartsInv
  <2>2. CASE j = i
    <3>1. starts[i] = 0 \/ i \in excused
        BY <1>2 DEF Fresh
    <3>2. made \in Int /\ i \in Int
        BY <1>2 DEF IInv, Types, CountTypes, Items
    <3> QED
        BY <1>1, <1>5, <1>6, <1>12, <1>15, <2>1, <2>2, <3>1, <3>2
  <2>3. CASE j # i
      BY <1>1, <1>5, <1>6, <1>13, <1>14, <2>1, <2>3
  <2> QED
      BY <2>2, <2>3
<1>18. StartsInv'
    BY <1>16, <1>17 DEF StartsInv
<1> QED
    BY <1>5, <1>7, <1>9, <1>10, <1>18 DEF IInv

\* A start that ends with the pc given: what a caller or a drain task returns to.
LEMMA AfterStep ==
    ASSUME IInv, NEW p \in Procs, NEW s \in Slots, NEW pc \in {"settle", "undo"},
           job[p][s].pc \in {"start", "persist"}, job' = After(p, s, pc), JobTypes' => Types',
           UNCHANGED <<file, made, starts, cancelled>>, excused \subseteq excused',
           pc = "undo" => job[p][s].id \in Fresh',
           pc = "settle" => job[p][s].pc = "persist"
    PROVE  IInv'
<1>1. /\ JobTypes'
      /\ \A q \in Procs, u \in Slots :
            IF q = p /\ u = s
            THEN IF s = "direct" THEN job'[q][u] = Idle
                 ELSE job'[q][u].pc = pc /\ job'[q][u].id = job[q][u].id
            ELSE job'[q][u] = job[q][u]
    BY AfterJobs DEF IInv, Types
<1>2. CASE s = "direct"
  <2>1. FileInv' /\ Listed' = Listed /\ Marked' = Marked
      BY SameFile DEF IInv
  <2>2. \A q \in Procs : LeftAlone(q)
    <3> SUFFICES ASSUME NEW q \in Procs PROVE LeftAlone(q)
        OBVIOUS
    <3>1. job'[q]["drain"] = job[q]["drain"]
          /\ (job'[q]["direct"] = job[q]["direct"] \/ job'[q]["direct"].pc = "none")
        BY <1>1, <1>2 DEF Slots, Idle
    <3>2. Busy(q) => job[q]["drain"].id \in Marked'
        BY <2>1, JobFacts
    <3> QED
        BY <3>1, <3>2 DEF LeftAlone
  <2> QED
      BY <1>1, <2>1, <2>2, NothingStarts
<1>3. CASE s = "drain"
  <2>1. Busy(p)
      BY <1>3 DEF Busy
  <2>2. /\ job'[p]["drain"].id = job[p]["drain"].id /\ job'[p]["drain"].pc = pc
        /\ \A q \in Procs, u \in Slots : q # p \/ u # "drain" => job'[q][u] = job[q][u]
      BY <1>1, <1>3 DEF Slots
  <2>3. pc = "settle" => starts[job[p]["drain"].id] > 0
      BY <1>3 DEF IInv, StartsInv, Slots
  <2> QED
      BY <1>1, <1>3, <2>1, <2>2, <2>3, DrainAdvances
<1> QED
    BY <1>2, <1>3 DEF Slots

LEMMA PersistTurnStartStep ==
    ASSUME IInv, NEW p \in Procs, NEW s \in Slots, PersistTurnStart(p, s) PROVE IInv'
<1>1. /\ job[p][s].pc = "persist" /\ Newest(job[p][s].id, {p}) /\ job' = After(p, s, "settle")
      /\ UNCHANGED <<file, alive, running, subscribed, notes, starts, made, troubles, cancelled,
                     excused>>
    BY DEF PersistTurnStart, serverVars, countVars, historyVars
<1>2. job[p][s].id \in Items
    BY <1>1, JobFacts
<1>3. RecordTypes' /\ ProcTypes' /\ CountTypes'
    BY <1>1, <1>2, NewestTypes DEF IInv, Types, ProcTypes, CountTypes
<1> QED
    BY <1>1, <1>3, AfterStep DEF Types

LEMMA StartFailsStep ==
    ASSUME IInv, NEW p \in Procs, NEW s \in Slots, StartFails(p, s) PROVE IInv'
<1>1. /\ job[p][s].pc = "start" /\ job' = After(p, s, "undo")
      /\ troubles < MaxTroubles /\ troubles' = troubles + 1
      /\ UNCHANGED <<file, active, old, tracked, current, alive, running, subscribed, notes, starts,
                     made, cancelled, excused>>
    BY DEF StartFails, recordVars, serverVars, historyVars
<1>2. RecordTypes' /\ ProcTypes' /\ CountTypes'
    BY <1>1, QueueAssumption DEF IInv, Types, RecordTypes, ProcTypes, CountTypes
<1>3. job[p][s].id \in Fresh'
    BY <1>1 DEF Fresh, IInv, StartsInv
<1> QED
    BY <1>1, <1>2, <1>3, AfterStep DEF Types

LEMMA StartTimesOutStep ==
    ASSUME IInv, NEW p \in Procs, NEW s \in Slots, StartTimesOut(p, s) PROVE IInv'
<1>1. /\ job[p][s].pc = "persist" /\ job' = After(p, s, "undo") /\ Newest(job[p][s].id, {p})
      /\ troubles < MaxTroubles /\ troubles' = troubles + 1
      /\ excused' = excused \cup {job[p][s].id}
      /\ UNCHANGED <<file, alive, running, subscribed, notes, starts, made, cancelled>>
    BY DEF StartTimesOut, serverVars
<1>2. job[p][s].id \in Items
    BY <1>1, JobFacts
<1>3. RecordTypes' /\ ProcTypes' /\ CountTypes'
    BY <1>1, <1>2, NewestTypes, QueueAssumption DEF IInv, Types, ProcTypes, CountTypes
<1>4. job[p][s].id \in Fresh'
    BY <1>1, <1>2 DEF Fresh
<1> QED
    BY <1>1, <1>3, <1>4, AfterStep DEF Types

LEMMA EndedStep == ASSUME IInv, NEW p \in Procs, NEW i \in Items, Ended(p, i) PROVE IInv'
<1>1. /\ notes' = [notes EXCEPT ![p] = @ \ {i}] /\ tracked' = [tracked EXCEPT ![p] = @ \ {i}]
      /\ active' \in {active, NoItem} /\ old' = FALSE
      /\ job' = job \/ job' = Scheduled(p)
      /\ UNCHANGED <<file, current, alive, running, subscribed, starts, made, troubles, cancelled,
                     excused>>
    BY DEF Ended, countVars, historyVars
<1>2. /\ JobTypes'
      /\ \A q \in Procs, u \in Slots :
            \/ job'[q][u].pc = job[q][u].pc /\ job'[q][u].id = job[q][u].id
            \/ u = "drain" /\ job[q][u].pc = "none" /\ job'[q][u].pc = "check"
  <2>1. CASE job' = job
      BY <2>1 DEF IInv, Types, JobTypes
  <2>2. CASE job' = Scheduled(p)
      BY <2>2, ScheduledJobs DEF IInv, Types
  <2> QED
      BY <1>1, <2>1, <2>2
<1>3. FileInv' /\ Listed' = Listed /\ Marked' = Marked
    BY <1>1, SameFile DEF IInv
<1>4. \A q \in Procs : LeftAlone(q)
  <2> SUFFICES ASSUME NEW q \in Procs PROVE LeftAlone(q)
      OBVIOUS
  <2>1. Busy(q) => job[q]["drain"].id \in Marked'
      BY <1>3, JobFacts
  <2> QED
      BY <1>2, <2>1 DEF LeftAlone, Slots, Busy
<1>5. Types'
    BY <1>1, <1>2 DEF IInv, Types, RecordTypes, ProcTypes, CountTypes
<1> QED
    BY <1>1, <1>3, <1>4, <1>5, NothingStarts

LEMMA StartAgesStep == ASSUME IInv, NEW k \in Items, StartAges(k) PROVE IInv'
<1> DEFINE x == [file[k] EXCEPT !.stale = TRUE]
<1>1. /\ k \in DOMAIN file /\ Unexpired(file[k]) /\ file' = SetItem(k, x)
      /\ \A p \in Procs : job[p]["drain"].id # file[k].id
      /\ UNCHANGED <<active, old, job, tracked, current, alive, running, subscribed, notes, starts,
                     made, troubles, cancelled, excused>>
    BY DEF StartAges, recordVars, procVars, serverVars, countVars, historyVars
<1>2. x \in FileItems /\ x.id = file[k].id /\ ~ Unexpired(x)
  <2>1. file[k] \in FileItems
      BY <1>1, FileShape DEF IInv
  <2> QED
      BY <2>1 DEF FileItems, Unexpired
<1> HIDE DEF x
<1>3. FileInv' /\ Listed' = Listed /\ Marked' = Marked \ {file[k].id}
    BY <1>1, <1>2, ReplacedFile DEF IInv
<1>4. \A q \in Procs : LeftAlone(q)
    BY <1>1, <1>3, JobFacts DEF LeftAlone
<1>5. Types'
    BY <1>1 DEF IInv, Types, JobTypes, RecordTypes, ProcTypes, CountTypes
<1> QED
    BY <1>1, <1>3, <1>4, <1>5, NothingStarts

LEMMA CrashStep == ASSUME IInv, NEW p \in Procs, Crash(p) PROVE IInv'
<1>1. /\ job' = [job EXCEPT ![p] = [s \in Slots |-> Idle]]
      /\ alive' = [alive EXCEPT ![p] = FALSE] /\ tracked' = [tracked EXCEPT ![p] = {}]
      /\ current' = [current EXCEPT ![p] = NoItem] /\ notes' = [notes EXCEPT ![p] = {}]
      /\ subscribed' = subscribed \ {p}
      /\ troubles < MaxTroubles /\ troubles' = troubles + 1
      /\ excused' = excused \cup
           {job[p][s].id : s \in {s \in Slots : job[p][s].pc \in {"persist", "settle"}}}
      /\ UNCHANGED <<file, active, old, running, starts, made, cancelled>>
    BY DEF Crash, recordVars
<1>2. JobTypes'
  <2>1. [s \in Slots |-> Idle] \in [Slots -> Jobs]
      BY DEF Idle, Jobs, Pcs
  <2> QED
      BY <1>1, <2>1 DEF IInv, Types, JobTypes
<1>3. \A q \in Procs, u \in Slots : job'[q][u] = IF q = p THEN Idle ELSE job[q][u]
    BY <1>1 DEF IInv, Types, JobTypes
<1>4. FileInv' /\ Listed' = Listed /\ Marked' = Marked
    BY <1>1, SameFile DEF IInv
<1>5. excused' \subseteq Items
    BY <1>1, JobFacts DEF IInv, Types, CountTypes
<1>6. \A q \in Procs : LeftAlone(q)
  <2> SUFFICES ASSUME NEW q \in Procs PROVE LeftAlone(q)
      OBVIOUS
  <2>1. CASE q # p
    <3>1. job'[q]["drain"] = job[q]["drain"] /\ job'[q]["direct"] = job[q]["direct"]
        BY <1>3, <2>1 DEF Slots
    <3> QED
        BY <1>4, <3>1, JobFacts DEF LeftAlone
  <2>2. CASE q = p
    <3>1. job'[p]["drain"].pc = "none" /\ job'[p]["direct"].pc = "none"
        BY <1>3 DEF Slots, Idle
    <3>2. job[p]["drain"].pc \in {"start", "undo"} => job[p]["drain"].id \in Fresh
        BY DEF IInv, StartsInv, Slots
    <3>3. job[p]["drain"].pc \in {"persist", "settle"} => job[p]["drain"].id \in excused'
        BY <1>1 DEF Slots
    <3>4. Busy(p) => starts'[job[p]["drain"].id] = 0 \/ job[p]["drain"].id \in excused'
        BY <1>1, <3>2, <3>3 DEF Busy, Fresh
    <3> QED
        BY <2>2, <3>1, <3>4 DEF LeftAlone
  <2> QED
      BY <2>1, <2>2
<1>7. Types'
    BY <1>1, <1>2, <1>5, QueueAssumption DEF IInv, Types, RecordTypes, ProcTypes, CountTypes
<1> QED
    BY <1>1, <1>4, <1>6, <1>7, NothingStarts

\* Steps that concern neither the file nor a start.
LEMMA OtherStep ==
    ASSUME IInv,
           \/ \E i \in Items : TurnEnds(i)
           \/ RecordAges
           \/ \E p \in Procs : Restart(p)
           \/ UNCHANGED vars
    PROVE  IInv'
<1>1. UNCHANGED <<file, job, made, starts, cancelled, excused>>
    BY DEF TurnEnds, RecordAges, Restart, vars, procVars, recordVars, serverVars, countVars,
           historyVars
<1>2. Types'
  <2>1. CASE \E i \in Items : TurnEnds(i)
      BY <2>1 DEF TurnEnds, IInv, Types, JobTypes, RecordTypes, ProcTypes, CountTypes,
                  procVars, recordVars, countVars, historyVars
  <2>2. CASE RecordAges
      BY <2>2 DEF RecordAges, IInv, Types, JobTypes, RecordTypes, ProcTypes, CountTypes,
                  procVars, serverVars, countVars, historyVars
  <2>3. CASE \E p \in Procs : Restart(p)
      BY <2>3 DEF Restart, IInv, Types, JobTypes, RecordTypes, ProcTypes, CountTypes,
                  recordVars, serverVars, countVars, historyVars
  <2>4. CASE UNCHANGED vars
      BY <2>4 DEF vars, IInv, Types, JobTypes, RecordTypes, ProcTypes, CountTypes,
                  procVars, recordVars, serverVars, countVars, historyVars
  <2> QED
      BY <2>1, <2>2, <2>3, <2>4
<1>3. FileInv' /\ Listed' = Listed /\ Marked' = Marked
    BY <1>1, SameFile DEF IInv
<1>4. \A q \in Procs : LeftAlone(q)
    BY <1>1, <1>3, JobFacts DEF LeftAlone
<1> QED
    BY <1>1, <1>2, <1>3, <1>4, NothingStarts

LEMMA Step == IInv /\ [Next]_vars => IInv'
<1> SUFFICES ASSUME IInv, [Next]_vars PROVE IInv'
    OBVIOUS
<1>1. ASSUME NEW p \in Procs, Caller(p) PROVE IInv'
    BY <1>1, SubmitStep, CancelStep DEF Caller
<1>2. ASSUME NEW p \in Procs, Loop(p) PROVE IInv'
    BY <1>2, DrainCheckStep, ReserveStep, CompleteStep, ReleaseStep, StartRequestStep,
       PersistTurnStartStep, EndedStep
    DEF Loop
<1>3. ASSUME Environment PROVE IInv'
    BY <1>3, CrashStep, OtherStep, StartFailsStep, StartTimesOutStep, StartAgesStep DEF Environment
<1> QED
    BY <1>1, <1>2, <1>3, OtherStep DEF Next

-----------------------------------------------------------------------------
(* Theorems.                                                               *)

\* The inductive invariant holds.
THEOREM Invariance == Spec => []IInv
BY InitIInv, Step, PTL DEF Spec

\* The types hold, and the queue keeps the order in which its prompts were submitted
\* (app_queue.py:133-152).
THEOREM OrderIsKept == Spec => []QueueKeepsOrder
<1>1. IInv => QueueKeepsOrder
    BY TypeParts DEF IInv, FileInv, QueueKeepsOrder
<1> QED
    BY Invariance, <1>1, PTL

\* Among all processes one prompt at a time is being started (app_queue.py:63-116).
THEOREM MarkIsExclusive == Spec => []OneStartAtATime
<1>1. ASSUME IInv PROVE OneStartAtATime
  <2> SUFFICES ASSUME NEW m \in DOMAIN file, NEW n \in DOMAIN file,
                      Unexpired(file[m]), Unexpired(file[n])
               PROVE  m = n
      BY DEF OneStartAtATime
  <2>1. file[m].id \in Marked /\ file[n].id \in Marked
      BY DEF Marked
  <2>2. file[m].id = file[n].id
      BY <1>1, <2>1 DEF IInv, DrainInv
  <2> QED
      BY <1>1, <2>2, FileShape DEF IInv
<1> QED
    BY Invariance, <1>1, PTL

\* A prompt is started twice only if nobody could know whether it had started
\* (app_queue.py:63-116).
THEOREM SecondStartsAreExcused == Spec => []StartsAreExplained
<1>1. IInv => StartsAreExplained
    BY DEF IInv, StartsInv, StartsAreExplained
<1> QED
    BY Invariance, <1>1, PTL

\* A prompt whose removal was confirmed never runs (app_queue.py:197-219).
THEOREM CancelledStayOut == Spec => []CancelledTurnsNeverStart
<1>1. ASSUME IInv PROVE CancelledTurnsNeverStart
  <2>1. \A i \in cancelled : i \in Items /\ i \in Fresh
      BY <1>1 DEF IInv, StartsInv, Types, CountTypes
  <2> QED
      BY <2>1 DEF Fresh, CancelledTurnsNeverStart
<1> QED
    BY Invariance, <1>1, PTL

\* A step that removes a prompt from the file has started it or cancels it.
LEMMA RemovalIsExplained ==
    ASSUME IInv, [Next]_vars, NEW i \in Items, i \in Listed, i \notin Listed'
    PROVE  starts[i] > 0 \/ i \in cancelled'
<1>1. CASE file' = file
    BY <1>1 DEF Listed
<1>2. ASSUME NEW p \in Procs, Submit(p) PROVE FALSE
  <2>1. CASE file' = Append(file, QueuedTurn(made + 1))
    <3>1. made' = made + 1 /\ made \in Nat /\ made' \in Items
        BY <1>2, QueueAssumption DEF Submit, IInv, Types, CountTypes, Items
    <3> QED
        BY <2>1, <3>1, AppendedFile DEF IInv
  <2> QED
      BY <1>1, <1>2, <2>1 DEF Submit, Listed
<1>3. ASSUME NEW p \in Procs, NEW j \in Items, CancelQueuedTurn(p, j)
      PROVE  i \in cancelled'
  <2>1. InFile(j) /\ file' = Remaining(j) /\ made' = made /\ cancelled' = cancelled \cup {j}
      BY <1>3 DEF CancelQueuedTurn, countVars
  <2>2. Listed' = Listed \ {j}
      BY <2>1, RemainingFile DEF IInv
  <2> QED
      BY <2>1, <2>2
<1>4. ASSUME NEW p \in Procs, Reserve(p) PROVE FALSE
  <2> DEFINE takeable == {n \in DOMAIN file : Startable(file[n])}
             k == CHOOSE n \in takeable : \A m \in takeable : n <= m
             x == [file[k] EXCEPT !.status = "starting", !.stale = FALSE]
  <2>1. CASE takeable # {} /\ file' = SetItem(k, x)
    <3>1. k \in DOMAIN file
        BY <2>1, FirstTakeable DEF IInv
    <3> HIDE DEF takeable, k
    <3>2. x \in FileItems /\ x.id = file[k].id
      <4>1. file[k] \in FileItems
          BY <3>1, FileShape DEF IInv
      <4> QED
          BY <4>1 DEF FileItems
    <3>3. made' = made
        BY <1>4 DEF Reserve, countVars
    <3> HIDE DEF x
    <3> QED
        BY <2>1, <3>1, <3>2, <3>3, ReplacedFile DEF IInv
  <2>2. CASE file' = file
      BY <2>2 DEF Listed
  <2> QED
      BY <1>4, <2>1, <2>2 DEF Reserve
<1>5. ASSUME NEW p \in Procs, Complete(p) PROVE starts[i] > 0
  <2>1. /\ job[p]["drain"].pc = "settle" /\ file' = Remaining(job[p]["drain"].id)
        /\ made' = made
      BY <1>5 DEF Complete, countVars
  <2>2. InFile(job[p]["drain"].id)
      BY <2>1, JobFacts, Views DEF Busy, IInv
  <2>3. Listed' = Listed \ {job[p]["drain"].id}
      BY <2>1, <2>2, RemainingFile DEF IInv
  <2>4. i = job[p]["drain"].id
      BY <2>3
  <2> QED
      BY <2>1, <2>4 DEF IInv, StartsInv, Slots
<1>6. ASSUME NEW p \in Procs, Release(p) PROVE FALSE
  <2> DEFINE j == job[p]["drain"].id
  <2>1. job[p]["drain"].pc = "undo" /\ made' = made
      BY <1>6 DEF Release, countVars
  <2>2. InFile(j) /\ j \in Items
      BY <2>1, JobFacts, Views DEF Busy, IInv
  <2>3. file' = SetItem(Position(j), QueuedTurn(j))
      BY <1>6, <2>2 DEF Release
  <2>4. /\ QueuedTurn(j) \in FileItems /\ QueuedTurn(j).id = j
        /\ Position(j) \in DOMAIN file /\ file[Position(j)].id = j
      BY <2>2, PositionInFile DEF QueuedTurn, FileItems, IInv
  <2> QED
      BY <2>1, <2>3, <2>4, ReplacedFile DEF IInv
<1>7. ASSUME NEW k \in Items, StartAges(k) PROVE FALSE
  <2> DEFINE x == [file[k] EXCEPT !.stale = TRUE]
  <2>1. k \in DOMAIN file /\ file' = SetItem(k, x) /\ made' = made
      BY <1>7 DEF StartAges, countVars
  <2>2. x \in FileItems /\ x.id = file[k].id
    <3>1. file[k] \in FileItems
        BY <2>1, FileShape DEF IInv
    <3> QED
        BY <3>1 DEF FileItems
  <2> HIDE DEF x
  <2> QED
      BY <2>1, <2>2, ReplacedFile DEF IInv
<1>8. ASSUME NEW p \in Procs,
             \/ DrainCheck(p) \/ Crash(p) \/ Restart(p)
             \/ \E s \in Slots : \/ StartRequest(p, s) \/ PersistTurnStart(p, s)
                                 \/ StartFails(p, s) \/ StartTimesOut(p, s)
             \/ \E j \in Items : Ended(p, j)
      PROVE  file' = file
    BY <1>8 DEF DrainCheck, Crash, Restart, StartRequest, PersistTurnStart, StartFails,
                StartTimesOut, Ended
<1>9. CASE RecordAges \/ (\E j \in Items : TurnEnds(j)) \/ UNCHANGED vars
    BY <1>1, <1>9 DEF RecordAges, TurnEnds, vars
<1>10. ASSUME NEW p \in Procs, Caller(p) \/ Loop(p) PROVE starts[i] > 0 \/ i \in cancelled'
    BY <1>1, <1>2, <1>3, <1>4, <1>5, <1>6, <1>8, <1>10 DEF Caller, Loop
<1>11. CASE Environment
    BY <1>1, <1>7, <1>8, <1>9, <1>11 DEF Environment
<1> QED
    BY <1>9, <1>10, <1>11 DEF Next

\* A queued prompt leaves the file only by being started or by being cancelled
\* (app_queue.py:119-130, 257-265).
THEOREM NothingIsLost == Spec => QueueLosesNothing
<1> DEFINE A == \A i \in Items :
                   InFile(i) /\ ~InFile(i)' => starts[i] > 0 \/ i \in cancelled'
<1>1. ASSUME IInv, IInv', [Next]_vars PROVE [A]_vars
  <2>1. ASSUME NEW i \in Items, InFile(i), ~InFile(i)' PROVE starts[i] > 0 \/ i \in cancelled'
    <3>1. i \in Listed /\ i \notin Listed'
        BY <2>1 DEF InFile, Listed
    <3> QED
        BY <1>1, <3>1, RemovalIsExplained
  <2> QED
      BY <2>1
<1>2. [][A]_vars <=> QueueLosesNothing
    BY DEF QueueLosesNothing
<1> QED
    BY Invariance, <1>1, <1>2, PTL DEF Spec
=============================================================================
