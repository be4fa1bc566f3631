------------------------- MODULE ApprovalGate_proofs -------------------------
(***************************************************************************)
(* TLAPS proofs about ApprovalGate, for any processes, approvers and       *)
(* turns, any number of calls and any answers.                             *)
(***************************************************************************)
EXTENDS ApprovalGate, TLAPS

-----------------------------------------------------------------------------
(* The inductive invariant.                                                *)

\* The file lock: one actor at a time has read the file and not written it yet, and the
\* file is still what it read.
LockIsExclusive == \A a, b \in Actors : held[a] # <<>> /\ held[b] # <<>> => a = b
SnapshotsAreCurrent == \A a \in Actors : held[a] # <<>> => Snapshot(a) = file

Undecided(r) == call[r] \in {"none", "record", "check", "wait"}
InFlight(r) == call[r] \in {"record", "check", "wait", "clear"}

\* A call that is under way belongs to a process that lives; it has no outcome yet, nor has
\* one that is still to be made.
CallsAreInOrder ==
    \A r \in Calls :
        /\ r > made => call[r] = "none" /\ owner[r] = NoCall
        /\ Undecided(r) => outcome[r] = "none"
        /\ InFlight(r) => owner[r] \in Gates /\ gate[owner[r]] # "dead"

\* A decision in the file, and one in a call's future, was given to this very call; a future
\* may also hold the cancellation of the call's turn, or of a callback that is over.
DecisionsAreGiven == \A r \in Calls : file.decisions[r] \in given[r] \cup {"none"}
FuturesAreExplained ==
    \A r \in Calls :
        \/ future[r] \in given[r] \cup {"none"}
        \/ future[r] = "cancel" /\ (r \in scoped \/ ~Undecided(r))

\* A cancelled call never looks at the file again.
CancellationsHold ==
    \A r \in scoped \ dropped :
        /\ call[r] \notin {"none", "record", "check"}
        /\ call[r] = "wait" => future[r] = "cancel"
        /\ outcome[r] # "accept"

LockInv == LockIsExclusive /\ SnapshotsAreCurrent
AnswerInv == DecisionsAreGiven /\ FuturesAreExplained /\ OutcomesAreExplained
IInv == StoreIsClean /\ LockInv /\ CallsAreInOrder /\ AnswerInv /\ CancellationsHold

-----------------------------------------------------------------------------
(* Reading and writing the file.                                           *)

\* What an actor holds is a file, and the file is replaced by a file.
LEMMA EditsAreFiles ==
    ASSUME NEW f \in Files, NEW r \in Calls, NEW d \in Decisions \cup {"none"}, NEW rs
    PROVE  /\ Without(f, rs) \in Files
           /\ [f EXCEPT !.requests = @ \cup {r}] \in Files
           /\ [f EXCEPT !.decisions[r] = d] \in Files
<1>1. f.requests \subseteq Calls /\ f.decisions \in [Calls -> Decisions \cup {"none"}]
      /\ f = [requests |-> f.requests, decisions |-> f.decisions]
    BY DEF Files
<1>2. Without(f, rs) \in Files
    BY <1>1 DEF Without, Files
<1>3. [f EXCEPT !.requests = @ \cup {r}] \in Files
    BY <1>1 DEF Files
<1>4. [f EXCEPT !.decisions[r] = d] \in Files
    BY <1>1 DEF Files
<1> QED
    BY <1>2, <1>3, <1>4

HeldTypeOK == held \in [Actors -> {<<>>} \cup (Files \X Actors)]

LEMMA SnapshotType ==
    ASSUME HeldTypeOK, NEW a \in Actors, held[a] # <<>>
    PROVE  Snapshot(a) \in Files
BY DEF HeldTypeOK, Snapshot

LEMMA ReadTypes ==
    ASSUME HeldTypeOK, file \in Files, NEW a \in Actors, Read(a)
    PROVE  HeldTypeOK'
BY DEF HeldTypeOK, Read

LEMMA WriteTypes ==
    ASSUME HeldTypeOK, NEW a \in Actors, NEW f \in Files, Write(a, f)
    PROVE  HeldTypeOK' /\ file' \in Files
BY DEF HeldTypeOK, Write

\* A file that was read under the lock is the file, until its holder writes it.
LEMMA ReadKeepsLock ==
    ASSUME HeldTypeOK, LockInv, NEW a \in Actors, Read(a), UNCHANGED file
    PROVE  LockInv'
<1>1. \A b \in Actors : held'[b] = IF b = a THEN <<file, a>> ELSE <<>>
    BY DEF Read, LockFree, HeldTypeOK
<1>2. LockIsExclusive'
    BY <1>1 DEF LockIsExclusive
<1>3. SnapshotsAreCurrent'
    BY <1>1 DEF SnapshotsAreCurrent, Snapshot
<1> QED
    BY <1>2, <1>3 DEF LockInv

LEMMA LettingGoKeepsLock ==
    ASSUME HeldTypeOK, LockInv, NEW a \in Actors, held[a] # <<>>,
           held' = [held EXCEPT ![a] = <<>>]
    PROVE  LockInv'
<1>1. \A b \in Actors : held'[b] = <<>>
    BY DEF HeldTypeOK, LockInv, LockIsExclusive
<1> QED
    BY <1>1 DEF LockInv, LockIsExclusive, SnapshotsAreCurrent

LEMMA WriteKeepsLock ==
    ASSUME HeldTypeOK, LockInv, NEW a \in Actors, NEW f, Write(a, f)
    PROVE  LockInv' /\ Snapshot(a) = file
BY LettingGoKeepsLock DEF Write, LockInv, SnapshotsAreCurrent

-----------------------------------------------------------------------------
(* Each part of the invariant holds at the start and is kept by every step. *)

LEMMA InitIInv == Init => IInv
<1> SUFFICES ASSUME Init PROVE IInv
    OBVIOUS
<1>1. TypeOK
    BY GateAssumption DEF Init, TypeOK, Files, Decisions
<1>2. StoreIsClean
    BY <1>1 DEF Init, StoreIsClean
<1>3. LockInv /\ CallsAreInOrder /\ CancellationsHold
    BY DEF Init, LockInv, LockIsExclusive, SnapshotsAreCurrent, CallsAreInOrder, InFlight,
           CancellationsHold
<1>4. AnswerInv
    BY DEF Init, AnswerInv, DecisionsAreGiven, FuturesAreExplained, OutcomesAreExplained
<1> QED
    BY <1>2, <1>3, <1>4 DEF IInv

StateTypeOK ==
    /\ gate \in [Gates -> {"unborn", "starting", "up", "dead"}]
    /\ made \in 0..MaxCalls
    /\ owner \in [Calls -> Gates \cup {NoCall}] /\ turn \in [Calls -> Turns \cup {NoCall}]
    /\ call \in [Calls -> {"none", "record", "check", "wait", "clear", "done", "dead"}]
    /\ future \in [Calls -> Decisions \cup {"none"}]
    /\ age \in [Calls -> 0..2]
    /\ outcome \in [Calls -> Decisions \cup {"none", "raised"}]
    /\ intent \in [Approvers -> [call : Calls \cup {NoCall}, decision : Decisions]]
    /\ given \in [Calls -> SUBSET Decisions]
    /\ scoped \subseteq Calls /\ dropped \subseteq Calls

LEMMA TypeParts == TypeOK <=> StateTypeOK /\ HeldTypeOK /\ file \in Files
BY DEF TypeOK, StateTypeOK, HeldTypeOK

\* The file and the snapshots keep their types, and the lock its holder.
LEMMA LockStep == TypeOK /\ LockInv /\ [Next]_vars => HeldTypeOK' /\ (file \in Files)' /\ LockInv'
<1> SUFFICES ASSUME TypeOK, LockInv, [Next]_vars
             PROVE  HeldTypeOK' /\ (file \in Files)' /\ LockInv'
    OBVIOUS
<1> USE TypeParts
<1>1. CASE UNCHANGED <<file, held>>
    BY <1>1 DEF HeldTypeOK, LockInv, LockIsExclusive, SnapshotsAreCurrent, Snapshot
<1>2. ASSUME NEW a \in Actors, Read(a), UNCHANGED file
      PROVE  HeldTypeOK' /\ (file \in Files)' /\ LockInv'
    BY <1>2, ReadTypes, ReadKeepsLock
<1>3. ASSUME NEW a \in Actors, NEW f \in Files, Write(a, f)
      PROVE  HeldTypeOK' /\ (file \in Files)' /\ LockInv'
    BY <1>3, WriteTypes, WriteKeepsLock
<1>4. ASSUME NEW a \in Actors, held[a] # <<>>, held' = [held EXCEPT ![a] = <<>>], UNCHANGED file
      PROVE  HeldTypeOK' /\ (file \in Files)' /\ LockInv'
    BY <1>4, LettingGoKeepsLock DEF HeldTypeOK
<1>5. ASSUME NEW r \in Calls, Locks(r)
      PROVE  HeldTypeOK' /\ (file \in Files)' /\ LockInv'
    BY <1>2, <1>5 DEF Locks, RecordRead, PollRead, ClearRead, Actors
<1>6. ASSUME NEW r \in Calls, RecordWrite(r)
      PROVE  HeldTypeOK' /\ (file \in Files)' /\ LockInv'
  <2>1. held[r] # <<>> /\ r \in Actors
    BY <1>6 DEF RecordWrite, Write, Actors
  <2>2. [Snapshot(r) EXCEPT !.requests = @ \cup {r}] \in Files
    BY <2>1, SnapshotType, EditsAreFiles
  <2> QED
    BY <1>3, <1>6, <2>1, <2>2 DEF RecordWrite
<1>7. ASSUME NEW r \in Calls, PollPop(r)
      PROVE  HeldTypeOK' /\ (file \in Files)' /\ LockInv'
  <2>1. held[r] # <<>> /\ r \in Actors
    BY <1>7 DEF PollPop, Actors
  <2>2. [Snapshot(r) EXCEPT !.decisions[r] = "none"] \in Files
    BY <2>1, SnapshotType, EditsAreFiles
  <2> QED
    BY <1>3, <1>4, <1>7, <2>1, <2>2 DEF PollPop
<1>8. ASSUME NEW r \in Calls, ClearWrite(r)
      PROVE  HeldTypeOK' /\ (file \in Files)' /\ LockInv'
  <2>1. held[r] # <<>> /\ r \in Actors
    BY <1>8 DEF ClearWrite, Write, Actors
  <2>2. Without(Snapshot(r), {r}) \in Files
    BY <2>1, SnapshotType, EditsAreFiles
  <2> QED
    BY <1>3, <1>8, <2>1, <2>2 DEF ClearWrite
<1>9. ASSUME NEW a \in Approvers, NEW r \in Calls, NEW d \in Answers, DecideRead(a, r, d)
      PROVE  HeldTypeOK' /\ (file \in Files)' /\ LockInv'
    BY <1>2, <1>9 DEF DecideRead, Actors
<1>10. ASSUME NEW a \in Approvers, DecideWrite(a)
       PROVE  HeldTypeOK' /\ (file \in Files)' /\ LockInv'
  <2>1. held[a] # <<>> /\ a \in Actors /\ Snapshot(a) \in Files
    BY <1>10, SnapshotType DEF DecideWrite, Actors
  <2>2. CASE intent[a].call \in Snapshot(a).requests
    <3>1. intent[a].call \in Calls /\ intent[a].decision \in Decisions
        BY <2>1, <2>2 DEF Files, StateTypeOK
    <3>2. [Snapshot(a) EXCEPT !.decisions[intent[a].call] = intent[a].decision] \in Files
        BY <2>1, <3>1, EditsAreFiles
    <3> QED
        BY <1>3, <1>10, <2>1, <2>2, <3>2 DEF DecideWrite
  <2>3. CASE intent[a].call \notin Snapshot(a).requests
    BY <1>4, <1>10, <2>1, <2>3 DEF DecideWrite
  <2> QED
    BY <2>2, <2>3
<1>11. ASSUME NEW g \in Gates, GateStart(g)
       PROVE  HeldTypeOK' /\ (file \in Files)' /\ LockInv'
    BY <1>2, <1>11 DEF GateStart, Actors
<1>12. ASSUME NEW g \in Gates, Sweep(g)
       PROVE  HeldTypeOK' /\ (file \in Files)' /\ LockInv'
  <2>1. held[g] # <<>> /\ g \in Actors
    BY <1>12 DEF Sweep, Write, Actors
  <2>2. Without(Snapshot(g), {r \in Snapshot(g).requests : Orphaned(r)}) \in Files
    BY <2>1, SnapshotType DEF Without, Files
  <2> QED
    BY <1>3, <1>12, <2>1, <2>2 DEF Sweep
<1>13. ASSUME NEW g \in Gates, GateDies(g)
       PROVE  HeldTypeOK' /\ (file \in Files)' /\ LockInv'
  <2>1. UNCHANGED file /\ \A a \in Actors : held'[a] \in {<<>>, held[a]}
    BY <1>13 DEF GateDies
  <2>2. HeldTypeOK'
    BY <1>13 DEF GateDies, HeldTypeOK
  <2>3. LockIsExclusive'
    BY <2>1 DEF LockInv, LockIsExclusive
  <2>4. SnapshotsAreCurrent'
    BY <2>1 DEF LockInv, SnapshotsAreCurrent, Snapshot
  <2> QED
    BY <2>1, <2>2, <2>3, <2>4 DEF LockInv
<1>14. ASSUME NEW r \in Calls, TimeOut(r) \/ PollSkip(r) \/ Resumes(r) \/ CallCancelled(r) \/ Age(r)
       PROVE  UNCHANGED <<file, held>>
    BY <1>14 DEF TimeOut, PollSkip, Resumes, Wake, Answered, CallCancelled, Age
<1>15. ASSUME NEW g \in Gates, NEW t \in Turns, RequestPermission(g, t) \/ CancelScope(g, t)
       PROVE  UNCHANGED <<file, held>>
    BY <1>15 DEF RequestPermission, CancelScope
<1>16. ASSUME NEW r \in Calls, NEW d \in Answers, Resolve(r, d)
       PROVE  UNCHANGED <<file, held>>
    BY <1>16 DEF Resolve
<1>17. ASSUME UNCHANGED vars PROVE UNCHANGED <<file, held>>
    BY <1>17 DEF vars
<1> QED
    BY <1>1, <1>5, <1>6, <1>7, <1>8, <1>9, <1>10, <1>11, <1>12, <1>13, <1>14, <1>15, <1>16, <1>17
    DEF Next, Runs

\* The rest of the state keeps its type.
LEMMA StateStep == TypeOK /\ [Next]_vars => StateTypeOK'
<1> SUFFICES ASSUME TypeOK, [Next]_vars PROVE StateTypeOK'
    OBVIOUS
<1>0. StateTypeOK /\ HeldTypeOK /\ file \in Files
    BY TypeParts
<1> USE GateAssumption DEF StateTypeOK, Decisions
<1>1. ASSUME NEW g \in Gates, NEW t \in Turns, RequestPermission(g, t) PROVE StateTypeOK'
  <2>1. made + 1 \in Calls /\ made' \in 0..MaxCalls
    BY <1>0, <1>1 DEF RequestPermission, Calls
  <2> QED
    BY <1>0, <1>1, <2>1 DEF RequestPermission
<1>2. ASSUME NEW g \in Gates, NEW t \in Turns, CancelScope(g, t) PROVE StateTypeOK'
    BY <1>0, <1>2 DEF CancelScope, callVars
<1>3. ASSUME NEW r \in Calls, RecordWrite(r) PROVE StateTypeOK'
    BY <1>0, <1>3 DEF RecordWrite, callVars
<1>4. ASSUME NEW r \in Calls, TimeOut(r) PROVE StateTypeOK'
    BY <1>0, <1>4 DEF TimeOut, Return, callVars
<1>5. ASSUME NEW r \in Calls, PollSkip(r) PROVE StateTypeOK'
    BY <1>0, <1>5 DEF PollSkip, callVars
<1>6. ASSUME NEW r \in Calls, PollPop(r) PROVE StateTypeOK'
  <2>1. held[r] # <<>> /\ r \in Actors
    BY <1>6 DEF PollPop, Actors
  <2>2. Snapshot(r).decisions[r] \in Decisions \cup {"none"}
    BY <1>0, <2>1, SnapshotType DEF Files
  <2> QED
    BY <1>0, <1>6, <2>2 DEF PollPop, Return, callVars
<1>7. ASSUME NEW r \in Calls, ClearWrite(r) PROVE StateTypeOK'
    BY <1>0, <1>7 DEF ClearWrite, callVars
<1>8. ASSUME NEW r \in Calls, Locks(r) PROVE StateTypeOK'
    BY <1>0, <1>8 DEF Locks, RecordRead, PollRead, ClearRead, callVars
<1>9. ASSUME NEW r \in Calls, Wake(r) PROVE StateTypeOK'
    BY <1>0, <1>9 DEF Wake, callVars
<1>10. ASSUME NEW r \in Calls, Answered(r) PROVE StateTypeOK'
    BY <1>0, <1>10 DEF Answered, Return, callVars
<1>11. ASSUME NEW r \in Calls, CallCancelled(r) PROVE StateTypeOK'
    BY <1>0, <1>11 DEF CallCancelled, Return, callVars
<1>12. ASSUME NEW r \in Calls, Age(r) PROVE StateTypeOK'
    BY <1>0, <1>12 DEF Age, callVars
<1>13. ASSUME NEW r \in Calls, NEW d \in Answers, Resolve(r, d) PROVE StateTypeOK'
    BY <1>0, <1>13 DEF Resolve, callVars
<1>14. ASSUME NEW a \in Approvers, NEW r \in Calls, NEW d \in Answers, DecideRead(a, r, d)
       PROVE  StateTypeOK'
    BY <1>0, <1>14 DEF DecideRead, callVars
<1>15. ASSUME NEW a \in Approvers, DecideWrite(a) PROVE StateTypeOK'
  <2>1. given' \in [Calls -> SUBSET Decisions]
    <3>1. intent[a].decision \in Decisions
        BY <1>0
    <3> QED
        BY <1>0, <1>15, <3>1 DEF DecideWrite
  <2> QED
    BY <1>0, <1>15, <2>1 DEF DecideWrite, callVars
<1>16. ASSUME NEW g \in Gates, GateStart(g) \/ Sweep(g) PROVE StateTypeOK'
    BY <1>0, <1>16 DEF GateStart, Sweep, callVars
<1>17. ASSUME NEW g \in Gates, GateDies(g) PROVE StateTypeOK'
    BY <1>0, <1>17 DEF GateDies, callVars
<1>18. CASE UNCHANGED vars
    BY <1>0, <1>18 DEF vars, callVars
<1> QED
    BY <1>1, <1>2, <1>3, <1>4, <1>5, <1>6, <1>7, <1>8, <1>9, <1>10, <1>11, <1>12, <1>13, <1>14,
       <1>15, <1>16, <1>17, <1>18
    DEF Next, Runs, Resumes

LEMMA TypeStep == TypeOK /\ LockInv /\ [Next]_vars => TypeOK'
BY LockStep, StateStep, TypeParts DEF TypeOK, StateTypeOK, HeldTypeOK

\* What the writers do to the file, said of the file and not of their snapshots.
LEMMA FileShape ==
    ASSUME TypeOK, LockInv
    PROVE  /\ StateTypeOK
           /\ file.requests \subseteq Calls /\ file.decisions \in [Calls -> Decisions \cup {"none"}]
           /\ file = [requests |-> file.requests, decisions |-> file.decisions]
           /\ \A a \in Actors : held[a] # <<>> => Snapshot(a) = file
BY TypeParts DEF LockInv, SnapshotsAreCurrent, Files

LEMMA RecordWrites ==
    ASSUME TypeOK, LockInv, NEW r \in Calls, RecordWrite(r)
    PROVE  file'.requests = file.requests \cup {r} /\ file'.decisions = file.decisions
<1>1. Snapshot(r) = file /\ file' = [Snapshot(r) EXCEPT !.requests = @ \cup {r}]
    BY FileShape DEF RecordWrite, Write, Actors
<1> QED
    BY FileShape, <1>1

LEMMA PollPops ==
    ASSUME TypeOK, LockInv, NEW r \in Calls, PollPop(r)
    PROVE  /\ file'.requests = file.requests
           /\ file'.decisions = [file.decisions EXCEPT ![r] = "none"]
           /\ \/ file.decisions[r] # "none" /\ Return(r, file.decisions[r])
              \/ file.decisions[r] = "none" /\ age[r] = 2 /\ Return(r, "decline")
              \/ /\ file.decisions[r] = "none"
                 /\ call' = [call EXCEPT ![r] = "wait"] /\ UNCHANGED outcome
<1>1. Snapshot(r) = file
    BY FileShape DEF PollPop, Actors
<1>2. CASE file.decisions[r] = "none"
    BY FileShape, <1>1, <1>2 DEF PollPop
<1>3. CASE file.decisions[r] # "none"
  <2>1. file' = [file EXCEPT !.decisions[r] = "none"] /\ Return(r, file.decisions[r])
    BY <1>1, <1>3 DEF PollPop, Write
  <2> QED
    BY FileShape, <1>3, <2>1
<1> QED
    BY <1>2, <1>3

LEMMA Removals ==
    ASSUME TypeOK, LockInv, NEW rs, file' = Without(file, rs)
    PROVE  /\ file'.requests = file.requests \ rs
           /\ \A q \in Calls : file'.decisions[q] = IF q \in rs THEN "none" ELSE file.decisions[q]
BY FileShape DEF Without

LEMMA ClearWrites ==
    ASSUME TypeOK, LockInv, NEW r \in Calls, ClearWrite(r)
    PROVE  file' = Without(file, {r})
BY FileShape DEF ClearWrite, Write, Actors

LEMMA Sweeps ==
    ASSUME TypeOK, LockInv, NEW g \in Gates, Sweep(g)
    PROVE  file' = Without(file, {r \in file.requests : Orphaned(r)})
BY FileShape DEF Sweep, Write, Actors

LEMMA DecideWrites ==
    ASSUME TypeOK, LockInv, NEW a \in Approvers, DecideWrite(a)
    PROVE  \/ UNCHANGED <<file, given>>
           \/ \E r \in file.requests, d \in Decisions :
                 /\ file'.requests = file.requests
                 /\ file'.decisions = [file.decisions EXCEPT ![r] = d]
                 /\ given' = [given EXCEPT ![r] = @ \cup {d}]
<1>1. Snapshot(a) = file
    BY FileShape DEF DecideWrite, Actors
<1>2. CASE intent[a].call \in file.requests
  <2> DEFINE r == intent[a].call
             d == intent[a].decision
  <2>1. file' = [file EXCEPT !.decisions[r] = d] /\ given' = [given EXCEPT ![r] = @ \cup {d}]
    BY <1>1, <1>2 DEF DecideWrite, Write
  <2>2. d \in Decisions
    BY FileShape DEF StateTypeOK
  <2> QED
    BY FileShape, <1>2, <2>1, <2>2
<1>3. CASE intent[a].call \notin file.requests
    BY <1>1, <1>3 DEF DecideWrite
<1> QED
    BY <1>2, <1>3

\* A call that goes on inside its process keeps the order of things.
LEMMA ProgressKeepsOrder ==
    ASSUME StateTypeOK, CallsAreInOrder, NEW r \in Calls, InFlight(r),
           NEW c \in {"check", "wait", "clear", "done"}, call' = [call EXCEPT ![r] = c],
           c \in {"check", "wait"} => outcome'[r] = outcome[r] /\ call[r] # "clear",
           \A q \in Calls : q # r => outcome'[q] = outcome[q],
           UNCHANGED <<gate, owner, made>>
    PROVE  CallsAreInOrder'
<1> SUFFICES ASSUME NEW q \in Calls
             PROVE  /\ q > made => call'[q] = "none" /\ owner'[q] = NoCall
                    /\ Undecided(q)' => outcome'[q] = "none"
                    /\ InFlight(q)' => owner[q] \in Gates /\ gate[owner[q]] # "dead"
    BY DEF CallsAreInOrder
<1>1. CASE q = r
    BY <1>1 DEF StateTypeOK, CallsAreInOrder, Undecided, InFlight
<1>2. CASE q # r
    BY <1>2 DEF StateTypeOK, CallsAreInOrder, Undecided, InFlight
<1> QED
    BY <1>1, <1>2

LEMMA OrderStep == TypeOK /\ CallsAreInOrder /\ [Next]_vars => CallsAreInOrder'
<1> SUFFICES ASSUME TypeOK, CallsAreInOrder, [Next]_vars PROVE CallsAreInOrder'
    OBVIOUS
<1>0. StateTypeOK
    BY TypeParts
<1>1. ASSUME NEW g \in Gates, NEW t \in Turns, RequestPermission(g, t) PROVE CallsAreInOrder'
  <2>1. /\ made \in Nat /\ made < MaxCalls /\ made' = made + 1
        /\ owner' = [owner EXCEPT ![made + 1] = g] /\ call' = [call EXCEPT ![made + 1] = "record"]
        /\ UNCHANGED <<gate, outcome>> /\ gate[g] = "up"
    BY <1>0, <1>1 DEF RequestPermission, LoopIsFree, StateTypeOK
  <2>2. made + 1 \in Calls /\ \A q \in Calls : q \in Nat
    BY <2>1, GateAssumption DEF Calls
  <2>3. call[made + 1] = "none" /\ outcome[made + 1] = "none"
    BY <2>1, <2>2 DEF CallsAreInOrder, Undecided
  <2> SUFFICES ASSUME NEW q \in Calls
               PROVE  /\ q > made' => call'[q] = "none" /\ owner'[q] = NoCall
                      /\ Undecided(q)' => outcome'[q] = "none"
                      /\ InFlight(q)' => owner'[q] \in Gates /\ gate'[owner'[q]] # "dead"
    BY DEF CallsAreInOrder
  <2>4. CASE q = made + 1
    BY <1>0, <2>1, <2>2, <2>3, <2>4 DEF StateTypeOK
  <2>5. CASE q # made + 1
    <3>1. call'[q] = call[q] /\ owner'[q] = owner[q] /\ (q > made' => q > made)
        BY <1>0, <2>1, <2>2, <2>5 DEF StateTypeOK
    <3> QED
        BY <2>1, <3>1 DEF CallsAreInOrder, Undecided, InFlight
  <2> QED
    BY <2>4, <2>5
<1>2. ASSUME NEW r \in Calls, RecordWrite(r) \/ PollSkip(r) PROVE CallsAreInOrder'
    BY <1>0, <1>2, ProgressKeepsOrder DEF RecordWrite, PollSkip, callVars, InFlight
<1>3. ASSUME NEW r \in Calls, NEW d, InFlight(r), Return(r, d), UNCHANGED <<gate, owner, made>>
      PROVE  CallsAreInOrder'
    BY <1>0, <1>3, ProgressKeepsOrder DEF Return, StateTypeOK
<1>4. ASSUME NEW r \in Calls, TimeOut(r) PROVE CallsAreInOrder'
    BY <1>3, <1>4 DEF TimeOut, callVars, InFlight
<1>5. ASSUME NEW r \in Calls, PollPop(r) PROVE CallsAreInOrder'
  <2>1. call[r] = "check" /\ UNCHANGED <<gate, owner, made>>
    BY <1>5 DEF PollPop, callVars
  <2>2. \/ \E d : Return(r, d)
        \/ call' = [call EXCEPT ![r] = "wait"] /\ UNCHANGED outcome
    BY <1>5 DEF PollPop
  <2> QED
    BY <1>0, <1>3, <2>1, <2>2, ProgressKeepsOrder DEF InFlight
<1>6. ASSUME NEW r \in Calls, ClearWrite(r) PROVE CallsAreInOrder'
    BY <1>0, <1>6, ProgressKeepsOrder DEF ClearWrite, callVars, InFlight
<1>7. ASSUME NEW r \in Calls, Wake(r) PROVE CallsAreInOrder'
    BY <1>0, <1>7, ProgressKeepsOrder DEF Wake, Pending, callVars, InFlight
<1>8. ASSUME NEW r \in Calls, Answered(r) \/ CallCancelled(r) PROVE CallsAreInOrder'
    BY <1>3, <1>8 DEF Answered, CallCancelled, Pending, callVars, InFlight
<1>9. ASSUME NEW g \in Gates, GateStart(g) \/ Sweep(g) PROVE CallsAreInOrder'
  <2>1. /\ UNCHANGED <<made, owner, call, outcome>>
        /\ \A h \in Gates : gate'[h] = "dead" => gate[h] = "dead"
    BY <1>0, <1>9 DEF GateStart, Sweep, callVars, StateTypeOK
  <2> QED
    BY <2>1 DEF CallsAreInOrder, Undecided, InFlight
<1>10. ASSUME NEW g \in Gates, GateDies(g) PROVE CallsAreInOrder'
  <2>1. /\ UNCHANGED <<made, owner, outcome>>
        /\ \A h \in Gates : h # g => gate'[h] = gate[h]
        /\ \A q \in Calls : \/ call'[q] = call[q]
                            \/ call'[q] = "dead" /\ call[q] # "done" /\ owner[q] = g
        /\ \A q \in Calls : owner[q] = g => call'[q] \in {"done", "dead"}
    BY <1>0, <1>10 DEF GateDies, callVars, StateTypeOK
  <2> QED
    BY <2>1, GateAssumption DEF CallsAreInOrder, Undecided, InFlight
<1>11. ASSUME UNCHANGED <<gate, owner, made, call, outcome>> PROVE CallsAreInOrder'
    BY <1>11 DEF CallsAreInOrder, Undecided, InFlight
<1>12. ASSUME NEW r \in Calls, Locks(r) \/ Age(r) \/ \E d \in Answers : Resolve(r, d)
       PROVE  UNCHANGED <<gate, owner, made, call, outcome>>
    BY <1>12 DEF Locks, RecordRead, PollRead, ClearRead, Age, Resolve, callVars
<1>13. ASSUME NEW a \in Approvers, DecideWrite(a) \/ \E r \in Calls, d \in Answers : DecideRead(a, r, d)
       PROVE  UNCHANGED <<gate, owner, made, call, outcome>>
    BY <1>13 DEF DecideRead, DecideWrite, callVars
<1>14. ASSUME NEW g \in Gates, NEW t \in Turns, CancelScope(g, t)
       PROVE  UNCHANGED <<gate, owner, made, call, outcome>>
    BY <1>14 DEF CancelScope, callVars
<1>15. ASSUME UNCHANGED vars PROVE UNCHANGED <<gate, owner, made, call, outcome>>
    BY <1>15 DEF vars, callVars
<1> QED
    BY <1>1, <1>2, <1>4, <1>5, <1>6, <1>7, <1>8, <1>9, <1>10, <1>11, <1>12, <1>13, <1>14, <1>15
    DEF Next, Runs, Resumes

\* A call that is done left the file before, and no write of another actor brings it back.
Clean == \A r \in Calls :
            /\ r \in file.requests => call[r] # "done"
            /\ file.decisions[r] # "none" => r \in file.requests

LEMMA CleanStep == TypeOK /\ LockInv /\ Clean /\ [Next]_vars => Clean'
<1> SUFFICES ASSUME TypeOK, LockInv, Clean, [Next]_vars PROVE Clean'
    OBVIOUS
<1>0. /\ call \in [Calls -> {"none", "record", "check", "wait", "clear", "done", "dead"}]
      /\ file.requests \subseteq Calls /\ file.decisions \in [Calls -> Decisions \cup {"none"}]
    BY FileShape DEF StateTypeOK
<1>1. ASSUME NEW r \in Calls, RecordWrite(r) PROVE Clean'
  <2>1. /\ file'.requests = file.requests \cup {r} /\ file'.decisions = file.decisions
        /\ call' = [call EXCEPT ![r] = "check"]
    BY <1>1, RecordWrites DEF RecordWrite
  <2> QED
    BY <1>0, <2>1 DEF Clean
<1>2. ASSUME NEW r \in Calls, PollPop(r) PROVE Clean'
  <2>1. /\ file'.requests = file.requests
        /\ file'.decisions = [file.decisions EXCEPT ![r] = "none"]
        /\ \E c \in {"clear", "wait"} : call' = [call EXCEPT ![r] = c]
    BY <1>2, PollPops DEF Return
  <2> QED
    BY <1>0, <2>1 DEF Clean
<1>3. ASSUME NEW r \in Calls, ClearWrite(r) PROVE Clean'
  <2>1. /\ file'.requests = file.requests \ {r} /\ call' = [call EXCEPT ![r] = "done"]
        /\ \A q \in Calls : file'.decisions[q] = IF q \in {r} THEN "none" ELSE file.decisions[q]
    BY <1>3, ClearWrites, Removals DEF ClearWrite
  <2> QED
    BY <1>0, <2>1 DEF Clean
<1>4. ASSUME NEW g \in Gates, Sweep(g) PROVE Clean'
  <2> DEFINE rs == {r \in file.requests : Orphaned(r)}
  <2>1. /\ file'.requests = file.requests \ rs /\ UNCHANGED call
        /\ \A q \in Calls : file'.decisions[q] = IF q \in rs THEN "none" ELSE file.decisions[q]
    BY <1>4, Sweeps, Removals DEF Sweep
  <2> HIDE DEF rs
  <2> QED
    BY <1>0, <2>1 DEF Clean
<1>5. ASSUME NEW a \in Approvers, DecideWrite(a) PROVE Clean'
  <2>1. UNCHANGED call
    BY <1>5 DEF DecideWrite
  <2>2. CASE UNCHANGED file
    BY <2>1, <2>2 DEF Clean
  <2>3. ASSUME NEW r \in file.requests, NEW d \in Decisions, file'.requests = file.requests,
               file'.decisions = [file.decisions EXCEPT ![r] = d]
        PROVE  Clean'
    BY <1>0, <2>1, <2>3 DEF Clean
  <2> QED
    BY <1>5, <2>2, <2>3, DecideWrites
<1>6. ASSUME UNCHANGED file, \A r \in Calls : call'[r] = "done" => call[r] = "done" PROVE Clean'
    BY <1>6 DEF Clean
<1>7. ASSUME NEW r \in Calls,
             TimeOut(r) \/ PollSkip(r) \/ Locks(r) \/ Resumes(r) \/ CallCancelled(r) \/ Age(r)
      PROVE  Clean'
  <2>1. /\ UNCHANGED file
        /\ UNCHANGED call \/ \E c \in {"check", "wait", "clear"} : call' = [call EXCEPT ![r] = c]
    BY <1>7 DEF TimeOut, PollSkip, Locks, RecordRead, PollRead, ClearRead, Resumes, Wake, Answered,
                CallCancelled, Age, Return
  <2> QED
    BY <1>0, <1>6, <2>1
<1>8. ASSUME NEW g \in Gates, NEW t \in Turns, RequestPermission(g, t) \/ CancelScope(g, t) PROVE Clean'
    BY <1>0, <1>6, <1>8 DEF RequestPermission, CancelScope
<1>9. ASSUME NEW r \in Calls, NEW d \in Answers, Resolve(r, d) PROVE Clean'
    BY <1>6, <1>9 DEF Resolve
<1>10. ASSUME NEW a \in Approvers, NEW r \in Calls, NEW d \in Answers, DecideRead(a, r, d) PROVE Clean'
    BY <1>6, <1>10 DEF DecideRead
<1>11. ASSUME NEW g \in Gates, GateStart(g) \/ GateDies(g) PROVE Clean'
    BY <1>0, <1>6, <1>11 DEF GateStart, GateDies
<1>12. CASE UNCHANGED vars
    BY <1>6, <1>12 DEF vars
<1> QED
    BY <1>1, <1>2, <1>3, <1>4, <1>5, <1>7, <1>8, <1>9, <1>10, <1>11, <1>12 DEF Next, Runs

\* Whoever decides on a call is remembered, so what nobody touches stays explained.
LEMMA NothingIsTakenBack ==
    ASSUME TypeOK, LockInv, [Next]_vars, NEW r \in Calls
    PROVE  given[r] \subseteq given'[r] /\ scoped \subseteq scoped' /\ (age[r] = 2 => age'[r] = 2)
<1>0. StateTypeOK
    BY TypeParts
<1>1. CASE UNCHANGED <<given, scoped, age>>
    BY <1>1
<1>2. CASE \E g \in Gates, t \in Turns : CancelScope(g, t)
    BY <1>2 DEF CancelScope
<1>3. CASE \E q \in Calls, d \in Answers : Resolve(q, d)
    BY <1>0, <1>3 DEF Resolve, StateTypeOK
<1>4. CASE \E a \in Approvers : DecideWrite(a)
    BY <1>0, <1>4 DEF DecideWrite, StateTypeOK
<1>5. CASE \E q \in Calls : Age(q)
    BY <1>0, <1>5 DEF Age, StateTypeOK
<1>6. ASSUME NEW q \in Calls, Runs(q) \/ Locks(q) \/ Resumes(q) \/ CallCancelled(q)
      PROVE  UNCHANGED <<given, scoped, age>>
    BY <1>6 DEF Runs, RecordWrite, TimeOut, PollSkip, PollPop, ClearWrite, Locks, RecordRead, PollRead,
                ClearRead, Resumes, Wake, Answered, CallCancelled
<1>7. ASSUME NEW g \in Gates, \/ GateStart(g) \/ Sweep(g) \/ GateDies(g)
                              \/ \E t \in Turns : RequestPermission(g, t)
      PROVE  UNCHANGED <<given, scoped, age>>
    BY <1>7 DEF GateStart, Sweep, GateDies, RequestPermission
<1>8. ASSUME NEW a \in Approvers, NEW q \in Calls, NEW d \in Answers, DecideRead(a, q, d)
      PROVE  UNCHANGED <<given, scoped, age>>
    BY <1>8 DEF DecideRead
<1>9. CASE UNCHANGED vars
    BY <1>9 DEF vars
<1> QED
    BY <1>1, <1>2, <1>3, <1>4, <1>5, <1>6, <1>7, <1>8, <1>9 DEF Next

\* A decision appears in the file only when an approver gives it.
LEMMA DecisionsStep ==
    TypeOK /\ LockInv /\ DecisionsAreGiven /\ [Next]_vars => DecisionsAreGiven'
<1> SUFFICES ASSUME TypeOK, LockInv, DecisionsAreGiven, [Next]_vars, NEW q \in Calls
             PROVE  file'.decisions[q] \in given'[q] \cup {"none"}
    BY DEF DecisionsAreGiven
<1>0. /\ file.decisions \in [Calls -> Decisions \cup {"none"}]
      /\ file.decisions[q] \in given[q] \cup {"none"} /\ given[q] \subseteq given'[q]
      /\ given \in [Calls -> SUBSET Decisions] /\ file.requests \subseteq Calls
    BY FileShape, NothingIsTakenBack DEF DecisionsAreGiven, StateTypeOK
<1>1. CASE file'.decisions[q] \in {"none", file.decisions[q]}
    BY <1>0, <1>1
<1>2. ASSUME NEW r \in Calls, RecordWrite(r) \/ PollPop(r) PROVE file'.decisions[q] \in {"none", file.decisions[q]}
    BY <1>0, <1>2, RecordWrites, PollPops
<1>3. ASSUME NEW r \in Calls, ClearWrite(r) PROVE file'.decisions[q] \in {"none", file.decisions[q]}
    BY <1>3, ClearWrites, Removals
<1>4. ASSUME NEW g \in Gates, Sweep(g) PROVE file'.decisions[q] \in {"none", file.decisions[q]}
    BY <1>4, Sweeps, Removals
<1>5. ASSUME NEW a \in Approvers, DecideWrite(a) PROVE file'.decisions[q] \in given'[q] \cup {"none"}
  <2>1. CASE UNCHANGED file
    BY <1>1, <2>1
  <2>2. ASSUME NEW r \in file.requests, NEW d \in Decisions,
               file'.decisions = [file.decisions EXCEPT ![r] = d],
               given' = [given EXCEPT ![r] = @ \cup {d}]
        PROVE  file'.decisions[q] \in given'[q] \cup {"none"}
    BY <1>0, <2>2
  <2> QED
    BY <1>5, <2>1, <2>2, DecideWrites
<1>6. ASSUME NEW r \in Calls,
             \/ TimeOut(r) \/ PollSkip(r) \/ Locks(r) \/ Resumes(r) \/ CallCancelled(r) \/ Age(r)
             \/ \E d \in Answers : Resolve(r, d) \/ \E a \in Approvers : DecideRead(a, r, d)
      PROVE  UNCHANGED file
    BY <1>6 DEF TimeOut, PollSkip, Locks, RecordRead, PollRead, ClearRead, Resumes, Wake, Answered,
                CallCancelled, Age, Resolve, DecideRead
<1>7. ASSUME NEW g \in Gates, \/ GateStart(g) \/ GateDies(g)
                              \/ \E t \in Turns : RequestPermission(g, t) \/ CancelScope(g, t)
      PROVE  UNCHANGED file
    BY <1>7 DEF GateStart, GateDies, RequestPermission, CancelScope
<1>8. CASE UNCHANGED vars
    BY <1>1, <1>8 DEF vars
<1> QED
    BY <1>1, <1>2, <1>3, <1>4, <1>5, <1>6, <1>7, <1>8 DEF Next, Runs

\* What is new in a future: a decision given to the call, the cancellation of its turn, or that
\* of its callback, with which the call is over.
LEMMA NewFutures ==
    ASSUME TypeOK, [Next]_vars, NEW q \in Calls
    PROVE  \/ future'[q] = future[q]
           \/ future'[q] \in given'[q]
           \/ future'[q] = "cancel" /\ (q \in scoped' \/ call'[q] = "clear")
<1>0. StateTypeOK
    BY TypeParts
<1>1. CASE UNCHANGED future
    BY <1>1
<1>2. ASSUME NEW g \in Gates, NEW t \in Turns, CancelScope(g, t)
      PROVE  future'[q] = future[q] \/ (future'[q] = "cancel" /\ q \in scoped')
    BY <1>0, <1>2 DEF CancelScope, StateTypeOK
<1>3. ASSUME NEW r \in Calls, NEW d \in Answers, Resolve(r, d)
      PROVE  future'[q] = future[q] \/ future'[q] \in given'[q]
    BY <1>0, <1>3 DEF Resolve, StateTypeOK
<1>4. ASSUME NEW r \in Calls, CallCancelled(r)
      PROVE  future'[q] = future[q] \/ (future'[q] = "cancel" /\ call'[q] = "clear")
    BY <1>0, <1>4 DEF CallCancelled, Return, StateTypeOK
<1>5. ASSUME NEW r \in Calls, Runs(r) \/ Locks(r) \/ Resumes(r) \/ Age(r) PROVE UNCHANGED future
    BY <1>5 DEF Runs, RecordWrite, TimeOut, PollSkip, PollPop, ClearWrite, Locks, RecordRead, PollRead,
                ClearRead, Resumes, Wake, Answered, Age
<1>6. ASSUME NEW g \in Gates, \/ GateStart(g) \/ Sweep(g) \/ GateDies(g)
                              \/ \E t \in Turns : RequestPermission(g, t)
      PROVE  UNCHANGED future
    BY <1>6 DEF GateStart, Sweep, GateDies, RequestPermission
<1>7. ASSUME NEW a \in Approvers, DecideWrite(a) \/ \E r \in Calls, d \in Answers : DecideRead(a, r, d)
      PROVE  UNCHANGED future
    BY <1>7 DEF DecideRead, DecideWrite
<1>8. CASE UNCHANGED vars
    BY <1>8 DEF vars
<1> QED
    BY <1>1, <1>2, <1>3, <1>4, <1>5, <1>6, <1>7, <1>8 DEF Next

\* Where a call can come from and what it can return.
LEMMA NewOutcomes ==
    ASSUME TypeOK, LockInv, CallsAreInOrder, [Next]_vars, NEW q \in Calls
    PROVE  /\ ~Undecided(q) => call'[q] \notin {"none", "record", "check", "wait"}
           /\ \/ outcome'[q] = outcome[q]
              \/ call[q] = "wait" /\ outcome'[q] = future[q]
              \/ call[q] = "check" /\ outcome'[q] = file.decisions[q] /\ file.decisions[q] # "none"
              \/ outcome'[q] = "decline" /\ age[q] = 2
              \/ outcome'[q] = "raised"
<1>0. /\ call \in [Calls -> {"none", "record", "check", "wait", "clear", "done", "dead"}]
      /\ outcome \in [Calls -> Decisions \cup {"none", "raised"}]
    BY TypeParts DEF StateTypeOK
<1> DEFINE Goes == /\ ~Undecided(q) => call'[q] \notin {"none", "record", "check", "wait"}
                   /\ \/ outcome'[q] = outcome[q]
                      \/ call[q] = "wait" /\ outcome'[q] = future[q]
                      \/ call[q] = "check" /\ outcome'[q] = file.decisions[q] /\ file.decisions[q] # "none"
                      \/ outcome'[q] = "decline" /\ age[q] = 2
                      \/ outcome'[q] = "raised"
<1>1. ASSUME UNCHANGED <<call, outcome>> PROVE Goes
    BY <1>1 DEF Undecided
<1>2. ASSUME NEW r \in Calls, NEW c, Undecided(r), call' = [call EXCEPT ![r] = c], UNCHANGED outcome
      PROVE  Goes
    BY <1>0, <1>2 DEF Undecided
<1>3. ASSUME NEW r \in Calls, NEW d, Return(r, d),
             \/ call[r] = "wait" /\ d \in {future[r], "raised"}
             \/ call[r] = "check" /\ d = file.decisions[r] /\ file.decisions[r] # "none"
             \/ d = "decline" /\ age[r] = 2
      PROVE  Goes
    BY <1>0, <1>3 DEF Return, Undecided
<1>4. ASSUME NEW g \in Gates, NEW t \in Turns, RequestPermission(g, t) PROVE Goes
  <2>1. /\ made \in Nat /\ made < MaxCalls /\ call' = [call EXCEPT ![made + 1] = "record"]
        /\ UNCHANGED outcome
    BY <1>4, TypeParts DEF RequestPermission, StateTypeOK
  <2>2. made + 1 \in Calls /\ made + 1 > made
    BY <2>1, GateAssumption DEF Calls
  <2>3. Undecided(made + 1)
    BY <2>2 DEF CallsAreInOrder, Undecided
  <2> QED
    BY <1>2, <2>1, <2>2, <2>3
<1>5. ASSUME NEW r \in Calls, RecordWrite(r) \/ PollSkip(r) \/ Wake(r) PROVE Goes
    BY <1>2, <1>5 DEF RecordWrite, PollSkip, Wake, Pending, Undecided
<1>6. ASSUME NEW r \in Calls, TimeOut(r) PROVE Goes
    BY <1>3, <1>6 DEF TimeOut
<1>7. ASSUME NEW r \in Calls, PollPop(r) PROVE Goes
  <2>1. call[r] = "check"
    BY <1>7 DEF PollPop
  <2> QED
    BY <1>2, <1>3, <1>7, <2>1, PollPops DEF Undecided
<1>8. ASSUME NEW r \in Calls, Answered(r) PROVE Goes
    BY <1>3, <1>8 DEF Answered, Pending
<1>9. ASSUME NEW r \in Calls, CallCancelled(r) PROVE Goes
    BY <1>3, <1>9 DEF CallCancelled, Pending
<1>10. ASSUME NEW r \in Calls, ClearWrite(r) PROVE Goes
    BY <1>0, <1>10 DEF ClearWrite, Undecided
<1>11. ASSUME NEW g \in Gates, GateDies(g) PROVE Goes
    BY <1>0, <1>11 DEF GateDies, Undecided
<1>12. ASSUME NEW r \in Calls, Locks(r) \/ Age(r) \/ \E d \in Answers : Resolve(r, d)
       PROVE  UNCHANGED <<call, outcome>>
    BY <1>12 DEF Locks, RecordRead, PollRead, ClearRead, Age, Resolve
<1>13. ASSUME NEW a \in Approvers, DecideWrite(a) \/ \E r \in Calls, d \in Answers : DecideRead(a, r, d)
       PROVE  UNCHANGED <<call, outcome>>
    BY <1>13 DEF DecideRead, DecideWrite
<1>14. ASSUME NEW g \in Gates, GateStart(g) \/ Sweep(g) \/ \E t \in Turns : CancelScope(g, t)
       PROVE  UNCHANGED <<call, outcome>>
    BY <1>14 DEF GateStart, Sweep, CancelScope
<1>15. ASSUME UNCHANGED vars PROVE UNCHANGED <<call, outcome>>
    BY <1>15 DEF vars
<1> HIDE DEF Goes
<1>16. Goes
    BY <1>1, <1>4, <1>5, <1>6, <1>7, <1>8, <1>9, <1>10, <1>11, <1>12, <1>13, <1>14, <1>15
    DEF Next, Runs, Resumes
<1> QED
    BY <1>16 DEF Goes

LEMMA AnswerStep ==
    TypeOK /\ LockInv /\ CallsAreInOrder /\ AnswerInv /\ [Next]_vars => AnswerInv'
<1> SUFFICES ASSUME TypeOK, LockInv, CallsAreInOrder, AnswerInv, [Next]_vars PROVE AnswerInv'
    OBVIOUS
<1>1. DecisionsAreGiven'
    BY DecisionsStep DEF AnswerInv
<1>2. FuturesAreExplained'
  <2> SUFFICES ASSUME NEW q \in Calls
               PROVE  \/ future'[q] \in given'[q] \cup {"none"}
                      \/ future'[q] = "cancel" /\ (q \in scoped' \/ ~Undecided(q)')
    BY DEF FuturesAreExplained
  <2>1. given[q] \subseteq given'[q] /\ scoped \subseteq scoped' /\ (~Undecided(q) => ~Undecided(q)')
    BY NothingIsTakenBack, NewOutcomes DEF Undecided
  <2>2. \/ future'[q] = future[q]
        \/ future'[q] \in given'[q]
        \/ future'[q] = "cancel" /\ (q \in scoped' \/ ~Undecided(q)')
    BY NewFutures DEF Undecided
  <2> QED
    BY <2>1, <2>2 DEF AnswerInv, FuturesAreExplained
<1>3. OutcomesAreExplained'
  <2> SUFFICES ASSUME NEW q \in Calls
               PROVE  /\ outcome'[q] = "accept" => "accept" \in given'[q]
                      /\ outcome'[q] = "cancel" => "cancel" \in given'[q] \/ q \in scoped'
                      /\ outcome'[q] = "decline" => "decline" \in given'[q] \/ age'[q] = 2
    BY DEF OutcomesAreExplained
  <2>1. given[q] \subseteq given'[q] /\ scoped \subseteq scoped' /\ (age[q] = 2 => age'[q] = 2)
    BY NothingIsTakenBack
  <2>2. CASE outcome'[q] = outcome[q]
    BY <2>1, <2>2 DEF AnswerInv, OutcomesAreExplained
  <2>3. CASE call[q] = "wait" /\ outcome'[q] = future[q]
    BY <2>1, <2>3 DEF AnswerInv, FuturesAreExplained, Undecided
  <2>4. CASE outcome'[q] = file.decisions[q] /\ file.decisions[q] # "none"
    BY <2>1, <2>4 DEF AnswerInv, DecisionsAreGiven
  <2>5. CASE (outcome'[q] = "decline" /\ age[q] = 2) \/ outcome'[q] = "raised"
    BY <2>1, <2>5
  <2> QED
    BY <2>2, <2>3, <2>4, <2>5, NewOutcomes
<1> QED
    BY <1>1, <1>2, <1>3 DEF AnswerInv

\* A cancellation that reaches a call is the last word: the future keeps it, the call does not
\* go back to the file unless the answer is dropped, and only waiting calls are reached.
LEMMA FuturesAreFinal ==
    ASSUME TypeOK, CallsAreInOrder, [Next]_vars, NEW q \in Calls
    PROVE  /\ future[q] # "none" => future'[q] = future[q]
           /\ call[q] = "wait" /\ future[q] # "none" =>
                 call'[q] \notin {"none", "record", "check"} \/ q \in dropped'
           /\ dropped \subseteq dropped'
           /\ q \in scoped' \ scoped =>
                 /\ call[q] = "wait" /\ call'[q] = "wait"
                 /\ future'[q] = "cancel" /\ outcome'[q] = outcome[q]
<1>0. StateTypeOK
    BY TypeParts
<1> DEFINE Final == /\ future[q] # "none" => future'[q] = future[q]
                    /\ call[q] = "wait" /\ future[q] # "none" =>
                          call'[q] \notin {"none", "record", "check"} \/ q \in dropped'
                    /\ dropped \subseteq dropped'
                    /\ q \in scoped' \ scoped =>
                          /\ call[q] = "wait" /\ call'[q] = "wait"
                          /\ future'[q] = "cancel" /\ outcome'[q] = outcome[q]
<1>1. ASSUME NEW r \in Calls, NEW c, call' = [call EXCEPT ![r] = c], call[r] # "wait",
             UNCHANGED <<future, scoped, dropped>>
      PROVE  Final
    BY <1>0, <1>1 DEF StateTypeOK
<1>2. ASSUME NEW r \in Calls, NEW c \in {"wait", "clear"}, call' = [call EXCEPT ![r] = c],
             UNCHANGED <<future, scoped, dropped>>
      PROVE  Final
    BY <1>0, <1>2 DEF StateTypeOK
<1>3. ASSUME UNCHANGED <<call, future, scoped, dropped>> PROVE Final
    BY <1>3
<1>4. ASSUME NEW g \in Gates, NEW t \in Turns, RequestPermission(g, t) PROVE Final
  <2>1. call' = [call EXCEPT ![made + 1] = "record"] /\ UNCHANGED <<future, scoped, dropped>>
    BY <1>4 DEF RequestPermission
  <2>2. q = made + 1 => call[q] = "none"
    <3>1. made \in Nat /\ Calls \subseteq Nat
        BY <1>0 DEF StateTypeOK, Calls
    <3> QED
        BY <3>1 DEF CallsAreInOrder
  <2> QED
    BY <1>0, <2>1, <2>2 DEF StateTypeOK
<1>5. ASSUME NEW g \in Gates, NEW t \in Turns, CancelScope(g, t) PROVE Final
    BY <1>0, <1>5 DEF CancelScope, InScope, Pending, StateTypeOK
<1>6. ASSUME NEW r \in Calls, RecordWrite(r) \/ PollSkip(r) \/ ClearWrite(r) PROVE Final
    BY <1>1, <1>6 DEF RecordWrite, PollSkip, ClearWrite
<1>7. ASSUME NEW r \in Calls, TimeOut(r) \/ PollPop(r) \/ Answered(r) PROVE Final
    BY <1>2, <1>7 DEF TimeOut, PollPop, Answered, Return
<1>8. ASSUME NEW r \in Calls, Wake(r) PROVE Final
    BY <1>0, <1>8 DEF Wake, StateTypeOK
<1>9. ASSUME NEW r \in Calls, CallCancelled(r) PROVE Final
    BY <1>0, <1>9 DEF CallCancelled, Return, StateTypeOK
<1>10. ASSUME NEW r \in Calls, NEW d \in Answers, Resolve(r, d) PROVE Final
    BY <1>0, <1>10 DEF Resolve, StateTypeOK
<1>11. ASSUME NEW g \in Gates, GateDies(g) PROVE Final
    BY <1>0, <1>11 DEF GateDies, StateTypeOK
<1>12. ASSUME NEW r \in Calls, Locks(r) \/ Age(r) PROVE Final
    BY <1>3, <1>12 DEF Locks, RecordRead, PollRead, ClearRead, Age
<1>13. ASSUME NEW a \in Approvers, DecideWrite(a) \/ \E r \in Calls, d \in Answers : DecideRead(a, r, d)
       PROVE  Final
    BY <1>3, <1>13 DEF DecideRead, DecideWrite
<1>14. ASSUME NEW g \in Gates, GateStart(g) \/ Sweep(g) PROVE Final
    BY <1>3, <1>14 DEF GateStart, Sweep
<1>15. ASSUME UNCHANGED vars PROVE Final
    BY <1>3, <1>15 DEF vars
<1> HIDE DEF Final
<1>16. Final
    BY <1>4, <1>5, <1>6, <1>7, <1>8, <1>9, <1>10, <1>11, <1>12, <1>13, <1>14, <1>15
    DEF Next, Runs, Resumes
<1> QED
    BY <1>16 DEF Final

LEMMA CancelStep ==
    TypeOK /\ LockInv /\ CallsAreInOrder /\ CancellationsHold /\ [Next]_vars => CancellationsHold'
<1> SUFFICES ASSUME TypeOK, LockInv, CallsAreInOrder, CancellationsHold, [Next]_vars,
                    NEW q \in scoped' \ dropped'
             PROVE  /\ call'[q] \notin {"none", "record", "check"}
                    /\ call'[q] = "wait" => future'[q] = "cancel"
                    /\ outcome'[q] # "accept"
    BY DEF CancellationsHold
<1>0. q \in Calls /\ q \notin dropped /\ call[q] \in {"none", "record", "check", "wait", "clear", "done", "dead"}
  <2>1. q \in Calls
    BY StateStep DEF StateTypeOK
  <2> QED
    BY <2>1, FuturesAreFinal, TypeParts DEF StateTypeOK
<1>1. CASE q \notin scoped
    BY <1>0, <1>1, FuturesAreFinal DEF CallsAreInOrder, Undecided
<1>2. CASE q \in scoped
  <2>1. /\ call[q] \notin {"none", "record", "check"} /\ outcome[q] # "accept"
        /\ call[q] = "wait" => future[q] = "cancel"
    BY <1>0, <1>2 DEF CancellationsHold
  <2>2. outcome'[q] # "accept"
    BY <1>0, <2>1, NewOutcomes
  <2>3. CASE call[q] = "wait"
    BY <1>0, <2>1, <2>2, <2>3, FuturesAreFinal
  <2>4. CASE call[q] # "wait"
    BY <1>0, <2>1, <2>2, <2>4, NewOutcomes DEF Undecided
  <2> QED
    BY <2>3, <2>4
<1> QED
    BY <1>1, <1>2

LEMMA Step == IInv /\ [Next]_vars => IInv'
<1> SUFFICES ASSUME IInv, [Next]_vars PROVE IInv'
    OBVIOUS
<1>1. TypeOK /\ Clean /\ LockInv /\ CallsAreInOrder /\ AnswerInv /\ CancellationsHold
    BY DEF IInv, StoreIsClean, Clean
<1>2. StoreIsClean'
    BY <1>1, TypeStep, CleanStep DEF StoreIsClean, Clean
<1>3. LockInv' /\ CallsAreInOrder' /\ AnswerInv' /\ CancellationsHold'
    BY <1>1, LockStep, OrderStep, AnswerStep, CancelStep
<1> QED
    BY <1>2, <1>3 DEF IInv

-----------------------------------------------------------------------------
(* The theorems.                                                           *)

\* Every reachable state satisfies the inductive invariant (approval_gate.py, app_permissions.py).
THEOREM GateInvariance == Spec => []IInv
BY InitIInv, Step, PTL DEF Spec

\* A finished call leaves nothing in the approval file and no decision outlives its request, for
\* any processes, calls, deaths and sweeps (app_permissions.py, clear_permission_request).
THEOREM StoreStaysClean == Spec => []StoreIsClean
<1>1. IInv => StoreIsClean
    BY DEF IInv
<1> QED
    BY <1>1, GateInvariance, PTL

\* No call is answered by another call's decision: every outcome has an answer to this very
\* request, the cancellation of its turn, or its deadline behind it (approval_gate.py).
THEOREM AnswersReachTheirCalls == Spec => []OutcomesAreExplained
<1>1. IInv => OutcomesAreExplained
    BY DEF IInv, AnswerInv
<1> QED
    BY <1>1, GateInvariance, PTL

\* A call that a cancellation of its turn reached is not allowed, whatever the file says, unless
\* the answer was lost to a timeout on its own tick (approval_gate.py, cancel_scope).
THEOREM CancellationIsFinal == Spec => []CancelledCallsAreDenied
<1>1. IInv => CancelledCallsAreDenied
    BY DEF IInv, CancellationsHold, CancelledCallsAreDenied
<1> QED
    BY <1>1, GateInvariance, PTL

\* While a live, unexpired call waits, nobody's write of the file loses its request or the
\* decision stored for it (app_permissions.py, the store lock).
THEOREM NoUpdateIsLost == Spec => EntriesAreNotLost
<1> DEFINE Kept(r) == /\ r \in file.requests => r \in file'.requests
                      /\ file.decisions[r] # "none" => file'.decisions[r] # "none"
<1>1. ASSUME IInv, [Next]_vars, NEW r \in Calls, Waiting(r), Waiting(r)', age[r] = 0 PROVE Kept(r)
  <2>0. /\ TypeOK /\ LockInv /\ gate[owner[r]] # "dead"
        /\ file.decisions \in [Calls -> Decisions \cup {"none"}]
        /\ call \in [Calls -> {"none", "record", "check", "wait", "clear", "done", "dead"}]
    BY <1>1, FileShape DEF IInv, StoreIsClean, CallsAreInOrder, InFlight, Waiting, StateTypeOK
  <2>1. ASSUME UNCHANGED file PROVE Kept(r)
    BY <2>1
  <2>2. ASSUME NEW q \in Calls, RecordWrite(q) PROVE Kept(r)
    BY <2>0, <2>2, RecordWrites
  <2>3. ASSUME NEW q \in Calls, PollPop(q) PROVE Kept(r)
    <3>1. CASE q = r
        BY <1>1, <2>0, <2>3, <3>1, PollPops DEF Return, Waiting
    <3>2. CASE q # r
        BY <2>0, <2>3, <3>2, PollPops
    <3> QED
        BY <3>1, <3>2
  <2>4. ASSUME NEW q \in Calls, ClearWrite(q) PROVE Kept(r)
    <3>1. r # q
        BY <1>1, <2>4 DEF ClearWrite, Waiting
    <3>2. /\ file'.requests = file.requests \ {q}
          /\ file'.decisions[r] = IF r \in {q} THEN "none" ELSE file.decisions[r]
        BY <2>0, <2>4, ClearWrites, Removals
    <3> QED
        BY <3>1, <3>2
  <2>5. ASSUME NEW g \in Gates, Sweep(g) PROVE Kept(r)
    <3> DEFINE rs == {q \in file.requests : Orphaned(q)}
    <3>1. r \notin rs
        BY <1>1, <2>0 DEF Orphaned
    <3>2. /\ file'.requests = file.requests \ rs
          /\ \A q \in Calls : file'.decisions[q] = IF q \in rs THEN "none" ELSE file.decisions[q]
        BY <2>0, <2>5, Sweeps, Removals
    <3> HIDE DEF rs
    <3> QED
        BY <3>1, <3>2
  <2>6. ASSUME NEW a \in Approvers, DecideWrite(a) PROVE Kept(r)
    <3>1. ASSUME NEW q \in file.requests, NEW d \in Decisions, file'.requests = file.requests,
                 file'.decisions = [file.decisions EXCEPT ![q] = d]
          PROVE  Kept(r)
        BY <2>0, <3>1 DEF Decisions
    <3> HIDE DEF Kept
    <3> QED
        BY <2>0, <2>1, <2>6, <3>1, DecideWrites
  <2>7. ASSUME NEW q \in Calls,
               \/ TimeOut(q) \/ PollSkip(q) \/ Locks(q) \/ Resumes(q) \/ CallCancelled(q) \/ Age(q)
               \/ \E d \in Answers : Resolve(q, d) \/ \E a \in Approvers : DecideRead(a, q, d)
        PROVE  UNCHANGED file
    BY <2>7 DEF TimeOut, PollSkip, Locks, RecordRead, PollRead, ClearRead, Resumes, Wake, Answered,
                CallCancelled, Age, Resolve, DecideRead
  <2>8. ASSUME NEW g \in Gates, \/ GateStart(g) \/ GateDies(g)
                                \/ \E t \in Turns : RequestPermission(g, t) \/ CancelScope(g, t)
        PROVE  UNCHANGED file
    BY <2>8 DEF GateStart, GateDies, RequestPermission, CancelScope
  <2>9. ASSUME UNCHANGED vars PROVE UNCHANGED file
    BY <2>9 DEF vars
  <2> HIDE DEF Kept
  <2> QED
    BY <1>1, <2>1, <2>2, <2>3, <2>4, <2>5, <2>6, <2>7, <2>8, <2>9 DEF Next, Runs
<1>2. IInv /\ [Next]_vars => [\A r \in Calls : Waiting(r) /\ Waiting(r)' /\ age[r] = 0 => Kept(r)]_vars
    BY <1>1
<1> QED
    BY <1>2, GateInvariance, PTL DEF Spec, EntriesAreNotLost
=============================================================================
