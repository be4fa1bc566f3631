----------------------------- MODULE SessionLock -----------------------------
(***************************************************************************)
(* The lock pair that serializes one Claude session's work: an asyncio     *)
(* lock private to a client instance (claude_sdk.py, _session_locks) taken *)
(* first, then an advisory flock on the session's lock file shared by every*)
(* process (claude_orphans.py, _cross_process_session_lock).  The kernel   *)
(* drops the flock when the process that holds it exits.                   *)
(***************************************************************************)
CONSTANTS Clients,   \* client instances, each with an event loop of its own
          Jobs,      \* coroutines that may enter the locked region
          NoClient,
          NoJob

ASSUME NullsAreOutside == NoClient \notin Clients /\ NoJob \notin Jobs

VARIABLES loopLock,  \* [Clients -> Jobs \cup {NoJob}]: holder of the asyncio lock
          flock      \* Clients \cup {NoClient}: client whose descriptor holds the flock

lockVars == <<loopLock, flock>>

LockTypeOK ==
    /\ loopLock \in [Clients -> Jobs \cup {NoJob}]
    /\ flock \in Clients \cup {NoClient}

LockInit ==
    /\ loopLock = [c \in Clients |-> NoJob]
    /\ flock = NoClient

TakeLoopLock(c, j) ==
    /\ loopLock[c] = NoJob
    /\ loopLock' = [loopLock EXCEPT ![c] = j]
    /\ UNCHANGED flock

\* Mutant: the lock file is locked in shared mode.
TakeFlockShared(c) ==
    /\ loopLock[c] # NoJob
    /\ flock' = c
    /\ UNCHANGED loopLock

\* The blocking flock() call runs in a worker thread while the asyncio lock is held.
TakeFlock(c) ==
    /\ loopLock[c] # NoJob
    /\ flock = NoClient
    /\ flock' = c
    /\ UNCHANGED loopLock

\* Mutant: the descriptor is leaked, and the flock with it.
ReleaseLoopLockOnly(c) ==
    /\ loopLock' = [loopLock EXCEPT ![c] = NoJob]
    /\ UNCHANGED flock

\* Leaving "async with lock, flock": no await separates the two releases.
ReleaseLocks(c) ==
    /\ loopLock' = [loopLock EXCEPT ![c] = NoJob]
    /\ flock' = IF flock = c THEN NoClient ELSE flock

HoldsLocks(c, j) == loopLock[c] = j /\ flock = c

\* The non-blocking probe of _session_turn_lock_is_free.
LockIsFree == flock = NoClient
==============================================================================
