------------------------------ MODULE LockTrace ------------------------------
(***************************************************************************)
(* LockTrace of common/lang/mutex.cpp, which builds with DEBUG_LOCK call     *)
(* around every pthread mutex: check before the lock, lock after it and      *)
(* unlock after the unlock.  Its maps are changed under mMapMutex; between   *)
(* them and the mutex itself other threads run.                              *)
(***************************************************************************)
EXTENDS Integers, FiniteSets

CONSTANTS Tids, Mutexes,
          Recursives,     \* mEnableRecurisives
          NoTid, NoMutex,
          MaxBlockTids,   \* mMaxBlockTids
          MaxHolds        \* bound: how often a recursive mutex is locked

VARIABLES holder, holds,  \* the pthread mutexes: who, and how often
          step, target,   \* where each thread is, and for which mutex
          mLocks, mWaitLocks, mOwnLocks, mWaitTimes,
          alarm           \* the threads whose last check found a deadlock

traceVars == <<holder, holds, step, target, mLocks, mWaitLocks, mOwnLocks, mWaitTimes, alarm>>
mapVars == <<mLocks, mWaitLocks, mOwnLocks, mWaitTimes>>

TraceInit ==
    /\ holder = [m \in Mutexes |-> NoTid] /\ holds = [m \in Mutexes |-> 0]
    /\ step = [t \in Tids |-> "out"] /\ target = [t \in Tids |-> NoMutex]
    /\ mLocks = [m \in Mutexes |-> NoTid]
    /\ mWaitLocks = [t \in Tids |-> NoMutex]
    /\ mOwnLocks = [t \in Tids |-> {}]
    /\ mWaitTimes = [m \in Mutexes |-> 0]
    /\ alarm = {}

\* deadlockCheck along the threads that wait, from thread other on.
RECURSIVE Blocked(_, _, _, _)
Blocked(own, other, waits, n) ==
    IF n >= MaxBlockTids \/ other = NoTid THEN FALSE
    ELSE LET m == waits[other]
         IN  IF m = NoMutex THEN FALSE
             ELSE m \in own \/ Blocked(own, mLocks[m], waits, n + 1)

\* deadlockCheck(mutex, thread) with its own wait on the books.
\* A mutant: whoever holds the mutex counts.
DeadlockCheckMut(t, m, waits) ==
    mLocks[m] # NoTid /\ mOwnLocks[t] # {}

DeadlockCheck(t, m, waits) ==
    IF mLocks[m] = t THEN m \notin Recursives
    ELSE mOwnLocks[t] # {} /\ Blocked(mOwnLocks[t], mLocks[m], waits, 1)

CheckLockTimes(m) == mWaitTimes' = [mWaitTimes EXCEPT ![m] = @ + 1]

\* MUTEX_LOCK: LockTrace::check.
Check(t, m) ==
    /\ step[t] = "out"
    /\ holds[m] < MaxHolds
    /\ mWaitLocks' = [mWaitLocks EXCEPT ![t] = m]
    /\ alarm' = IF DeadlockCheck(t, m, mWaitLocks') THEN alarm \cup {t} ELSE alarm \ {t}
    /\ CheckLockTimes(m)
    /\ step' = [step EXCEPT ![t] = "wait"] /\ target' = [target EXCEPT ![t] = m]
    /\ UNCHANGED <<holder, holds, mLocks, mOwnLocks>>

\* pthread_mutex_lock returns.
TakeMutex(t) ==
    /\ step[t] = "wait"
    /\ holder[target[t]] = NoTid \/ (holder[target[t]] = t /\ target[t] \in Recursives)
    /\ holder' = [holder EXCEPT ![target[t]] = t]
    /\ holds' = [holds EXCEPT ![target[t]] = @ + 1]
    /\ step' = [step EXCEPT ![t] = "got"]
    /\ UNCHANGED <<target, mapVars, alarm>>

\* LockTrace::lock: insert leaves a record that is there.
InsertLock(t) ==
    /\ step[t] = "got"
    /\ mLocks' = [mLocks EXCEPT ![target[t]] = IF @ = NoTid THEN t ELSE @]
    /\ mWaitLocks' = [mWaitLocks EXCEPT ![t] = NoMutex]
    /\ mOwnLocks' = [mOwnLocks EXCEPT ![t] = @ \cup {target[t]}]
    /\ mWaitTimes' = [mWaitTimes EXCEPT ![target[t]] = @ - 1]
    /\ step' = [step EXCEPT ![t] = "out"] /\ target' = [target EXCEPT ![t] = NoMutex]
    /\ UNCHANGED <<holder, holds, alarm>>

\* MUTEX_UNLOCK: the mutex first, LockTrace::unlock afterwards.
GiveMutex(t, m) ==
    /\ step[t] = "out" /\ holder[m] = t
    /\ holds' = [holds EXCEPT ![m] = @ - 1]
    /\ holder' = [holder EXCEPT ![m] = IF holds[m] = 1 THEN NoTid ELSE t]
    /\ step' = [step EXCEPT ![t] = "released"] /\ target' = [target EXCEPT ![t] = m]
    /\ UNCHANGED <<mapVars, alarm>>
EraseLock(t) ==
    /\ step[t] = "released"
    /\ mLocks' = [mLocks EXCEPT ![target[t]] = NoTid]
    /\ mOwnLocks' = [mOwnLocks EXCEPT ![t] = @ \ {target[t]}]
    /\ step' = [step EXCEPT ![t] = "out"] /\ target' = [target EXCEPT ![t] = NoMutex]
    /\ UNCHANGED <<holder, holds, mWaitLocks, mWaitTimes, alarm>>

TraceNext ==
    \E t \in Tids :
        \/ \E m \in Mutexes : Check(t, m) \/ GiveMutex(t, m)
        \/ TakeMutex(t) \/ InsertLock(t) \/ EraseLock(t)
-----------------------------------------------------------------------------
\* The threads that wait, directly or not, for what t waits for.
RECURSIVE Ahead(_, _)
Ahead(t, seen) ==
    IF step[t] # "wait" \/ holder[target[t]] \in {NoTid} \cup seen THEN seen \cup {t}
    ELSE Ahead(holder[target[t]], seen \cup {t})
InDeadlock(t) ==
    \E u \in Ahead(t, {}) : step[u] = "wait" /\ holder[target[u]] = t

\* An alarm is never false: although the maps lag behind the mutexes, a thread
\* whose check reported a deadlock is in one for as long as it waits.
AlarmsAreTrue == \A t \in alarm : step[t] = "wait" /\ InDeadlock(t)
=============================================================================
