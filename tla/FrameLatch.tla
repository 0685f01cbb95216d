----------------------------- MODULE FrameLatch -----------------------------
(***************************************************************************)
(* The latch of a frame: Frame::read_latch and its siblings (page/frame.cpp) *)
(* over RecursiveSharedMutex (common/lang/mutex.cpp), with the bookkeeping   *)
(* of debug builds.  A method of the mutex is one step up to the condition   *)
(* variable it waits on.  Threads pin the frame, latch it one or more times, *)
(* for reading or for writing, and undo that in order.                       *)
(***************************************************************************)
EXTENDS Integers, FiniteSets

CONSTANTS Latchers,
          NoThread,
          MaxDepth      \* bound: latches of one thread at once

ASSUME LatchAssumption == NoThread \notin Latchers

VARIABLES sharedLocks,  \* shared_lock_count_
          exclusiveLocks, \* exclusive_lock_count_
          owner, depth, \* recursive_owner_, recursive_count_
          doing,        \* what each thread does in the mutex
          mode, latched,   \* how, and how often, each thread holds the latch
          pinned,       \* the threads that have pinned the frame
          writeLocker, writeCount, readLockers \* the bookkeeping of Frame

latchVars == <<sharedLocks, exclusiveLocks, owner, depth, doing, mode, latched, pinned,
               writeLocker, writeCount, readLockers>>
mutexVars == <<sharedLocks, exclusiveLocks, owner, depth>>
bookVars == <<writeLocker, writeCount, readLockers>>

LatchInit ==
    /\ sharedLocks = 0 /\ exclusiveLocks = 0 /\ owner = NoThread /\ depth = 0
    /\ doing = [t \in Latchers |-> "idle"]
    /\ mode = [t \in Latchers |-> "none"] /\ latched = [t \in Latchers |-> 0]
    /\ pinned = {}
    /\ writeLocker = NoThread /\ writeCount = 0 /\ readLockers = [t \in Latchers |-> 0]

Does(t, from, to) == doing[t] = from /\ doing' = [doing EXCEPT ![t] = to]
-----------------------------------------------------------------------------
\* RecursiveSharedMutex.

\* lock_shared, from its beginning or from a wakeup.
LockShared(t) ==
    /\ doing[t] \in {"shared", "shared woken"}
    /\ UNCHANGED <<exclusiveLocks, owner, depth>>
    /\ IF exclusiveLocks > 0
       THEN doing' = [doing EXCEPT ![t] = "shared waits"] /\ UNCHANGED sharedLocks
       ELSE doing' = [doing EXCEPT ![t] = "shared got"] /\ sharedLocks' = sharedLocks + 1

TryLockShared(t) ==
    /\ doing[t] = "try"
    /\ UNCHANGED <<exclusiveLocks, owner, depth>>
    /\ IF exclusiveLocks = 0
       THEN doing' = [doing EXCEPT ![t] = "shared got"] /\ sharedLocks' = sharedLocks + 1
       ELSE doing' = [doing EXCEPT ![t] = "idle"] /\ UNCHANGED sharedLocks

\* notify_one wakes any one of the threads that wait, notify_all all of them.
WakeWriter(d) ==
    LET waiting == {t \in Latchers : d[t] = "lock waits"}
    IN  IF waiting = {} THEN {d} ELSE {[d EXCEPT ![t] = "lock woken"] : t \in waiting}
WakeReaders(d) == [t \in Latchers |-> IF d[t] = "shared waits" THEN "shared woken" ELSE d[t]]

\* A mutant: nobody is told.
UnlockSharedMut(t) ==
    /\ sharedLocks' = sharedLocks - 1
    /\ doing' = [doing EXCEPT ![t] = "idle"]
    /\ UNCHANGED <<exclusiveLocks, owner, depth>>

UnlockShared(t) ==
    /\ sharedLocks' = sharedLocks - 1
    /\ \E d \in {[doing EXCEPT ![t] = "idle"]} :
           doing' \in (IF sharedLocks = 1 THEN WakeWriter(d) ELSE {d})
    /\ UNCHANGED <<exclusiveLocks, owner, depth>>

\* lock: the owner may lock again.
\* A mutant: readers are not looked at.
LockExclusiveMut(t) ==
    /\ doing[t] \in {"lock", "lock woken"}
    /\ IF exclusiveLocks > 0 /\ owner = t
       THEN /\ depth' = depth + 1 /\ doing' = [doing EXCEPT ![t] = "lock got"]
            /\ UNCHANGED <<sharedLocks, exclusiveLocks, owner>>
       ELSE IF exclusiveLocks > 0
       THEN doing' = [doing EXCEPT ![t] = "lock waits"] /\ UNCHANGED mutexVars
       ELSE /\ owner' = t /\ depth' = 1 /\ exclusiveLocks' = exclusiveLocks + 1
            /\ doing' = [doing EXCEPT ![t] = "lock got"]
            /\ UNCHANGED sharedLocks

LockExclusive(t) ==
    /\ doing[t] \in {"lock", "lock woken"}
    /\ IF sharedLocks > 0 \/ exclusiveLocks > 0
       THEN IF owner = t
            THEN /\ depth' = depth + 1 /\ doing' = [doing EXCEPT ![t] = "lock got"]
                 /\ UNCHANGED <<sharedLocks, exclusiveLocks, owner>>
            ELSE doing' = [doing EXCEPT ![t] = "lock waits"] /\ UNCHANGED mutexVars
       ELSE /\ owner' = t /\ depth' = 1 /\ exclusiveLocks' = exclusiveLocks + 1
            /\ doing' = [doing EXCEPT ![t] = "lock got"]
            /\ UNCHANGED sharedLocks

UnlockExclusive(t) ==
    /\ UNCHANGED sharedLocks
    /\ IF owner = t /\ depth > 1
       THEN depth' = depth - 1 /\ doing' = [doing EXCEPT ![t] = "idle"]
            /\ UNCHANGED <<exclusiveLocks, owner>>
       ELSE /\ owner' = NoThread /\ depth' = 0 /\ exclusiveLocks' = exclusiveLocks - 1
            /\ \E d \in {[doing EXCEPT ![t] = "idle"]} :
                   doing' \in (IF exclusiveLocks = 1 THEN WakeWriter(WakeReaders(d)) ELSE {d})
-----------------------------------------------------------------------------
\* Frame.  The ASSERTs forbid a thread to mix the two modes.

LatchPin(t) ==
    /\ t \notin pinned
    /\ pinned' = pinned \cup {t}
    /\ UNCHANGED <<mutexVars, doing, mode, latched, bookVars>>

LatchUnpin(t) ==
    /\ t \in pinned /\ latched[t] = 0 /\ doing[t] = "idle"
    /\ pinned' = pinned \ {t}
    /\ UNCHANGED <<mutexVars, doing, mode, latched, bookVars>>

Begins(t, what, m) ==
    /\ t \in pinned /\ latched[t] < MaxDepth /\ mode[t] \in {"none", m}
    /\ Does(t, "idle", what)
    /\ UNCHANGED <<mutexVars, mode, latched, pinned, bookVars>>
ReadLatch(t) == Begins(t, "shared", "read")
TryReadLatch(t) == Begins(t, "try", "read")
WriteLatch(t) == Begins(t, "lock", "write")

\* What follows the mutex: one more latch, and the books.
ReadLatched(t) ==
    /\ Does(t, "shared got", "idle")
    /\ readLockers' = [readLockers EXCEPT ![t] = @ + 1]
    /\ mode' = [mode EXCEPT ![t] = "read"] /\ latched' = [latched EXCEPT ![t] = @ + 1]
    /\ UNCHANGED <<mutexVars, pinned, writeLocker, writeCount>>
WriteLatched(t) ==
    /\ Does(t, "lock got", "idle")
    /\ writeLocker' = t /\ writeCount' = writeCount + 1
    /\ mode' = [mode EXCEPT ![t] = "write"] /\ latched' = [latched EXCEPT ![t] = @ + 1]
    /\ UNCHANGED <<mutexVars, pinned, readLockers>>

LetGo(t) ==
    /\ latched' = [latched EXCEPT ![t] = @ - 1]
    /\ mode' = [mode EXCEPT ![t] = IF latched[t] = 1 THEN "none" ELSE @]

\* read_unlatch and write_unlatch: the books first, then the mutex.
ReadUnlatch(t) ==
    /\ mode[t] = "read" /\ Does(t, "idle", "unlock shared")
    /\ readLockers' = [readLockers EXCEPT ![t] = @ - 1]
    /\ UNCHANGED <<mutexVars, mode, latched, pinned, writeLocker, writeCount>>

\* A mutant: the owner is forgotten at the first of several unlatches.
WriteUnlatchMut(t) ==
    /\ mode[t] = "write" /\ Does(t, "idle", "unlock")
    /\ writeCount' = writeCount - 1
    /\ writeLocker' = NoThread
    /\ UNCHANGED <<mutexVars, mode, latched, pinned, readLockers>>

WriteUnlatch(t) ==
    /\ mode[t] = "write" /\ Does(t, "idle", "unlock")
    /\ writeCount' = writeCount - 1
    /\ writeLocker' = IF writeCount = 1 THEN NoThread ELSE writeLocker
    /\ UNCHANGED <<mutexVars, mode, latched, pinned, readLockers>>

MutexStep(t) ==
    \/ /\ LockShared(t) \/ TryLockShared(t) \/ LockExclusive(t)
       /\ UNCHANGED <<mode, latched, pinned, bookVars>>
    \/ /\ \/ doing[t] = "unlock shared" /\ UnlockShared(t)
          \/ doing[t] = "unlock" /\ UnlockExclusive(t)
       /\ LetGo(t)
       /\ UNCHANGED <<pinned, bookVars>>

LatchNext ==
    \E t \in Latchers :
        \/ LatchPin(t) \/ LatchUnpin(t) \/ ReadLatch(t) \/ TryReadLatch(t) \/ WriteLatch(t)
        \/ MutexStep(t)
        \/ ReadLatched(t) \/ WriteLatched(t) \/ ReadUnlatch(t) \/ WriteUnlatch(t)

LatchSpec == LatchInit /\ [][LatchNext]_latchVars
-----------------------------------------------------------------------------
Reads(t) == mode[t] = "read" \/ doing[t] = "shared got"
Writes(t) == mode[t] = "write" \/ doing[t] = "lock got"

\* A thread that has the latch for writing has it alone, however often it and
\* others have taken and returned it.
LatchExcludes ==
    \A t, u \in Latchers : t # u /\ Writes(t) => ~Reads(u) /\ ~Writes(u)

\* The ASSERTs of the frame hold: the last writer to latch is the one who
\* unlatches, a reader who unlatches is on the books, and a frame that nobody
\* has pinned has no owner and no readers.
LatchAssertionsHold ==
    /\ \A t \in Latchers : (mode[t] = "write" /\ doing[t] = "idle") => writeLocker = t
    /\ \A t \in Latchers : (mode[t] = "read" /\ doing[t] = "idle") => readLockers[t] > 0
    /\ pinned = {} => writeLocker = NoThread /\ \A t \in Latchers : readLockers[t] = 0

\* No wakeup is lost: when a thread waits for a latch that it could have, that
\* thread or, for writers, another writer has been woken and will look again.
NoWakeupIsLost ==
    /\ exclusiveLocks = 0 => \A t \in Latchers : doing[t] # "shared waits"
    /\ (exclusiveLocks = 0 /\ sharedLocks = 0 /\ \E t \in Latchers : doing[t] = "lock waits")
          => \E t \in Latchers : doing[t] = "lock woken"

\* The latch of a frame excludes whom it should, keeps the frame's own books, and
\* leaves nobody asleep who could go on (RecursiveSharedMutex, Frame).
LatchIsRight == LatchExcludes /\ LatchAssertionsHold /\ NoWakeupIsLost
=============================================================================
