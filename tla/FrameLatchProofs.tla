-------------------------- MODULE FrameLatchProofs --------------------------
(***************************************************************************)
(* The latch of a frame is right for any set of threads and any depth of   *)
(* latches: the counts of RecursiveSharedMutex and the books of Frame are  *)
(* what the threads hold.                                                  *)
(***************************************************************************)
EXTENDS FrameLatch, FiniteSetTheorems, TLAPS

-----------------------------------------------------------------------------
(* Counting what threads hold: thread t holds h[t] things.                  *)
Pairs(h) == {p \in Latchers \X Nat : 1 <= p[2] /\ p[2] <= h[p[1]]}
Counted(n, h) == IsFiniteSet(Pairs(h)) /\ n = Cardinality(Pairs(h))

LEMMA CountNone ==
    ASSUME NEW h, \A t \in Latchers : h[t] = 0
    PROVE  Counted(0, h)
    <1>1. Pairs(h) = {}
        BY DEF Pairs
    <1> QED BY <1>1, FS_EmptySet DEF Counted

LEMMA CountMore ==
    ASSUME NEW h \in [Latchers -> Nat], NEW g \in [Latchers -> Nat], NEW t \in Latchers, NEW n,
           Counted(n, h), g[t] = h[t] + 1, \A u \in Latchers : u # t => g[u] = h[u]
    PROVE  Counted(n + 1, g)
    <1> DEFINE x == <<t, h[t] + 1>>
    <1>1. Pairs(g) = Pairs(h) \cup {x}
        <2>1. ASSUME NEW p PROVE p \in Pairs(g) <=> p \in Pairs(h) \/ p = x
            <3>1. CASE p \notin Latchers \X Nat
                <4>1. x \in Latchers \X Nat
                    OBVIOUS
                <4> QED BY <3>1, <4>1, Zenon DEF Pairs
            <3>2. CASE p \in Latchers \X Nat
                <4>1. PICK u \in Latchers, i \in Nat : p = <<u, i>>
                    BY <3>2
                <4>2. p \in Pairs(g) <=> 1 <= i /\ i <= g[u]
                    BY <4>1 DEF Pairs
                <4>3. p \in Pairs(h) <=> 1 <= i /\ i <= h[u]
                    BY <4>1 DEF Pairs
                <4>4. p = x <=> u = t /\ i = h[t] + 1
                    BY <4>1
                <4>5. h[u] \in Nat /\ h[t] \in Nat
                    OBVIOUS
                <4> QED BY <4>2, <4>3, <4>4, <4>5
            <3> QED BY <3>1, <3>2
        <2> QED BY <2>1
    <1>2. x \notin Pairs(h)
        BY DEF Pairs
    <1> QED BY <1>1, <1>2, FS_AddElement DEF Counted

LEMMA CountLess ==
    ASSUME NEW h \in [Latchers -> Nat], NEW g \in [Latchers -> Nat], NEW t \in Latchers, NEW n,
           Counted(n, h), h[t] = g[t] + 1, \A u \in Latchers : u # t => g[u] = h[u]
    PROVE  Counted(n - 1, g)
    <1> DEFINE x == <<t, h[t]>>
    <1>1. Pairs(g) = Pairs(h) \ {x}
        <2>1. ASSUME NEW p PROVE p \in Pairs(g) <=> p \in Pairs(h) /\ p # x
            <3>1. CASE p \notin Latchers \X Nat
                BY <3>1, Zenon DEF Pairs
            <3>2. CASE p \in Latchers \X Nat
                <4>1. PICK u \in Latchers, i \in Nat : p = <<u, i>>
                    BY <3>2
                <4>2. p \in Pairs(g) <=> 1 <= i /\ i <= g[u]
                    BY <4>1 DEF Pairs
                <4>3. p \in Pairs(h) <=> 1 <= i /\ i <= h[u]
                    BY <4>1 DEF Pairs
                <4>4. p = x <=> u = t /\ i = h[t]
                    BY <4>1
                <4>5. h[u] \in Nat /\ h[t] \in Nat /\ g[u] \in Nat /\ g[t] \in Nat
                    OBVIOUS
                <4> QED BY <4>2, <4>3, <4>4, <4>5
            <3> QED BY <3>1, <3>2
        <2> QED BY <2>1
    <1>2. x \in Pairs(h)
        BY DEF Pairs
    <1>3. IsFiniteSet(Pairs(h) \ {x}) /\ Cardinality(Pairs(h) \ {x}) = Cardinality(Pairs(h)) - 1
        BY <1>2, FS_RemoveElement DEF Counted
    <1> QED BY <1>1, <1>3, Zenon DEF Counted

LEMMA CountFacts ==
    ASSUME NEW h \in [Latchers -> Nat], NEW n, Counted(n, h)
    PROVE  n \in Nat /\ (n = 0 <=> \A t \in Latchers : h[t] = 0)
    <1>1. n \in Nat /\ (n = 0 <=> Pairs(h) = {})
        BY FS_CardinalityType, FS_EmptySet DEF Counted
    <1>2. ASSUME Pairs(h) = {}, NEW t \in Latchers PROVE h[t] = 0
        <2>1. <<t, 1>> \notin Pairs(h)
            BY <1>2
        <2>2. ~(1 <= h[t])
            BY <2>1 DEF Pairs
        <2> QED BY <2>2
    <1>3. ASSUME \A t \in Latchers : h[t] = 0 PROVE Pairs(h) = {}
        BY <1>3 DEF Pairs
    <1> QED BY <1>1, <1>2, <1>3

-----------------------------------------------------------------------------
(* The invariant *)

Locking == {"lock", "lock waits", "lock woken", "lock got"}
Sharing == {"shared", "shared waits", "shared woken", "shared got", "try"}

(* The latches that a thread holds for reading, as the mutex counts them.   *)
ReadHolds == [t \in Latchers |-> (IF mode[t] = "read" THEN latched[t] ELSE 0)
                                   + (IF doing[t] = "shared got" THEN 1 ELSE 0)]

Doings == Locking \cup Sharing \cup {"idle", "unlock", "unlock shared"}

LatchTypes ==
    /\ doing \in [Latchers -> Doings]
    /\ mode \in [Latchers -> {"none", "read", "write"}]
    /\ latched \in [Latchers -> Nat] /\ readLockers \in [Latchers -> Nat]
    /\ pinned \subseteq Latchers

(* What a thread does fits how it holds the latch, and the books of Frame.  *)
ThreadFits(t) ==
    /\ mode[t] = "none" <=> latched[t] = 0
    /\ doing[t] \in Locking => mode[t] # "read"
    /\ doing[t] \in Sharing => mode[t] # "write"
    /\ doing[t] = "unlock" => mode[t] = "write"
    /\ doing[t] = "unlock shared" => mode[t] = "read"
    /\ readLockers[t] = (IF mode[t] = "read" THEN latched[t] ELSE 0)
                          - (IF doing[t] = "unlock shared" THEN 1 ELSE 0)
    /\ t \notin pinned => latched[t] = 0 /\ doing[t] = "idle"

LatchFree ==
    /\ exclusiveLocks = 0 /\ owner = NoThread /\ depth = 0
    /\ writeCount = 0 /\ writeLocker = NoThread
    /\ \A t \in Latchers : ~Writes(t)

LatchTaken ==
    /\ exclusiveLocks = 1 /\ sharedLocks = 0 /\ owner \in Latchers /\ Writes(owner)
    /\ depth = latched[owner] + (IF doing[owner] = "lock got" THEN 1 ELSE 0)
    /\ writeCount = latched[owner] - (IF doing[owner] = "unlock" THEN 1 ELSE 0)
    /\ writeLocker = IF writeCount = 0 THEN NoThread ELSE owner
    /\ \A t \in Latchers : t # owner => ~Writes(t)

LatchInv ==
    /\ LatchTypes
    /\ \A t \in Latchers : ThreadFits(t)
    /\ Counted(sharedLocks, ReadHolds)
    /\ LatchFree \/ LatchTaken
    /\ NoWakeupIsLost

-----------------------------------------------------------------------------
(* What a step of thread t leaves to the others: at most, they wake up.     *)

Aside(t) ==
    \A u \in Latchers : u # t =>
       /\ mode'[u] = mode[u] /\ latched'[u] = latched[u] /\ readLockers'[u] = readLockers[u]
       /\ u \in pinned' <=> u \in pinned
       /\ \/ doing'[u] = doing[u]
          \/ doing[u] = "lock waits" /\ doing'[u] = "lock woken"
          \/ doing[u] = "shared waits" /\ doing'[u] = "shared woken"

LEMMA HoldsFacts ==
    ASSUME LatchTypes
    PROVE  /\ ReadHolds \in [Latchers -> Nat]
           /\ \A t \in Latchers : ReadHolds[t] = (IF mode[t] = "read" THEN latched[t] ELSE 0)
                                                   + (IF doing[t] = "shared got" THEN 1 ELSE 0)
    <1>1. \A t \in Latchers : latched[t] \in Nat
        BY DEF LatchTypes
    <1>2. \A t \in Latchers : (IF mode[t] = "read" THEN latched[t] ELSE 0)
                                 + (IF doing[t] = "shared got" THEN 1 ELSE 0) \in Nat
        <2> SUFFICES ASSUME NEW t \in Latchers
                     PROVE  (IF mode[t] = "read" THEN latched[t] ELSE 0)
                                 + (IF doing[t] = "shared got" THEN 1 ELSE 0) \in Nat
            OBVIOUS
        <2> DEFINE a == IF mode[t] = "read" THEN latched[t] ELSE 0
                   b == IF doing[t] = "shared got" THEN 1 ELSE 0
        <2>1. a \in Nat /\ b \in Nat
            BY <1>1
        <2> HIDE DEF a, b
        <2>2. a + b \in Nat
            BY ONLY <2>1
        <2> QED BY <2>2, Zenon DEF a, b
    <1> QED BY <1>2, Zenon DEF ReadHolds

LEMMA MutexTypes ==
    ASSUME LatchInv
    PROVE  /\ (exclusiveLocks = 0 /\ LatchFree) \/ (exclusiveLocks = 1 /\ LatchTaken)
           /\ exclusiveLocks \in Nat /\ sharedLocks \in Nat /\ latched \in [Latchers -> Nat]
    <1>0. (LatchFree => exclusiveLocks = 0) /\ (LatchTaken => exclusiveLocks = 1)
        BY Zenon DEF LatchFree, LatchTaken
    <1>1. (exclusiveLocks = 0 /\ LatchFree) \/ (exclusiveLocks = 1 /\ LatchTaken)
        BY <1>0, Zenon DEF LatchInv
    <1>2. exclusiveLocks \in Nat
        BY <1>1
    <1>3. sharedLocks \in Nat /\ latched \in [Latchers -> Nat]
        BY HoldsFacts, CountFacts, Zenon DEF LatchInv, LatchTypes
    <1> QED BY <1>1, <1>2, <1>3, Zenon

LEMMA OthersFit ==
    ASSUME LatchInv, NEW t \in Latchers, Aside(t), LatchTypes', NEW u \in Latchers, u # t
    PROVE  /\ ThreadFits(u)' /\ (Writes(u)' <=> Writes(u)) /\ ReadHolds'[u] = ReadHolds[u]
           /\ latched'[u] = latched[u] /\ (doing'[u] = "lock got" <=> doing[u] = "lock got")
           /\ (doing'[u] = "unlock" <=> doing[u] = "unlock")
    <1>1. /\ mode'[u] = mode[u] /\ latched'[u] = latched[u] /\ readLockers'[u] = readLockers[u]
          /\ u \in pinned' <=> u \in pinned
          /\ \/ doing'[u] = doing[u]
             \/ doing[u] = "lock waits" /\ doing'[u] = "lock woken"
             \/ doing[u] = "shared waits" /\ doing'[u] = "shared woken"
        BY Zenon DEF Aside
    <1>2. ThreadFits(u)
        BY Zenon DEF LatchInv
    <1>3. ThreadFits(u)'
        BY ONLY <1>1, <1>2 DEF ThreadFits, Locking, Sharing
    <1>4. ReadHolds'[u] = ReadHolds[u]
        <2>1. /\ ReadHolds[u] = (IF mode[u] = "read" THEN latched[u] ELSE 0)
                                  + (IF doing[u] = "shared got" THEN 1 ELSE 0)
              /\ ReadHolds'[u] = (IF mode'[u] = "read" THEN latched'[u] ELSE 0)
                                  + (IF doing'[u] = "shared got" THEN 1 ELSE 0)
            BY Zenon DEF ReadHolds
        <2> QED BY ONLY <1>1, <2>1
    <1>5. Writes(u)' <=> Writes(u)
        BY ONLY <1>1 DEF Writes
    <1>6. (doing'[u] = "lock got" <=> doing[u] = "lock got") /\ (doing'[u] = "unlock" <=> doing[u] = "unlock")
        BY ONLY <1>1
    <1> QED BY <1>1, <1>3, <1>4, <1>5, <1>6, Zenon

(* A step of t that keeps the mutex, and what t has of it. *)
LEMMA MutexKept ==
    ASSUME LatchInv, NEW t \in Latchers, Aside(t), LatchTypes', UNCHANGED mutexVars,
           UNCHANGED <<writeLocker, writeCount>>, Writes(t)' <=> Writes(t), ReadHolds'[t] = ReadHolds[t],
           Writes(t) => /\ latched'[t] = latched[t]
                        /\ doing'[t] = "lock got" <=> doing[t] = "lock got"
                        /\ doing'[t] = "unlock" <=> doing[t] = "unlock"
    PROVE  Counted(sharedLocks', ReadHolds') /\ (LatchFree \/ LatchTaken)'
    <1>0. /\ sharedLocks' = sharedLocks /\ exclusiveLocks' = exclusiveLocks /\ owner' = owner /\ depth' = depth
          /\ writeLocker' = writeLocker /\ writeCount' = writeCount
        BY Zenon DEF mutexVars
    <1>1. \A u \in Latchers : ReadHolds'[u] = ReadHolds[u] /\ (Writes(u)' <=> Writes(u))
        BY OthersFit, Zenon
    <1>2. ReadHolds' = ReadHolds
        <2>1. LatchTypes
            BY Zenon DEF LatchInv
        <2>2. ReadHolds \in [Latchers -> Nat]
            BY <2>1, HoldsFacts, Zenon
        <2>3. ReadHolds' \in [Latchers -> Nat]
            <3>1. (LatchTypes => ReadHolds \in [Latchers -> Nat])'
                BY HoldsFacts, PTL
            <3> QED BY <3>1, Zenon
        <2> QED BY ONLY <1>1, <2>2, <2>3
    <1>3. CASE LatchFree
        BY <1>0, <1>1, <1>2, <1>3, Zenon DEF LatchInv, LatchFree
    <1>4. CASE LatchTaken
        <2>1. owner \in Latchers /\ Writes(owner)
            BY <1>4, Zenon DEF LatchTaken
        <2>2. /\ latched'[owner] = latched[owner]
              /\ doing'[owner] = "lock got" <=> doing[owner] = "lock got"
              /\ doing'[owner] = "unlock" <=> doing[owner] = "unlock"
            BY <2>1, OthersFit, Zenon
        <2>3. LatchTaken'
            <3>1. /\ depth' = latched'[owner'] + (IF doing'[owner'] = "lock got" THEN 1 ELSE 0)
                  /\ writeCount' = latched'[owner'] - (IF doing'[owner'] = "unlock" THEN 1 ELSE 0)
                BY <1>0, <1>4, <2>2 DEF LatchTaken
            <3>2. \A u \in Latchers : u # owner => ~Writes(u)'
                BY <1>1, <1>4, Zenon DEF LatchTaken
            <3>3. mode'[owner'] = "write" \/ doing'[owner'] = "lock got"
                BY <1>0, <1>1, <2>1, Zenon DEF Writes
            <3>4. /\ exclusiveLocks' = 1 /\ sharedLocks' = 0 /\ owner' \in Latchers
                  /\ writeLocker' = IF writeCount' = 0 THEN NoThread ELSE owner'
                <4>1. /\ exclusiveLocks = 1 /\ sharedLocks = 0
                      /\ writeLocker = IF writeCount = 0 THEN NoThread ELSE owner
                    BY <1>4, Zenon DEF LatchTaken
                <4> QED BY ONLY <1>0, <2>1, <4>1
            <3> QED BY <1>0, <3>1, <3>2, <3>3, <3>4, Zenon DEF LatchTaken, Writes
        <2> QED BY <1>0, <1>2, <2>3, Zenon DEF LatchInv
    <1> QED BY <1>3, <1>4, Zenon DEF LatchInv

(* The wakeups, when the mutex is kept and no thread but t goes on. *)
LEMMA WakeupsKept ==
    ASSUME LatchInv, NEW t \in Latchers, \A u \in Latchers : u # t => doing'[u] = doing[u],
           sharedLocks' = sharedLocks, exclusiveLocks' = exclusiveLocks,
           doing'[t] = doing[t] \/
             (doing[t] # "lock woken" /\ doing'[t] # "lock waits" /\ doing'[t] # "shared waits")
    PROVE  NoWakeupIsLost'
    <1>1. NoWakeupIsLost
        BY Zenon DEF LatchInv
    <1> QED BY ONLY <1>1, t \in Latchers, \A u \in Latchers : u # t => doing'[u] = doing[u],
           sharedLocks' = sharedLocks, exclusiveLocks' = exclusiveLocks,
           doing'[t] = doing[t] \/
             (doing[t] # "lock woken" /\ doing'[t] # "lock waits" /\ doing'[t] # "shared waits"), Zenon
           DEF NoWakeupIsLost

LEMMA Assembled ==
    ASSUME LatchInv, NEW t \in Latchers, Aside(t), LatchTypes', ThreadFits(t)',
           Counted(sharedLocks', ReadHolds'), (LatchFree \/ LatchTaken)', NoWakeupIsLost'
    PROVE  LatchInv'
    <1>1. \A u \in Latchers : ThreadFits(u)'
        BY OthersFit, Zenon
    <1> QED BY <1>1, Zenon DEF LatchInv

-----------------------------------------------------------------------------
(* The steps of a thread *)

LEMMA SetsOne ==
    ASSUME NEW S, NEW f \in [Latchers -> S], NEW t \in Latchers, NEW x \in S, NEW g,
           g = [f EXCEPT ![t] = x]
    PROVE  g \in [Latchers -> S] /\ g[t] = x /\ \A u \in Latchers : u # t => g[u] = f[u]
    OBVIOUS

LEMMA PinInv ==
    ASSUME LatchInv, NEW t \in Latchers, LatchPin(t) \/ LatchUnpin(t)
    PROVE  LatchInv'
    <1>1. /\ UNCHANGED mutexVars /\ UNCHANGED <<writeLocker, writeCount>>
          /\ doing' = doing /\ mode' = mode /\ latched' = latched /\ readLockers' = readLockers
          /\ sharedLocks' = sharedLocks /\ exclusiveLocks' = exclusiveLocks
        BY Zenon DEF LatchPin, LatchUnpin, bookVars, mutexVars
    <1>2. \/ pinned' = pinned \cup {t}
          \/ pinned' = pinned \ {t} /\ latched[t] = 0 /\ doing[t] = "idle"
        BY Zenon DEF LatchPin, LatchUnpin
    <1>3. Aside(t)
        BY <1>1, <1>2 DEF Aside
    <1>4. LatchTypes'
        BY <1>1, <1>2, Zenon DEF LatchInv, LatchTypes
    <1>5. ThreadFits(t)'
        <2>1. ThreadFits(t)
            BY Zenon DEF LatchInv
        <2>2. t \notin pinned' => latched[t] = 0 /\ doing[t] = "idle"
            BY <1>2
        <2> QED BY <1>1, <2>1, <2>2, Zenon DEF ThreadFits
    <1>6. (Writes(t)' <=> Writes(t)) /\ ReadHolds'[t] = ReadHolds[t]
        BY <1>1, Zenon DEF Writes, ReadHolds
    <1>7. Counted(sharedLocks', ReadHolds') /\ (LatchFree \/ LatchTaken)'
        BY <1>1, <1>3, <1>4, <1>6, MutexKept, Zenon
    <1>8. NoWakeupIsLost'
        BY <1>1, WakeupsKept, Zenon
    <1> QED BY <1>3, <1>4, <1>5, <1>7, <1>8, Assembled, Zenon

(* Only doing[t] changes, between states in which t has nothing new of the  *)
(* mutex.                                                                   *)
LEMMA DoingInv ==
    ASSUME LatchInv, NEW t \in Latchers, NEW x \in Doings, doing' = [doing EXCEPT ![t] = x],
           UNCHANGED mutexVars, UNCHANGED bookVars, mode' = mode, latched' = latched, pinned' = pinned,
           doing[t] \notin {"lock got", "shared got", "unlock", "unlock shared"},
           x \notin {"lock got", "shared got", "unlock", "unlock shared"},
           x \in Locking => mode[t] # "read", x \in Sharing => mode[t] # "write", t \in pinned,
           NoWakeupIsLost'
    PROVE  LatchInv'
    <1>1. /\ UNCHANGED <<writeLocker, writeCount>> /\ readLockers' = readLockers
          /\ sharedLocks' = sharedLocks /\ exclusiveLocks' = exclusiveLocks
          /\ owner' = owner /\ depth' = depth /\ writeLocker' = writeLocker /\ writeCount' = writeCount
        BY Zenon DEF bookVars, mutexVars
    <1>2. doing \in [Latchers -> Doings]
        BY Zenon DEF LatchInv, LatchTypes
    <1>3. doing' \in [Latchers -> Doings] /\ doing'[t] = x /\ \A u \in Latchers : u # t => doing'[u] = doing[u]
        BY <1>2, SetsOne, Zenon
    <1>4. Aside(t)
        BY <1>1, <1>3, Zenon DEF Aside
    <1>5. LatchTypes'
        BY <1>1, <1>3, Zenon DEF LatchInv, LatchTypes
    <1>6. ThreadFits(t)'
        <2>1. ThreadFits(t)
            BY Zenon DEF LatchInv
        <2> QED BY <1>1, <1>3, <2>1 DEF ThreadFits
    <1>7. /\ doing[t] # "shared got" /\ doing'[t] # "shared got" /\ doing[t] # "lock got" /\ doing'[t] # "lock got"
          /\ doing[t] # "unlock" /\ doing'[t] # "unlock"
        BY <1>3, Zenon
    <1>8. (Writes(t)' <=> Writes(t)) /\ ReadHolds'[t] = ReadHolds[t]
        BY <1>7, Zenon DEF Writes, ReadHolds
    <1>9. Counted(sharedLocks', ReadHolds') /\ (LatchFree \/ LatchTaken)'
        BY <1>1, <1>4, <1>5, <1>7, <1>8, MutexKept, Zenon
    <1> QED BY <1>4, <1>5, <1>6, <1>9, Assembled, Zenon

LEMMA BeginInv ==
    ASSUME LatchInv, NEW t \in Latchers, ReadLatch(t) \/ TryReadLatch(t) \/ WriteLatch(t)
    PROVE  LatchInv'
    <1>1. PICK x \in {"shared", "try", "lock"} :
             /\ doing[t] = "idle" /\ doing' = [doing EXCEPT ![t] = x] /\ t \in pinned
             /\ x = "lock" => mode[t] \in {"none", "write"}
             /\ x # "lock" => mode[t] \in {"none", "read"}
             /\ UNCHANGED <<mutexVars, mode, latched, pinned, bookVars>>
        BY DEF ReadLatch, TryReadLatch, WriteLatch, Begins, Does
    <1>2. /\ x \in Doings /\ x \notin {"lock got", "shared got", "unlock", "unlock shared"}
          /\ (x \in Locking => mode[t] # "read") /\ (x \in Sharing => mode[t] # "write")
          /\ x # "lock waits" /\ x # "shared waits"
        BY <1>1 DEF Doings, Locking, Sharing
    <1>3. doing \in [Latchers -> Doings]
        BY Zenon DEF LatchInv, LatchTypes
    <1>4. doing'[t] = x /\ \A u \in Latchers : u # t => doing'[u] = doing[u]
        BY <1>1, <1>2, <1>3, SetsOne, Zenon
    <1>5. NoWakeupIsLost'
        <2>1. doing[t] # "lock woken" /\ sharedLocks' = sharedLocks /\ exclusiveLocks' = exclusiveLocks
            BY <1>1 DEF mutexVars
        <2> QED BY <1>2, <1>4, <2>1, WakeupsKept, Zenon
    <1>6. /\ doing[t] \notin {"lock got", "shared got", "unlock", "unlock shared"}
          /\ UNCHANGED mutexVars /\ UNCHANGED bookVars /\ mode' = mode /\ latched' = latched /\ pinned' = pinned
        BY <1>1, Zenon
    <1> QED BY <1>1, <1>2, <1>5, <1>6, DoingInv, Zenon

(* lock_shared, try_lock_shared and lock when they have to wait. *)
LEMMA WaitInv ==
    ASSUME LatchInv, NEW t \in Latchers, UNCHANGED <<mode, latched, pinned, bookVars>>,
           UNCHANGED mutexVars,
           \/ /\ doing[t] \in {"shared", "shared woken"} /\ exclusiveLocks > 0
              /\ doing' = [doing EXCEPT ![t] = "shared waits"]
           \/ doing[t] = "try" /\ doing' = [doing EXCEPT ![t] = "idle"]
           \/ /\ doing[t] \in {"lock", "lock woken"} /\ (sharedLocks > 0 \/ exclusiveLocks > 0)
              /\ doing' = [doing EXCEPT ![t] = "lock waits"]
    PROVE  LatchInv'
    <1>0. ThreadFits(t)
        BY Zenon DEF LatchInv
    <1>a. ~(0 > 0)
        BY ONLY TRUE
    <1>1. PICK x \in {"shared waits", "idle", "lock waits"} :
             /\ doing' = [doing EXCEPT ![t] = x]
             /\ x = "shared waits" => doing[t] \in {"shared", "shared woken"} /\ exclusiveLocks > 0
             /\ x = "idle" => doing[t] = "try"
             /\ x = "lock waits" => doing[t] \in {"lock", "lock woken"} /\ (sharedLocks > 0 \/ exclusiveLocks > 0)
        BY Zenon
    <1>2. /\ x \in Doings /\ x \notin {"lock got", "shared got", "unlock", "unlock shared"}
          /\ (x \in Locking => mode[t] # "read") /\ (x \in Sharing => mode[t] # "write")
          /\ doing[t] \notin {"lock got", "shared got", "unlock", "unlock shared"} /\ t \in pinned
        BY ONLY <1>0, <1>1 DEF Doings, Locking, Sharing, ThreadFits
    <1>3. doing \in [Latchers -> Doings]
        BY Zenon DEF LatchInv, LatchTypes
    <1>4. doing'[t] = x /\ \A u \in Latchers : u # t => doing'[u] = doing[u]
        BY <1>1, <1>2, <1>3, SetsOne, Zenon
    <1>5. NoWakeupIsLost'
        <2>1. NoWakeupIsLost /\ sharedLocks' = sharedLocks /\ exclusiveLocks' = exclusiveLocks
            BY Zenon DEF mutexVars, LatchInv
        <2>2. CASE x = "idle"
            <3>1. doing[t] # "lock woken" /\ x # "lock waits" /\ x # "shared waits"
                BY <1>1, <2>2
            <3> QED BY <1>4, <2>1, <3>1, WakeupsKept, Zenon
        <2>3. CASE x = "shared waits"
            <3>1. exclusiveLocks # 0
                BY <1>a, <1>1, <2>3, Zenon
            <3> QED BY <2>1, <3>1, Zenon DEF NoWakeupIsLost
        <2>4. CASE x = "lock waits"
            <3>1. ~(sharedLocks = 0 /\ exclusiveLocks = 0)
                BY <1>a, <1>1, <2>4, Zenon
            <3> QED BY <1>4, <2>1, <2>4, <3>1, Zenon DEF NoWakeupIsLost
        <2> QED BY <1>1, <2>2, <2>3, <2>4, Zenon
    <1>6. UNCHANGED bookVars /\ mode' = mode /\ latched' = latched /\ pinned' = pinned
        BY Zenon
    <1> QED BY <1>1, <1>2, <1>5, <1>6, DoingInv, Zenon

(* The counts when t, and no other thread, has one more latch for reading,  *)
(* or one less, and no thread has the latch for writing.                    *)
LEMMA SharedCount ==
    ASSUME LatchInv, NEW t \in Latchers, Aside(t), LatchTypes', LatchFree,
           UNCHANGED <<exclusiveLocks, owner, depth, writeLocker, writeCount>>, ~Writes(t)',
           \/ ReadHolds'[t] = ReadHolds[t] + 1 /\ sharedLocks' = sharedLocks + 1
           \/ ReadHolds[t] = ReadHolds'[t] + 1 /\ sharedLocks' = sharedLocks - 1
    PROVE  Counted(sharedLocks', ReadHolds') /\ LatchFree'
    <1>1. ReadHolds \in [Latchers -> Nat]
        BY HoldsFacts, Zenon DEF LatchInv
    <1>2. ReadHolds' \in [Latchers -> Nat]
        <2>1. (LatchTypes => ReadHolds \in [Latchers -> Nat])'
            BY HoldsFacts, PTL
        <2> QED BY <2>1, Zenon
    <1>3. \A u \in Latchers : u # t => ReadHolds'[u] = ReadHolds[u]
        BY OthersFit, Zenon
    <1>4. Counted(sharedLocks, ReadHolds)
        BY Zenon DEF LatchInv
    <1>5. Counted(sharedLocks', ReadHolds')
        <2>1. CASE ReadHolds'[t] = ReadHolds[t] + 1 /\ sharedLocks' = sharedLocks + 1
            BY <1>1, <1>2, <1>3, <1>4, <2>1, CountMore, Zenon
        <2>2. CASE ReadHolds[t] = ReadHolds'[t] + 1 /\ sharedLocks' = sharedLocks - 1
            BY <1>1, <1>2, <1>3, <1>4, <2>2, CountLess, Zenon
        <2> QED BY <2>1, <2>2, Zenon
    <1>6. \A u \in Latchers : ~Writes(u)'
        BY OthersFit, Zenon DEF LatchFree
    <1> QED BY <1>5, <1>6, Zenon DEF LatchFree

(* lock_shared and try_lock_shared when they succeed *)
LEMMA SharedGotInv ==
    ASSUME LatchInv, NEW t \in Latchers, UNCHANGED <<mode, latched, pinned, bookVars>>,
           UNCHANGED <<exclusiveLocks, owner, depth>>, sharedLocks' = sharedLocks + 1,
           doing[t] \in {"shared", "shared woken", "try"}, ~(exclusiveLocks > 0),
           doing' = [doing EXCEPT ![t] = "shared got"]
    PROVE  LatchInv'
    <1>1. LatchFree
        BY ONLY MutexTypes, LatchInv, ~(exclusiveLocks > 0)
    <1>2. /\ readLockers' = readLockers /\ UNCHANGED <<writeLocker, writeCount>>
          /\ mode' = mode /\ latched' = latched /\ pinned' = pinned
        BY Zenon DEF bookVars
    <1>3. doing \in [Latchers -> Doings] /\ "shared got" \in Doings
        BY DEF LatchInv, LatchTypes, Doings, Sharing
    <1>4. /\ doing' \in [Latchers -> Doings] /\ doing'[t] = "shared got"
          /\ \A u \in Latchers : u # t => doing'[u] = doing[u]
        BY <1>3, SetsOne, Zenon
    <1>5. Aside(t) /\ LatchTypes'
        BY <1>2, <1>4, Zenon DEF Aside, LatchInv, LatchTypes
    <1>6. ThreadFits(t) /\ NoWakeupIsLost
        BY Zenon DEF LatchInv
    <1>7. ThreadFits(t)' /\ ~Writes(t)'
        BY ONLY <1>2, <1>4, <1>6, doing[t] \in {"shared", "shared woken", "try"}
           DEF ThreadFits, Writes, Locking, Sharing
    <1>8. ReadHolds'[t] = ReadHolds[t] + 1
        <2> DEFINE a == IF mode[t] = "read" THEN latched[t] ELSE 0
        <2>1. doing[t] # "shared got"
            BY Zenon
        <2>2. ReadHolds[t] = a + 0 /\ ReadHolds'[t] = a + 1
            BY <1>2, <1>4, <2>1, Zenon DEF ReadHolds
        <2>3. a \in Nat
            BY MutexTypes
        <2> HIDE DEF a
        <2> QED BY ONLY <2>2, <2>3
    <1>9. Counted(sharedLocks', ReadHolds') /\ LatchFree'
        BY <1>1, <1>2, <1>5, <1>7, <1>8, SharedCount, Zenon
    <1>10. NoWakeupIsLost'
        <2>1. sharedLocks' # 0
            BY ONLY MutexTypes, LatchInv, sharedLocks' = sharedLocks + 1
        <2>2. doing'[t] # "shared waits"
            BY <1>4
        <2> QED BY <1>4, <1>6, <2>1, <2>2, Zenon DEF NoWakeupIsLost
    <1> QED BY <1>5, <1>7, <1>9, <1>10, Assembled, Zenon

(* lock, when it succeeds *)
LEMMA LockGotInv ==
    ASSUME LatchInv, NEW t \in Latchers, UNCHANGED <<mode, latched, pinned, bookVars>>,
           sharedLocks' = sharedLocks, doing[t] \in {"lock", "lock woken"},
           doing' = [doing EXCEPT ![t] = "lock got"],
           \/ owner = t /\ depth' = depth + 1 /\ owner' = owner /\ exclusiveLocks' = exclusiveLocks
           \/ /\ ~(sharedLocks > 0 \/ exclusiveLocks > 0)
              /\ owner' = t /\ depth' = 1 /\ exclusiveLocks' = exclusiveLocks + 1
    PROVE  LatchInv'
    <1>2. /\ readLockers' = readLockers /\ writeLocker' = writeLocker /\ writeCount' = writeCount
          /\ mode' = mode /\ latched' = latched /\ pinned' = pinned
        BY Zenon DEF bookVars
    <1>3. doing \in [Latchers -> Doings] /\ "lock got" \in Doings
        BY DEF LatchInv, LatchTypes, Doings, Locking
    <1>4. /\ doing' \in [Latchers -> Doings] /\ doing'[t] = "lock got"
          /\ \A u \in Latchers : u # t => doing'[u] = doing[u]
        BY <1>3, SetsOne, Zenon
    <1>5. Aside(t) /\ LatchTypes'
        BY <1>2, <1>4, Zenon DEF Aside, LatchInv, LatchTypes
    <1>6. ThreadFits(t) /\ NoWakeupIsLost /\ latched[t] \in Nat
        BY DEF LatchInv, LatchTypes
    <1>7. ThreadFits(t)'
        BY ONLY <1>2, <1>4, <1>6, doing[t] \in {"lock", "lock woken"}
           DEF ThreadFits, Locking, Sharing
    <1>8. /\ ReadHolds \in [Latchers -> Nat] /\ sharedLocks \in Nat
          /\ sharedLocks = 0 <=> \A u \in Latchers : ReadHolds[u] = 0
        BY HoldsFacts, CountFacts, Zenon DEF LatchInv
    <1>9. ReadHolds' = ReadHolds
        <2>1. \A u \in Latchers : doing'[u] = "shared got" <=> doing[u] = "shared got"
            BY <1>4
        <2> QED BY <1>2, <2>1 DEF ReadHolds
    <1>10. sharedLocks = 0 /\ exclusiveLocks' = 1 /\ owner' = t
        <2>1. CASE owner = t /\ depth' = depth + 1 /\ owner' = owner /\ exclusiveLocks' = exclusiveLocks
            <3>1. LatchTaken
                BY <2>1, LatchAssumption, Zenon DEF LatchInv, LatchFree
            <3> QED BY <2>1, <3>1, Zenon DEF LatchTaken
        <2>2. CASE /\ ~(sharedLocks > 0 \/ exclusiveLocks > 0)
                   /\ owner' = t /\ depth' = 1 /\ exclusiveLocks' = exclusiveLocks + 1
            <3>1. exclusiveLocks = 0 /\ sharedLocks = 0
                BY ONLY <2>2, MutexTypes, LatchInv
            <3>2. exclusiveLocks' = 1
                BY ONLY <2>2, <3>1
            <3> QED BY <2>2, <3>1, <3>2, Zenon
        <2> QED BY <2>1, <2>2, Zenon
    <1>11. LatchTaken'
        <2>1. CASE owner = t /\ depth' = depth + 1 /\ owner' = owner /\ exclusiveLocks' = exclusiveLocks
            <3>1. LatchTaken
                BY <2>1, LatchAssumption, Zenon DEF LatchInv, LatchFree
            <3>2. /\ depth = latched[t] + 0 /\ writeCount = latched[t] - 0
                  /\ writeLocker = IF writeCount = 0 THEN NoThread ELSE owner
                  /\ \A u \in Latchers : u # t => ~Writes(u)
                <4>1. doing[t] # "lock got" /\ doing[t] # "unlock"
                    BY Zenon
                <4> QED BY <2>1, <3>1, <4>1, Zenon DEF LatchTaken
            <3>3. /\ depth' = latched'[t] + (IF doing'[t] = "lock got" THEN 1 ELSE 0)
                  /\ writeCount' = latched'[t] - (IF doing'[t] = "unlock" THEN 1 ELSE 0)
                  /\ writeLocker' = IF writeCount' = 0 THEN NoThread ELSE owner'
                <4>1. depth' = latched[t] + 1
                    BY ONLY <1>6, <2>1, <3>2
                <4>2. writeLocker' = IF writeCount' = 0 THEN NoThread ELSE owner'
                    BY ONLY <1>2, <2>1, <3>2
                <4>3. doing'[t] # "unlock"
                    BY <1>4
                <4> QED BY <1>2, <1>4, <3>2, <4>1, <4>2, <4>3, Zenon
            <3>4. \A u \in Latchers : u # t => ~Writes(u)'
                BY <1>5, <3>2, OthersFit, Zenon
            <3> QED BY <1>4, <1>10, <3>3, <3>4, Zenon DEF LatchTaken, Writes
        <2>2. CASE /\ ~(sharedLocks > 0 \/ exclusiveLocks > 0)
                   /\ owner' = t /\ depth' = 1 /\ exclusiveLocks' = exclusiveLocks + 1
            <3>1. LatchFree
                BY ONLY <2>2, MutexTypes, LatchInv
            <3>2. latched[t] = 0
                <4>1. ReadHolds[t] = 0 /\ mode[t] # "write"
                    BY <1>8, <1>10, <3>1, Zenon DEF LatchFree, Writes
                <4>2. mode[t] # "read"
                    BY <1>6, Zenon DEF ThreadFits, Locking
                <4>3. mode[t] = "none"
                    BY <4>1, <4>2 DEF LatchInv, LatchTypes
                <4> QED BY <1>6, <4>3, Zenon DEF ThreadFits
            <3>3. writeCount = 0 /\ writeLocker = NoThread
                BY <3>1, Zenon DEF LatchFree
            <3>4. /\ depth' = latched'[t] + (IF doing'[t] = "lock got" THEN 1 ELSE 0)
                  /\ writeCount' = latched'[t] - (IF doing'[t] = "unlock" THEN 1 ELSE 0)
                  /\ writeLocker' = IF writeCount' = 0 THEN NoThread ELSE owner'
                <4>1. doing'[t] # "unlock"
                    BY <1>4, Zenon
                <4>2. 1 = 0 + 1 /\ 0 = 0 - 0
                    BY ONLY TRUE
                <4> QED BY <1>2, <1>4, <2>2, <3>2, <3>3, <4>1, <4>2, Zenon
            <3>5. \A u \in Latchers : u # t => ~Writes(u)'
                BY <1>5, <3>1, OthersFit, Zenon DEF LatchFree
            <3> QED BY <1>4, <1>10, <3>4, <3>5, Zenon DEF LatchTaken, Writes
        <2> QED BY <2>1, <2>2, Zenon
    <1>12. NoWakeupIsLost'
        <2>1. exclusiveLocks' # 0
            BY ONLY <1>10
        <2> QED BY <2>1, Zenon DEF NoWakeupIsLost
    <1>13. Counted(sharedLocks', ReadHolds')
        BY <1>9, Zenon DEF LatchInv
    <1> QED BY <1>5, <1>7, <1>11, <1>12, <1>13, Assembled, Zenon

(* What Frame does after the mutex *)
LEMMA ReadLatchedInv ==
    ASSUME LatchInv, NEW t \in Latchers, ReadLatched(t)
    PROVE  LatchInv'
    <1>1. /\ doing[t] = "shared got" /\ doing' = [doing EXCEPT ![t] = "idle"]
          /\ readLockers' = [readLockers EXCEPT ![t] = readLockers[t] + 1]
          /\ mode' = [mode EXCEPT ![t] = "read"] /\ latched' = [latched EXCEPT ![t] = latched[t] + 1]
          /\ UNCHANGED mutexVars /\ pinned' = pinned /\ UNCHANGED <<writeLocker, writeCount>>
          /\ sharedLocks' = sharedLocks /\ exclusiveLocks' = exclusiveLocks
        BY Zenon DEF ReadLatched, Does, mutexVars
    <1>2. /\ doing \in [Latchers -> Doings] /\ "idle" \in Doings
          /\ mode \in [Latchers -> {"none", "read", "write"}] /\ "read" \in {"none", "read", "write"}
          /\ latched \in [Latchers -> Nat] /\ readLockers \in [Latchers -> Nat]
          /\ latched[t] + 1 \in Nat /\ readLockers[t] + 1 \in Nat
        <2>1. /\ doing \in [Latchers -> Doings] /\ mode \in [Latchers -> {"none", "read", "write"}]
              /\ latched \in [Latchers -> Nat] /\ readLockers \in [Latchers -> Nat]
            BY Zenon DEF LatchInv, LatchTypes
        <2>2. latched[t] + 1 \in Nat /\ readLockers[t] + 1 \in Nat
            BY ONLY <2>1, t \in Latchers
        <2> QED BY <2>1, <2>2, Zenon DEF Doings
    <1>3. /\ doing' \in [Latchers -> Doings] /\ mode' \in [Latchers -> {"none", "read", "write"}]
          /\ latched' \in [Latchers -> Nat] /\ readLockers' \in [Latchers -> Nat]
          /\ doing'[t] = "idle" /\ mode'[t] = "read"
          /\ latched'[t] = latched[t] + 1 /\ readLockers'[t] = readLockers[t] + 1
          /\ \A u \in Latchers : u # t => /\ doing'[u] = doing[u] /\ mode'[u] = mode[u]
                                          /\ latched'[u] = latched[u] /\ readLockers'[u] = readLockers[u]
        BY <1>1, <1>2, SetsOne, Zenon
    <1>4. Aside(t) /\ LatchTypes'
        BY <1>1, <1>3, Zenon DEF Aside, LatchInv, LatchTypes
    <1>5. ThreadFits(t) /\ latched[t] \in Nat /\ mode[t] \in {"none", "read", "write"}
        BY DEF LatchInv, LatchTypes
    <1>6. ThreadFits(t)'
        <2>1. t \in pinned' /\ mode[t] # "write"
            BY <1>1, <1>5, Zenon DEF ThreadFits, Sharing
        <2>2. readLockers[t] = latched[t] - 0
            <3>1. mode[t] = "none" => readLockers[t] = 0 - 0 /\ latched[t] = 0
                BY <1>1, <1>5, Zenon DEF ThreadFits
            <3>2. mode[t] = "read" => readLockers[t] = latched[t] - 0
                BY <1>1, <1>5, Zenon DEF ThreadFits
            <3> QED BY ONLY <1>5, <2>1, <3>1, <3>2
        <2>3. readLockers'[t] = latched'[t] - 0 /\ latched'[t] # 0
            BY ONLY <1>3, <1>5, <2>2
        <2> QED BY <1>3, <2>1, <2>3, Zenon DEF ThreadFits, Locking, Sharing
    <1>7. ~Writes(t) /\ ~Writes(t)'
        BY <1>1, <1>3, <1>5, Zenon DEF Writes, ThreadFits, Sharing
    <1>8. ReadHolds'[t] = ReadHolds[t]
        <2>1. ReadHolds'[t] = (latched[t] + 1) + 0
            BY <1>3, Zenon DEF ReadHolds
        <2>2. CASE mode[t] = "read"
            <3>1. ReadHolds[t] = latched[t] + 1
                BY <1>1, <2>2, Zenon DEF ReadHolds
            <3> QED BY ONLY <1>5, <2>1, <3>1
        <2>3. CASE mode[t] # "read"
            <3>1. ReadHolds[t] = 0 + 1
                BY <1>1, <2>3, Zenon DEF ReadHolds
            <3>2. mode[t] = "none"
                BY <1>1, <1>5, <2>3, Zenon DEF ThreadFits, Sharing
            <3>3. latched[t] = 0
                BY <1>5, <3>2, Zenon DEF ThreadFits
            <3> QED BY ONLY <2>1, <3>1, <3>3
        <2> QED BY <2>2, <2>3, Zenon
    <1>9. Counted(sharedLocks', ReadHolds') /\ (LatchFree \/ LatchTaken)'
        BY <1>1, <1>4, <1>7, <1>8, MutexKept, Zenon
    <1>10. NoWakeupIsLost'
        BY <1>1, <1>3, WakeupsKept, Zenon
    <1> QED BY <1>4, <1>6, <1>9, <1>10, Assembled, Zenon

LEMMA ReadUnlatchInv ==
    ASSUME LatchInv, NEW t \in Latchers, ReadUnlatch(t)
    PROVE  LatchInv'
    <1>1. /\ mode[t] = "read" /\ doing[t] = "idle" /\ doing' = [doing EXCEPT ![t] = "unlock shared"]
          /\ readLockers' = [readLockers EXCEPT ![t] = readLockers[t] - 1]
          /\ UNCHANGED mutexVars /\ pinned' = pinned /\ UNCHANGED <<writeLocker, writeCount>>
          /\ mode' = mode /\ latched' = latched
          /\ sharedLocks' = sharedLocks /\ exclusiveLocks' = exclusiveLocks
        BY Zenon DEF ReadUnlatch, Does, mutexVars
    <1>2. /\ doing \in [Latchers -> Doings] /\ "unlock shared" \in Doings
          /\ latched \in [Latchers -> Nat] /\ readLockers \in [Latchers -> Nat] /\ latched[t] \in Nat
        BY Zenon DEF LatchInv, LatchTypes, Doings
    <1>3. ThreadFits(t)
        BY Zenon DEF LatchInv
    <1>4. readLockers[t] = latched[t] - 0 /\ latched[t] # 0 /\ t \in pinned
        BY <1>1, <1>3, Zenon DEF ThreadFits
    <1>5. readLockers[t] - 1 \in Nat /\ readLockers[t] - 1 = latched[t] - 1
        <2>1. latched[t] \in Nat /\ readLockers[t] \in Nat
            BY <1>2, Zenon
        <2> QED BY ONLY <1>4, <2>1
    <1>6. /\ doing' \in [Latchers -> Doings] /\ readLockers' \in [Latchers -> Nat]
          /\ doing'[t] = "unlock shared" /\ readLockers'[t] = readLockers[t] - 1
          /\ \A u \in Latchers : u # t => doing'[u] = doing[u] /\ readLockers'[u] = readLockers[u]
        BY <1>1, <1>2, <1>5, SetsOne, Zenon
    <1>7. Aside(t) /\ LatchTypes'
        BY <1>1, <1>6, Zenon DEF Aside, LatchInv, LatchTypes
    <1>8. ThreadFits(t)'
        BY <1>1, <1>3, <1>4, <1>5, <1>6, Zenon DEF ThreadFits, Locking, Sharing
    <1>9. ~Writes(t) /\ ~Writes(t)' /\ ReadHolds'[t] = ReadHolds[t]
        BY <1>1, <1>6, Zenon DEF Writes, ReadHolds
    <1>10. Counted(sharedLocks', ReadHolds') /\ (LatchFree \/ LatchTaken)'
        BY <1>1, <1>7, <1>9, MutexKept, Zenon
    <1>11. NoWakeupIsLost'
        BY <1>1, <1>6, WakeupsKept, Zenon
    <1> QED BY <1>7, <1>8, <1>10, <1>11, Assembled, Zenon

LEMMA WriteLatchedInv ==
    ASSUME LatchInv, NEW t \in Latchers, WriteLatched(t)
    PROVE  LatchInv'
    <1>1. /\ doing[t] = "lock got" /\ doing' = [doing EXCEPT ![t] = "idle"]
          /\ mode' = [mode EXCEPT ![t] = "write"] /\ latched' = [latched EXCEPT ![t] = latched[t] + 1]
          /\ pinned' = pinned /\ readLockers' = readLockers
          /\ sharedLocks' = sharedLocks /\ exclusiveLocks' = exclusiveLocks
          /\ owner' = owner /\ depth' = depth /\ writeLocker' = t /\ writeCount' = writeCount + 1
        BY Zenon DEF WriteLatched, Does, mutexVars
    <1>2. /\ doing \in [Latchers -> Doings] /\ "idle" \in Doings
          /\ mode \in [Latchers -> {"none", "read", "write"}] /\ "write" \in {"none", "read", "write"}
          /\ latched \in [Latchers -> Nat] /\ latched[t] \in Nat
        BY Zenon DEF LatchInv, LatchTypes, Doings
    <1>3. latched[t] + 1 \in Nat /\ latched[t] + 1 # 0
        BY ONLY <1>2
    <1>4. /\ doing' \in [Latchers -> Doings] /\ mode' \in [Latchers -> {"none", "read", "write"}]
          /\ latched' \in [Latchers -> Nat]
          /\ doing'[t] = "idle" /\ mode'[t] = "write" /\ latched'[t] = latched[t] + 1
          /\ \A u \in Latchers : u # t => /\ doing'[u] = doing[u] /\ mode'[u] = mode[u]
                                          /\ latched'[u] = latched[u]
        BY <1>1, <1>2, <1>3, SetsOne, Zenon
    <1>5. Aside(t) /\ LatchTypes'
        BY <1>1, <1>4, Zenon DEF Aside, LatchInv, LatchTypes
    <1>6. ThreadFits(t) /\ Writes(t) /\ t \in pinned /\ mode[t] # "read"
        BY <1>1, Zenon DEF LatchInv, ThreadFits, Writes, Locking
    <1>7. ThreadFits(t)'
        <2>1. readLockers[t] = 0 - 0
            BY <1>1, <1>6, Zenon DEF ThreadFits
        <2> QED BY <1>1, <1>3, <1>4, <1>6, <2>1, Zenon DEF ThreadFits, Locking, Sharing
    <1>8. LatchTaken /\ owner = t
        BY <1>6, Zenon DEF LatchInv, LatchFree, LatchTaken
    <1>9. ReadHolds' = ReadHolds
        <2>1. \A u \in Latchers : /\ doing'[u] = "shared got" <=> doing[u] = "shared got"
                                  /\ mode'[u] = "read" <=> mode[u] = "read"
                                  /\ mode[u] = "read" => latched'[u] = latched[u]
            BY <1>1, <1>4, <1>6, Zenon
        <2> QED BY ONLY <2>1 DEF ReadHolds
    <1>10. LatchTaken'
        <2>1. depth = latched[t] + 1 /\ writeCount = latched[t] - 0
            BY <1>1, <1>8, Zenon DEF LatchTaken
        <2>2. depth' = latched'[t] + 0 /\ writeCount' = latched'[t] - 0 /\ writeCount' # 0
            <3>1. /\ depth' = depth /\ writeCount' = writeCount + 1
                  /\ latched'[t] = latched[t] + 1 /\ latched[t] \in Nat
                BY <1>1, <1>2, <1>4, Zenon
            <3> QED BY ONLY <2>1, <3>1
        <2>3. \A u \in Latchers : u # t => ~Writes(u)'
            BY <1>5, <1>8, OthersFit, Zenon DEF LatchTaken
        <2>4. exclusiveLocks' = 1 /\ sharedLocks' = 0 /\ owner' = t
            BY <1>1, <1>8, Zenon DEF LatchTaken
        <2> QED BY <1>1, <1>4, <2>2, <2>3, <2>4, Zenon DEF LatchTaken, Writes
    <1>11. NoWakeupIsLost'
        BY <1>1, <1>4, WakeupsKept, Zenon
    <1>12. Counted(sharedLocks', ReadHolds')
        BY <1>1, <1>9, Zenon DEF LatchInv
    <1> QED BY <1>5, <1>7, <1>10, <1>11, <1>12, Assembled, Zenon

LEMMA WriteUnlatchInv ==
    ASSUME LatchInv, NEW t \in Latchers, WriteUnlatch(t)
    PROVE  LatchInv'
    <1>1. /\ mode[t] = "write" /\ doing[t] = "idle" /\ doing' = [doing EXCEPT ![t] = "unlock"]
          /\ mode' = mode /\ latched' = latched /\ pinned' = pinned /\ readLockers' = readLockers
          /\ sharedLocks' = sharedLocks /\ exclusiveLocks' = exclusiveLocks
          /\ owner' = owner /\ depth' = depth /\ writeCount' = writeCount - 1
          /\ writeLocker' = IF writeCount = 1 THEN NoThread ELSE writeLocker
        BY Zenon DEF WriteUnlatch, Does, mutexVars
    <1>2. /\ doing \in [Latchers -> Doings] /\ "unlock" \in Doings /\ latched[t] \in Nat
        BY Zenon DEF LatchInv, LatchTypes, Doings
    <1>4. /\ doing' \in [Latchers -> Doings] /\ doing'[t] = "unlock"
          /\ \A u \in Latchers : u # t => doing'[u] = doing[u]
        BY <1>1, <1>2, SetsOne, Zenon
    <1>5. Aside(t) /\ LatchTypes'
        BY <1>1, <1>4, Zenon DEF Aside, LatchInv, LatchTypes
    <1>6. ThreadFits(t) /\ Writes(t) /\ t \in pinned /\ latched[t] # 0
        BY <1>1, Zenon DEF LatchInv, ThreadFits, Writes
    <1>7. ThreadFits(t)'
        BY <1>1, <1>4, <1>6, Zenon DEF ThreadFits, Locking, Sharing
    <1>8. LatchTaken /\ owner = t
        BY <1>6, Zenon DEF LatchInv, LatchFree, LatchTaken
    <1>9. ReadHolds' = ReadHolds
        <2>1. \A u \in Latchers : doing'[u] = "shared got" <=> doing[u] = "shared got"
            BY <1>1, <1>4, Zenon
        <2> QED BY ONLY <1>1, <2>1 DEF ReadHolds
    <1>10. LatchTaken'
        <2>1. depth = latched[t] + 0 /\ writeCount = latched[t] - 0
            BY <1>1, <1>8, Zenon DEF LatchTaken
        <2>2. depth' = latched'[t] + 0 /\ writeCount' = latched'[t] - 1
            BY ONLY <1>1, <1>2, <2>1
        <2>3. \A u \in Latchers : u # t => ~Writes(u)'
            BY <1>5, <1>8, OthersFit, Zenon DEF LatchTaken
        <2>4. exclusiveLocks' = 1 /\ sharedLocks' = 0 /\ owner' = t
            BY <1>1, <1>8, Zenon DEF LatchTaken
        <2>5. writeCount # 0 /\ (writeCount' = 0 <=> writeCount = 1)
            BY ONLY <1>1, <1>2, <1>6, <2>1
        <2>6. writeLocker' = IF writeCount' = 0 THEN NoThread ELSE t
            BY <1>1, <1>8, <2>5, Zenon DEF LatchTaken
        <2> QED BY <1>1, <1>4, <2>2, <2>3, <2>4, <2>6, Zenon DEF LatchTaken, Writes
    <1>11. NoWakeupIsLost'
        BY <1>1, <1>4, WakeupsKept, Zenon
    <1>12. Counted(sharedLocks', ReadHolds')
        BY <1>1, <1>9, Zenon DEF LatchInv
    <1> QED BY <1>5, <1>7, <1>10, <1>11, <1>12, Assembled, Zenon

-----------------------------------------------------------------------------
(* Giving the mutex back *)

LEMMA WakeWriterFacts ==
    ASSUME NEW d \in [Latchers -> Doings], NEW e \in WakeWriter(d)
    PROVE  /\ e \in [Latchers -> Doings]
           /\ \A u \in Latchers : e[u] = d[u] \/ (d[u] = "lock waits" /\ e[u] = "lock woken")
           /\ (\E u \in Latchers : d[u] = "lock waits") => \E u \in Latchers : e[u] = "lock woken"
    <1>1. CASE {t \in Latchers : d[t] = "lock waits"} = {}
        <2>1. e = d
            BY <1>1, Zenon DEF WakeWriter
        <2> QED BY <1>1, <2>1
    <1>2. CASE {t \in Latchers : d[t] = "lock waits"} # {}
        <2>1. PICK t \in Latchers : d[t] = "lock waits" /\ e = [d EXCEPT ![t] = "lock woken"]
            BY <1>2, Zenon DEF WakeWriter
        <2>2. "lock woken" \in Doings
            BY Zenon DEF Doings, Locking
        <2>3. /\ e \in [Latchers -> Doings] /\ e[t] = "lock woken"
              /\ \A u \in Latchers : u # t => e[u] = d[u]
            BY <2>1, <2>2, SetsOne, Zenon
        <2> QED BY <2>1, <2>3, Zenon
    <1> QED BY <1>1, <1>2, Zenon

LEMMA WakeReadersFacts ==
    ASSUME NEW d \in [Latchers -> Doings]
    PROVE  /\ WakeReaders(d) \in [Latchers -> Doings]
           /\ \A u \in Latchers : /\ WakeReaders(d)[u] # "shared waits"
                                  /\ \/ WakeReaders(d)[u] = d[u]
                                     \/ d[u] = "shared waits" /\ WakeReaders(d)[u] = "shared woken"
    <1>1. "shared woken" \in Doings
        BY Zenon DEF Doings, Sharing
    <1> QED BY <1>1 DEF WakeReaders

LEMMA LetGoFacts ==
    ASSUME LatchInv, NEW t \in Latchers, LetGo(t), latched[t] # 0
    PROVE  /\ latched' \in [Latchers -> Nat] /\ mode' \in [Latchers -> {"none", "read", "write"}]
           /\ latched'[t] = latched[t] - 1 /\ latched'[t] \in Nat /\ latched[t] \in Nat
           /\ mode'[t] = IF latched[t] = 1 THEN "none" ELSE mode[t]
           /\ \A u \in Latchers : u # t => latched'[u] = latched[u] /\ mode'[u] = mode[u]
    <1>1. /\ latched \in [Latchers -> Nat] /\ latched[t] \in Nat
          /\ mode \in [Latchers -> {"none", "read", "write"}]
        BY Zenon DEF LatchInv, LatchTypes
    <1>2. latched[t] - 1 \in Nat
        BY ONLY <1>1, latched[t] # 0
    <1>3. (IF latched[t] = 1 THEN "none" ELSE mode[t]) \in {"none", "read", "write"}
        BY <1>1, Zenon
    <1>4. /\ latched' = [latched EXCEPT ![t] = latched[t] - 1]
          /\ mode' = [mode EXCEPT ![t] = IF latched[t] = 1 THEN "none" ELSE mode[t]]
        BY Zenon DEF LetGo
    <1>5. /\ latched' \in [Latchers -> Nat] /\ latched'[t] = latched[t] - 1
          /\ \A u \in Latchers : u # t => latched'[u] = latched[u]
        BY <1>1, <1>2, <1>4, SetsOne, Zenon
    <1>6. /\ mode' \in [Latchers -> {"none", "read", "write"}]
          /\ mode'[t] = IF latched[t] = 1 THEN "none" ELSE mode[t]
          /\ \A u \in Latchers : u # t => mode'[u] = mode[u]
        BY <1>1, <1>3, <1>4, SetsOne, Zenon
    <1> QED BY <1>1, <1>2, <1>5, <1>6, Zenon

(* What is left of the latches of t when one is given back. *)
LEMMA LetGoFits ==
    ASSUME LatchInv, NEW t \in Latchers, LetGo(t), pinned' = pinned, readLockers' = readLockers,
           doing[t] \in {"unlock", "unlock shared"}, doing'[t] = "idle"
    PROVE  ThreadFits(t)' /\ latched[t] # 0
    <1>1. ThreadFits(t)
        BY Zenon DEF LatchInv
    <1>2. latched[t] # 0 /\ t \in pinned /\ mode[t] # "none"
        BY <1>1, Zenon DEF ThreadFits
    <1>3. /\ latched'[t] = latched[t] - 1 /\ latched'[t] \in Nat /\ latched[t] \in Nat
          /\ mode'[t] = IF latched[t] = 1 THEN "none" ELSE mode[t]
        BY <1>2, LetGoFacts, Zenon
    <1>4. latched[t] = 1 <=> latched'[t] = 0
        BY ONLY <1>3
    <1>5. mode'[t] = "none" <=> latched'[t] = 0
        BY <1>2, <1>3, <1>4, Zenon
    <1>6. readLockers[t] = (IF mode'[t] = "read" THEN latched'[t] ELSE 0) - 0
        <2>1. CASE doing[t] = "unlock shared"
            <3>1. mode[t] = "read" /\ readLockers[t] = latched[t] - 1
                BY <1>1, <2>1, Zenon DEF ThreadFits
            <3>2. readLockers[t] = latched'[t] - 0 /\ (latched'[t] = 0 => readLockers[t] = 0 - 0)
                BY ONLY <1>3, <3>1
            <3> QED BY <1>3, <1>4, <3>1, <3>2, Zenon
        <2>2. CASE doing[t] = "unlock"
            <3>1. mode[t] = "write" /\ readLockers[t] = 0 - 0
                BY <1>1, <2>2, Zenon DEF ThreadFits
            <3>2. mode'[t] # "read"
                BY <1>3, <3>1, Zenon
            <3> QED BY <3>1, <3>2, Zenon
        <2> QED BY <2>1, <2>2, Zenon
    <1> QED BY <1>2, <1>5, <1>6, Zenon DEF ThreadFits, Locking, Sharing

LEMMA UnlockSharedInv ==
    ASSUME LatchInv, NEW t \in Latchers, doing[t] = "unlock shared", UnlockShared(t), LetGo(t),
           UNCHANGED <<pinned, bookVars>>
    PROVE  LatchInv'
    <1> DEFINE d == [doing EXCEPT ![t] = "idle"]
    <1>1. /\ sharedLocks' = sharedLocks - 1 /\ UNCHANGED <<exclusiveLocks, owner, depth>>
          /\ exclusiveLocks' = exclusiveLocks /\ readLockers' = readLockers /\ pinned' = pinned
          /\ UNCHANGED <<writeLocker, writeCount>>
          /\ doing' \in (IF sharedLocks = 1 THEN WakeWriter(d) ELSE {d})
        BY Zenon DEF UnlockShared, bookVars
    <1>2. doing \in [Latchers -> Doings] /\ "idle" \in Doings
        BY Zenon DEF LatchInv, LatchTypes, Doings
    <1>3. d \in [Latchers -> Doings] /\ d[t] = "idle" /\ \A u \in Latchers : u # t => d[u] = doing[u]
        BY <1>2, SetsOne, Zenon
    <1> HIDE DEF d
    <1>4. /\ doing' \in [Latchers -> Doings]
          /\ \A u \in Latchers : doing'[u] = d[u] \/ (d[u] = "lock waits" /\ doing'[u] = "lock woken")
          /\ sharedLocks = 1 /\ (\E u \in Latchers : d[u] = "lock waits") => \E u \in Latchers : doing'[u] = "lock woken"
        <2>1. CASE sharedLocks = 1
            <3>1. doing' \in WakeWriter(d)
                BY <1>1, <2>1, Zenon
            <3> QED BY <1>3, <3>1, WakeWriterFacts, Zenon
        <2>2. CASE sharedLocks # 1
            <3>1. doing' = d
                BY <1>1, <2>2, Zenon
            <3> QED BY <1>3, <2>2, <3>1, Zenon
        <2> QED BY <2>1, <2>2, Zenon
    <1>5. doing'[t] = "idle" /\ \A u \in Latchers : u # t =>
             doing'[u] = doing[u] \/ (doing[u] = "lock waits" /\ doing'[u] = "lock woken")
        BY <1>3, <1>4, Zenon
    <1>6. ThreadFits(t)' /\ latched[t] # 0
        BY <1>1, <1>5, LetGoFits, Zenon
    <1>7. /\ latched' \in [Latchers -> Nat] /\ mode' \in [Latchers -> {"none", "read", "write"}]
          /\ latched'[t] = latched[t] - 1 /\ latched'[t] \in Nat /\ latched[t] \in Nat
          /\ mode'[t] = IF latched[t] = 1 THEN "none" ELSE mode[t]
          /\ \A u \in Latchers : u # t => latched'[u] = latched[u] /\ mode'[u] = mode[u]
        BY <1>6, LetGoFacts, Zenon
    <1>8. Aside(t) /\ LatchTypes'
        BY <1>1, <1>4, <1>5, <1>7, Zenon DEF Aside, LatchInv, LatchTypes
    <1>9. ThreadFits(t) /\ mode[t] = "read"
        BY Zenon DEF LatchInv, ThreadFits
    <1>10. ReadHolds[t] = latched[t] + 0 /\ ReadHolds'[t] = latched'[t] + 0
        <2>1. ReadHolds[t] = latched[t] + 0
            BY <1>9, Zenon DEF ReadHolds
        <2>2. CASE latched[t] = 1
            <3>1. ReadHolds'[t] = 0 + 0
                BY <1>5, <1>7, <2>2, Zenon DEF ReadHolds
            <3>2. latched'[t] = 0
                BY ONLY <1>7, <2>2
            <3> QED BY <2>1, <3>1, <3>2, Zenon
        <2>3. CASE latched[t] # 1
            <3>1. ReadHolds'[t] = latched'[t] + 0
                BY <1>5, <1>7, <1>9, <2>3, Zenon DEF ReadHolds
            <3> QED BY <2>1, <3>1, Zenon
        <2> QED BY <2>2, <2>3, Zenon
    <1>11. ReadHolds[t] = ReadHolds'[t] + 1 /\ ReadHolds[t] # 0
        <2>1. latched'[t] = latched[t] - 1 /\ latched'[t] \in Nat /\ latched[t] \in Nat /\ latched[t] # 0
            BY <1>6, <1>7, Zenon
        <2> QED BY ONLY <1>10, <2>1
    <1>12. LatchFree
        <2>1. sharedLocks # 0
            BY <1>11, HoldsFacts, CountFacts, Zenon DEF LatchInv
        <2> QED BY <2>1, Zenon DEF LatchInv, LatchTaken
    <1>13. ~Writes(t)'
        BY <1>5, <1>7, <1>9, Zenon DEF Writes
    <1>14. Counted(sharedLocks', ReadHolds') /\ LatchFree'
        BY <1>1, <1>8, <1>11, <1>12, <1>13, SharedCount, Zenon
    <1>15. NoWakeupIsLost'
        <2>1. \A u \in Latchers : doing'[u] # "shared waits"
            <3>1. \A u \in Latchers : doing[u] # "shared waits"
                BY <1>12, Zenon DEF LatchInv, LatchFree, NoWakeupIsLost
            <3> QED BY <1>5, <3>1, Zenon
        <2>2. sharedLocks' = 0 => sharedLocks = 1
            <3>1. sharedLocks \in Nat /\ sharedLocks' = sharedLocks - 1
                BY <1>1, MutexTypes, Zenon
            <3> QED BY ONLY <3>1
        <2>3. (\E u \in Latchers : doing'[u] = "lock waits") => \E u \in Latchers : d[u] = "lock waits"
            BY <1>4, Zenon
        <2> QED BY <1>4, <2>1, <2>2, <2>3, Zenon DEF NoWakeupIsLost
    <1> QED BY <1>6, <1>8, <1>14, <1>15, Assembled, Zenon

LEMMA UnlockExclusiveInv ==
    ASSUME LatchInv, NEW t \in Latchers, doing[t] = "unlock", UnlockExclusive(t), LetGo(t),
           UNCHANGED <<pinned, bookVars>>
    PROVE  LatchInv'
    <1> DEFINE d == [doing EXCEPT ![t] = "idle"]
    <1>1. /\ sharedLocks' = sharedLocks /\ readLockers' = readLockers /\ pinned' = pinned
          /\ writeLocker' = writeLocker /\ writeCount' = writeCount
        BY Zenon DEF UnlockExclusive, bookVars
    <1>2. doing \in [Latchers -> Doings] /\ "idle" \in Doings
        BY Zenon DEF LatchInv, LatchTypes, Doings
    <1>3. d \in [Latchers -> Doings] /\ d[t] = "idle" /\ \A u \in Latchers : u # t => d[u] = doing[u]
        BY <1>2, SetsOne, Zenon
    <1>4. ThreadFits(t) /\ mode[t] = "write" /\ Writes(t)
        BY Zenon DEF LatchInv, ThreadFits, Writes
    <1>5. LatchTaken /\ owner = t
        BY <1>4, Zenon DEF LatchInv, LatchFree, LatchTaken
    <1>6. /\ exclusiveLocks = 1 /\ sharedLocks = 0 /\ depth = latched[t] + 0 /\ writeCount = latched[t] - 1
          /\ writeLocker = IF writeCount = 0 THEN NoThread ELSE t
          /\ \A u \in Latchers : u # t => ~Writes(u)
        BY <1>5, Zenon DEF LatchTaken
    <1>7. \/ depth > 1 /\ depth' = depth - 1 /\ doing' = d /\ exclusiveLocks' = exclusiveLocks /\ owner' = owner
          \/ /\ ~(depth > 1) /\ owner' = NoThread /\ depth' = 0 /\ exclusiveLocks' = exclusiveLocks - 1
             /\ doing' \in WakeWriter(WakeReaders(d))
        BY <1>5, <1>6, Zenon DEF UnlockExclusive
    <1> HIDE DEF d
    <1>8. /\ doing' \in [Latchers -> Doings] /\ doing'[t] = "idle"
          /\ \A u \in Latchers : u # t => \/ doing'[u] = doing[u]
                                          \/ doing[u] = "lock waits" /\ doing'[u] = "lock woken"
                                          \/ doing[u] = "shared waits" /\ doing'[u] = "shared woken"
          /\ ~(depth > 1) => /\ \A u \in Latchers : doing'[u] # "shared waits"
                             /\ (\E u \in Latchers : doing'[u] = "lock waits")
                                   => \E u \in Latchers : doing'[u] = "lock woken"
        <2>1. CASE doing' = d /\ depth > 1
            BY <1>3, <2>1, Zenon
        <2>2. CASE doing' \in WakeWriter(WakeReaders(d)) /\ ~(depth > 1)
            <3> DEFINE r == WakeReaders(d)
            <3>1. /\ r \in [Latchers -> Doings]
                  /\ \A u \in Latchers : /\ r[u] # "shared waits"
                                         /\ r[u] = d[u] \/ (d[u] = "shared waits" /\ r[u] = "shared woken")
                BY <1>3, WakeReadersFacts, Zenon
            <3>2. doing' \in WakeWriter(r)
                BY <2>2, Zenon
            <3> HIDE DEF r
            <3>3. /\ doing' \in [Latchers -> Doings]
                  /\ \A u \in Latchers : doing'[u] = r[u] \/ (r[u] = "lock waits" /\ doing'[u] = "lock woken")
                  /\ (\E u \in Latchers : r[u] = "lock waits") => \E u \in Latchers : doing'[u] = "lock woken"
                BY <3>1, <3>2, WakeWriterFacts, Zenon
            <3>4. r[t] = "idle"
                BY <1>3, <3>1, Zenon
            <3>5. doing'[t] = "idle"
                BY <3>3, <3>4, Zenon
            <3>6. ASSUME NEW u \in Latchers, u # t
                  PROVE  \/ doing'[u] = doing[u]
                         \/ doing[u] = "lock waits" /\ doing'[u] = "lock woken"
                         \/ doing[u] = "shared waits" /\ doing'[u] = "shared woken"
                <4>1. /\ d[u] = doing[u] /\ (r[u] = d[u] \/ (d[u] = "shared waits" /\ r[u] = "shared woken"))
                      /\ doing'[u] = r[u] \/ (r[u] = "lock waits" /\ doing'[u] = "lock woken")
                    BY <1>3, <3>1, <3>3, <3>6, Zenon
                <4> QED BY ONLY <4>1, Zenon
            <3>7. \A u \in Latchers : doing'[u] # "shared waits"
                BY <3>1, <3>3, Zenon
            <3>8. (\E u \in Latchers : doing'[u] = "lock waits") => \E u \in Latchers : doing'[u] = "lock woken"
                BY <3>3, Zenon
            <3> QED BY <3>3, <3>5, <3>6, <3>7, <3>8, Zenon
        <2> QED BY <1>7, <2>1, <2>2, Zenon
    <1>9. ThreadFits(t)' /\ latched[t] # 0
        BY <1>1, <1>8, LetGoFits, Zenon
    <1>10. /\ latched' \in [Latchers -> Nat] /\ mode' \in [Latchers -> {"none", "read", "write"}]
           /\ latched'[t] = latched[t] - 1 /\ latched'[t] \in Nat /\ latched[t] \in Nat
           /\ mode'[t] = IF latched[t] = 1 THEN "none" ELSE mode[t]
           /\ \A u \in Latchers : u # t => latched'[u] = latched[u] /\ mode'[u] = mode[u]
        BY <1>9, LetGoFacts, Zenon
    <1>11. Aside(t) /\ LatchTypes'
        BY <1>1, <1>8, <1>10, Zenon DEF Aside, LatchInv, LatchTypes
    <1>12. \A u \in Latchers : u # t => ~Writes(u)' /\ ReadHolds'[u] = ReadHolds[u]
        BY <1>6, <1>11, OthersFit, Zenon
    <1>13. Counted(sharedLocks', ReadHolds')
        <2>1. ReadHolds'[t] = ReadHolds[t]
            <3>1. mode'[t] # "read" /\ doing'[t] # "shared got" /\ doing[t] # "shared got"
                BY <1>4, <1>8, <1>10, Zenon
            <3> QED BY <1>4, <3>1, Zenon DEF ReadHolds
        <2>2. ReadHolds \in [Latchers -> Nat]
            BY HoldsFacts, Zenon DEF LatchInv
        <2>3. ReadHolds' \in [Latchers -> Nat]
            <3>1. (LatchTypes => ReadHolds \in [Latchers -> Nat])'
                BY HoldsFacts, PTL
            <3> QED BY <1>11, <3>1, Zenon
        <2>4. ReadHolds' = ReadHolds
            BY ONLY <1>12, <2>1, <2>2, <2>3
        <2> QED BY <1>1, <2>4, Zenon DEF LatchInv
    <1>14. latched[t] \in Nat /\ latched'[t] = latched[t] - 1 /\ latched[t] # 0
        BY <1>9, <1>10, Zenon
    <1>15. CASE depth > 1
        <2>1. depth > 1 /\ depth' = depth - 1 /\ exclusiveLocks' = 1 /\ sharedLocks' = 0 /\ owner' = t
            BY <1>1, <1>5, <1>6, <1>7, <1>15, Zenon
        <2>2. /\ depth' = latched'[t] + 0 /\ writeCount' = latched'[t] - 0 /\ latched[t] # 1
              /\ exclusiveLocks' # 0
            <3>1. depth = latched[t] + 0 /\ writeCount = latched[t] - 1 /\ writeCount' = writeCount
                BY <1>1, <1>6, Zenon
            <3> QED BY ONLY <1>14, <2>1, <3>1
        <2>3. mode'[t] = "write"
            BY <1>4, <1>10, <2>2, Zenon
        <2>4. LatchTaken'
            BY <1>1, <1>6, <1>8, <1>12, <2>1, <2>2, <2>3, Zenon DEF LatchTaken, Writes
        <2>5. NoWakeupIsLost'
            BY <2>2, Zenon DEF NoWakeupIsLost
        <2> QED BY <1>9, <1>11, <1>13, <2>4, <2>5, Assembled, Zenon
    <1>16. CASE ~(depth > 1)
        <2>1. ~(depth > 1) /\ depth' = 0 /\ exclusiveLocks' = exclusiveLocks - 1 /\ owner' = NoThread
            BY <1>7, <1>16, Zenon
        <2>2. latched[t] = 1 /\ writeCount = 0 /\ exclusiveLocks' = 0
            <3>1. depth = latched[t] + 0 /\ writeCount = latched[t] - 1 /\ exclusiveLocks = 1
                BY <1>6, Zenon
            <3> QED BY ONLY <1>14, <2>1, <3>1
        <2>3. ~Writes(t)'
            BY <1>8, <1>10, <2>2, Zenon DEF Writes
        <2>4. LatchFree'
            BY <1>1, <1>6, <1>12, <2>1, <2>2, <2>3, Zenon DEF LatchFree
        <2>5. NoWakeupIsLost'
            BY <1>8, <1>16, Zenon DEF NoWakeupIsLost
        <2> QED BY <1>9, <1>11, <1>13, <2>4, <2>5, Assembled, Zenon
    <1> QED BY <1>15, <1>16, Zenon

LEMMA MutexInv ==
    ASSUME LatchInv, NEW t \in Latchers, MutexStep(t)
    PROVE  LatchInv'
    <1>1. CASE LockShared(t) /\ UNCHANGED <<mode, latched, pinned, bookVars>>
        <2>1. CASE exclusiveLocks > 0
            BY <1>1, <2>1, WaitInv, Zenon DEF LockShared, mutexVars
        <2>2. CASE ~(exclusiveLocks > 0)
            BY <1>1, <2>2, SharedGotInv, Zenon DEF LockShared
        <2> QED BY <2>1, <2>2, Zenon
    <1>2. CASE TryLockShared(t) /\ UNCHANGED <<mode, latched, pinned, bookVars>>
        <2>1. CASE exclusiveLocks # 0
            BY <1>2, <2>1, WaitInv, Zenon DEF TryLockShared, mutexVars
        <2>2. CASE exclusiveLocks = 0
            <3>1. ~(exclusiveLocks > 0)
                BY ONLY <2>2
            <3> QED BY <1>2, <2>2, <3>1, SharedGotInv, Zenon DEF TryLockShared
        <2> QED BY <2>1, <2>2, Zenon
    <1>3. CASE LockExclusive(t) /\ UNCHANGED <<mode, latched, pinned, bookVars>>
        <2>1. CASE (sharedLocks > 0 \/ exclusiveLocks > 0) /\ owner # t
            BY <1>3, <2>1, WaitInv, Zenon DEF LockExclusive
        <2>2. CASE ~(sharedLocks > 0 \/ exclusiveLocks > 0)
            BY <1>3, <2>2, LockGotInv, Zenon DEF LockExclusive
        <2>3. CASE (sharedLocks > 0 \/ exclusiveLocks > 0) /\ owner = t
            BY <1>3, <2>3, LockGotInv, Zenon DEF LockExclusive
        <2> QED BY <2>1, <2>2, <2>3, Zenon
    <1>4. CASE /\ doing[t] = "unlock shared" /\ UnlockShared(t)
               /\ LetGo(t) /\ UNCHANGED <<pinned, bookVars>>
        BY <1>4, UnlockSharedInv, Zenon
    <1>5. CASE doing[t] = "unlock" /\ UnlockExclusive(t) /\ LetGo(t) /\ UNCHANGED <<pinned, bookVars>>
        BY <1>5, UnlockExclusiveInv, Zenon
    <1> QED BY <1>1, <1>2, <1>3, <1>4, <1>5, Zenon DEF MutexStep

LEMMA LatchInitInv == LatchInit => LatchInv
    <1> SUFFICES ASSUME LatchInit PROVE LatchInv
        OBVIOUS
    <1>1. /\ \A t \in Latchers : doing[t] = "idle" /\ mode[t] = "none" /\ latched[t] = 0 /\ readLockers[t] = 0
          /\ sharedLocks = 0 /\ exclusiveLocks = 0 /\ owner = NoThread /\ depth = 0 /\ pinned = {}
          /\ writeLocker = NoThread /\ writeCount = 0
        BY Zenon DEF LatchInit
    <1>2. LatchTypes
        <2>1. "idle" \in Doings /\ "none" \in {"none", "read", "write"}
            BY Zenon DEF Doings
        <2>2. 0 \in Nat
            BY ONLY TRUE
        <2> QED BY <2>1, <2>2, Zenon DEF LatchInit, LatchTypes
    <1>3. 0 = 0 - 0 /\ 0 + 0 = 0
        BY ONLY TRUE
    <1>4. \A t \in Latchers : ThreadFits(t)
        BY <1>1, <1>3, Zenon DEF ThreadFits, Locking, Sharing
    <1>5. \A t \in Latchers : ReadHolds[t] = 0
        BY <1>1, <1>3, Zenon DEF ReadHolds
    <1>6. Counted(sharedLocks, ReadHolds)
        BY <1>1, <1>5, CountNone, Zenon
    <1>7. LatchFree
        BY <1>1, Zenon DEF LatchFree, Writes
    <1>8. NoWakeupIsLost
        BY <1>1, Zenon DEF NoWakeupIsLost
    <1> QED BY <1>2, <1>4, <1>6, <1>7, <1>8, Zenon DEF LatchInv

LEMMA LatchNextInv == LatchInv /\ [LatchNext]_latchVars => LatchInv'
    <1> SUFFICES ASSUME LatchInv, [LatchNext]_latchVars PROVE LatchInv'
        OBVIOUS
    <1>1. CASE UNCHANGED latchVars
        BY <1>1, Zenon DEF latchVars, LatchInv, LatchTypes, ThreadFits, ReadHolds, LatchFree, LatchTaken,
                           NoWakeupIsLost, Writes
    <1>2. CASE LatchNext
        <2>1. PICK t \in Latchers :
                 \/ LatchPin(t) \/ LatchUnpin(t) \/ ReadLatch(t) \/ TryReadLatch(t) \/ WriteLatch(t)
                 \/ MutexStep(t)
                 \/ ReadLatched(t) \/ WriteLatched(t) \/ ReadUnlatch(t) \/ WriteUnlatch(t)
            BY <1>2, Zenon DEF LatchNext
        <2> QED BY <2>1, PinInv, BeginInv, MutexInv, ReadLatchedInv, WriteLatchedInv, ReadUnlatchInv,
                   WriteUnlatchInv, Zenon
    <1> QED BY <1>1, <1>2, Zenon

LEMMA LatchInvIsRight == LatchInv => LatchIsRight
    <1> SUFFICES ASSUME LatchInv PROVE LatchIsRight
        OBVIOUS
    <1>1. ASSUME NEW t \in Latchers, NEW u \in Latchers, t # u, Writes(t) PROVE ~Reads(u) /\ ~Writes(u)
        <2>1. LatchTaken /\ owner = t
            BY <1>1, Zenon DEF LatchInv, LatchFree, LatchTaken
        <2>2. ReadHolds[u] = 0
            BY <2>1, HoldsFacts, CountFacts, Zenon DEF LatchInv, LatchTaken
        <2>3. ThreadFits(u) /\ latched[u] \in Nat
            BY Zenon DEF LatchInv, LatchTypes
        <2>4. ~(mode[u] = "read")
            <3> SUFFICES ASSUME mode[u] = "read" PROVE FALSE
                BY Zenon
            <3>1. latched[u] # 0
                BY <2>3, Zenon DEF ThreadFits
            <3>2. ReadHolds[u] = latched[u] + 0 \/ ReadHolds[u] = latched[u] + 1
                BY Zenon DEF ReadHolds
            <3> QED BY ONLY <2>2, <2>3, <3>1, <3>2
        <2>5. ~(doing[u] = "shared got")
            <3> SUFFICES ASSUME doing[u] = "shared got" PROVE FALSE
                BY Zenon
            <3>1. ReadHolds[u] = 0 + 1
                BY <2>4, Zenon DEF ReadHolds
            <3> QED BY ONLY <2>2, <3>1
        <2> QED BY <1>1, <2>1, <2>4, <2>5, Zenon DEF Reads, LatchTaken
    <1>2. ASSUME NEW t \in Latchers, mode[t] = "write", doing[t] = "idle" PROVE writeLocker = t
        <2>1. LatchTaken /\ owner = t
            BY <1>2, Zenon DEF LatchInv, LatchFree, LatchTaken, Writes
        <2>2. writeCount = latched[t] - 0 /\ latched[t] # 0 /\ latched[t] \in Nat
            BY <1>2, <2>1, Zenon DEF LatchTaken, LatchInv, ThreadFits, LatchTypes
        <2>3. writeCount # 0
            BY ONLY <2>2
        <2> QED BY <2>1, <2>3, Zenon DEF LatchTaken
    <1>3. ASSUME NEW t \in Latchers, mode[t] = "read", doing[t] = "idle" PROVE readLockers[t] > 0
        <2>1. readLockers[t] = latched[t] - 0 /\ latched[t] # 0 /\ latched[t] \in Nat
            BY <1>3, Zenon DEF LatchInv, ThreadFits, LatchTypes
        <2> QED BY ONLY <2>1
    <1>4. ASSUME pinned = {} PROVE writeLocker = NoThread /\ \A t \in Latchers : readLockers[t] = 0
        <2>1. \A t \in Latchers : latched[t] = 0 /\ doing[t] = "idle" /\ mode[t] = "none"
            BY <1>4, Zenon DEF LatchInv, ThreadFits
        <2>2. \A t \in Latchers : readLockers[t] = 0 - 0
            BY <2>1, Zenon DEF LatchInv, ThreadFits
        <2>3. LatchFree
            BY <2>1, Zenon DEF LatchInv, LatchTaken, Writes
        <2>4. 0 - 0 = 0
            BY ONLY TRUE
        <2> QED BY <2>2, <2>3, <2>4, Zenon DEF LatchFree
    <1> QED BY <1>1, <1>2, <1>3, <1>4, Zenon DEF LatchIsRight, LatchExcludes, LatchAssertionsHold, LatchInv

(* The latch of a frame lets a writer in alone, the ASSERTs of Frame's      *)
(* latch methods hold, and no thread sleeps in RecursiveSharedMutex that    *)
(* could go on, for any number of threads and of latches of one thread.     *)
THEOREM LatchIsSafe == LatchSpec => []LatchIsRight
    BY LatchInitInv, LatchNextInv, LatchInvIsRight, PTL DEF LatchSpec
=============================================================================
