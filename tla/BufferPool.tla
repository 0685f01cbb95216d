----------------------------- MODULE BufferPool -----------------------------
(***************************************************************************)
(* The buffer pool (src/src/observer/storage/os/buffer): paged files, each *)
(* a DiskBufferPool with its own lock_, that share the frames of one       *)
(* BPFrameManager under the frame manager's lock_.                         *)
(*                                                                         *)
(* A page's content is a version number.  What a flush hands to the double *)
(* write buffer and a load reads back from it, or from the data file, is   *)
(* `store' (module DoubleWriteBuffer shows that the two agree).  The file  *)
(* header is kept in memory for as long as the file is open: its bitmap is *)
(* `alloc', its page_count `count'; its frame, always pinned, is left out. *)
(*                                                                         *)
(* The replacement policies differ in which unpinned frame they choose, so *)
(* the victim is any unpinned frame.                                       *)
(***************************************************************************)
EXTENDS Integers, FiniteSets, FiniteSetsExt

CONSTANTS Threads,     \* threads that use pages
          Pools,       \* open paged files
          MaxPages,    \* bound on each file's pages (BPFileHeader::MAX_PAGE_NUM)
          Capacity,    \* frames of the frame manager
          MaxVer,      \* bound: versions of a page
          MaxHeld,     \* bound: pages a thread asks for while it holds others
          Disposable,  \* bound: the pages that are disposed of
          Faults,      \* what may fail: a load, the flush of a victim, of a
                       \* new last page, of flush_all_pages, a log append
          Apart        \* no thread looks up, writes to or lists a page that
                       \* another one is loading, freeing or flushing

None == "none"
Junk == -1             \* content nobody wrote: of a frame not loaded yet, or
                       \* of a page whose user has not initialised it

FrameIds == UNION {{p} \X (0 .. MaxPages[p] - 1) : p \in Pools}
NoFrame == <<None, 0>>
Vers == 0 .. MaxVer
Labels == {"idle", "lookup", "lock", "frame", "purge", "evict",
           "load", "extend", "clear", "free",
           "mark", "flush", "copied"}
Kinds == {None, "get", "reuse", "extend", "dispose"}
FrameType == [pin : Nat, dirty : BOOLEAN, ver : Vers \cup {Junk}]

ASSUME BufferPoolAssumption ==
  /\ MaxPages \in [Pools -> Nat \ {0}] /\ Capacity \in Nat \ {0} /\ MaxVer \in Nat /\ MaxHeld \in Nat
  /\ Disposable \subseteq FrameIds
  /\ None \notin Threads \cup Pools
  /\ Faults \subseteq {"load", "purge", "extend", "flush_all", "log"}
  /\ Apart \in BOOLEAN
  /\ IsFiniteSet(Threads)

VARIABLES frames,   \* frames_: the frames in use, by FrameId
          store,    \* what a load of the page reads
          alloc,    \* the allocated pages (the bitmaps)
          count,    \* page_count of each file
          lock,     \* the holder of each DiskBufferPool::lock_
          mutex,    \* the holder of BPFrameManager::lock_ across steps
          at,       \* each thread's place: label, operation, page
          victim,   \* the frame a thread is evicting
          todo,     \* frames a flush_all_pages has pinned and not yet flushed
          leaked,   \* frames whose pin a failed flush_all_pages left behind
          held,     \* pages a thread's caller has pinned
          latest    \* the last content a user gave each page

vars == <<frames, store, alloc, count, lock, mutex, at, victim, todo, leaked, held, latest>>

Idle == [pc |-> "idle", kind |-> None, f |-> NoFrame]
At(t, l) == at[t].pc = l
Goto(t, l) == at' = [at EXCEPT ![t].pc = l]
Start(t, l, k, f) == at' = [at EXCEPT ![t] = [pc |-> l, kind |-> k, f |-> f]]
Return(t) == at' = [at EXCEPT ![t] = Idle]
Acquire(t, p) == lock[p] = None /\ lock' = [lock EXCEPT ![p] = t]
Release(p) == lock' = [lock EXCEPT ![p] = None]

Cached(f) == f \in DOMAIN frames
SetFrame(f, r) == frames' = [g \in DOMAIN frames \cup {f} |->
                               IF g = f THEN r ELSE frames[g]]
Pin(f) == frames' = [frames EXCEPT ![f].pin = @ + 1]
Unpin(f) == frames' = [frames EXCEPT ![f].pin = @ - 1]
Drop(f) == frames' = [g \in DOMAIN frames \ {f} |-> frames[g]]

(* A thread other than t is between two steps of a load, a free or a flush *)
(* of f, or has taken f from the bitmap and not cleared it yet.            *)
Busy(t, f) == \E u \in Threads \ {t} :
                /\ at[u].f = f
                /\ \/ at[u].pc \in {"load", "extend", "free", "copied", "clear"}
                   \/ at[u].kind = "reuse"
KeepsApart(t, f) == Apart => ~Busy(t, f)

Init ==
  /\ frames = [f \in {} |-> Junk]
  /\ alloc = Pools \X {0}
  /\ count = [p \in Pools |-> 1]
  /\ store = [f \in FrameIds |-> IF f \in alloc THEN 0 ELSE Junk]
  /\ latest = store
  /\ lock = [p \in Pools |-> None]
  /\ mutex = None
  /\ at = [t \in Threads |-> Idle]
  /\ victim = [t \in Threads |-> NoFrame]
  /\ todo = [t \in Threads |-> {}]
  /\ leaked = {}
  /\ held = [t \in Threads |-> {}]

-----------------------------------------------------------------------------
(* get_this_page.  The optimistic lookup takes the frame manager's lock    *)
(* only; a miss takes the file's lock_, checks the bitmap and looks again. *)

(* Mutant: the bitmap is not looked at. *)
CheckPageNumMut(f) == f[2] < count[f[1]]
CheckPageNum(f) == f[2] < count[f[1]] /\ f \in alloc

(* What a successful get leaves: the caller holds the page, or, for an     *)
(* allocate_page that reuses a hole, goes on to clear it.                  *)
Got(t, k, f) ==
  IF k = "reuse" THEN Start(t, "clear", k, f) /\ UNCHANGED held
  ELSE Return(t) /\ held' = [held EXCEPT ![t] = @ \cup {f}]

Lookup(t, k, f) ==
  /\ mutex = None
  /\ IF Cached(f)
     THEN KeepsApart(t, f) /\ Pin(f) /\ Got(t, k, f)
     ELSE Start(t, "lock", k, f) /\ UNCHANGED <<frames, held>>
  /\ UNCHANGED <<store, alloc, count, lock, mutex, victim, todo, leaked, latest>>

GetThisPage(t) ==
  \/ /\ At(t, "idle")
     /\ Cardinality(held[t]) < MaxHeld
     /\ \E f \in FrameIds \ held[t] : CheckPageNum(f) /\ Lookup(t, "get", f)
  \/ /\ At(t, "lookup")
     /\ IF CheckPageNum(at[t].f)
        THEN Lookup(t, at[t].kind, at[t].f)
        ELSE /\ Return(t)
             /\ UNCHANGED <<frames, store, alloc, count, lock, mutex, victim, todo, leaked, held, latest>>

(* Taking lock_ and the lookup under it are one step: nothing the thread   *)
(* does or reads lies between them.                                        *)
GetLocked(t) ==
  LET f == at[t].f IN
  /\ At(t, "lock")
  /\ lock[f[1]] = None
  /\ mutex = None
  /\ \/ ~CheckPageNum(f) /\ Return(t) /\ UNCHANGED <<frames, lock, held>>
     \/ CheckPageNum(f) /\ Cached(f) /\ Pin(f) /\ Got(t, at[t].kind, f) /\ UNCHANGED lock
     \/ CheckPageNum(f) /\ ~Cached(f) /\ Acquire(t, f[1]) /\ Goto(t, "frame")
        /\ UNCHANGED <<frames, held>>
  /\ UNCHANGED <<store, alloc, count, mutex, victim, todo, leaked, latest>>

(* load_page, and purge_frame when it fails: that one gives the frame up   *)
(* only if nobody else has pinned it, and otherwise keeps this thread's pin. *)
LoadPage(t) ==
  LET f == at[t].f IN
  /\ At(t, "load")
  /\ frames' = [frames EXCEPT ![f].ver = store[f]]
  /\ Got(t, at[t].kind, f)
  /\ Release(f[1])
  /\ UNCHANGED <<store, alloc, count, mutex, victim, todo, leaked, latest>>

LoadFails(t) ==
  LET f == at[t].f IN
  /\ At(t, "load")
  /\ "load" \in Faults
  /\ IF frames[f].pin = 1 THEN Goto(t, "free") /\ UNCHANGED lock
                          ELSE Return(t) /\ Release(f[1])
  /\ UNCHANGED <<frames, store, alloc, count, mutex, victim, todo, leaked, held, latest>>

-----------------------------------------------------------------------------
(* allocate_frame: BPFrameManager::alloc, and purge_frames when no frame   *)
(* is free.                                                                *)

(* Mutant: one frame more than the capacity. *)
FrameLeftMut == Cardinality(DOMAIN frames) <= Capacity
FrameLeft == Cardinality(DOMAIN frames) < Capacity

AllocFrame(t) ==
  LET f == at[t].f IN
  /\ At(t, "frame")
  /\ mutex = None
  /\ IF FrameLeft
     THEN /\ SetFrame(f, [pin |-> 1, dirty |-> FALSE, ver |-> Junk])
          /\ Goto(t, IF at[t].kind = "extend" THEN "extend" ELSE "load")
     ELSE Goto(t, "purge") /\ UNCHANGED frames
  /\ UNCHANGED <<store, alloc, count, lock, mutex, victim, todo, leaked, held, latest>>

CanPurge(f) == frames[f].pin = 0

(* Mutant: allocate_page returns without its lock_.unlock(). *)
NoBufferMut(t) == Return(t) /\ UNCHANGED lock

(* BUFFERPOOL_NOBUF: back to the caller of get_this_page or allocate_page. *)
NoBuffer(t) == Return(t) /\ Release(at[t].f[1])

ChooseVictim(t) ==
  /\ At(t, "purge")
  /\ mutex = None
  /\ \/ /\ \A v \in DOMAIN frames : ~CanPurge(v)
        /\ NoBuffer(t)
        /\ UNCHANGED <<frames, mutex, victim>>
     \/ \E v \in DOMAIN frames :
          /\ CanPurge(v)
          /\ Pin(v)
          /\ mutex' = t
          /\ victim' = [victim EXCEPT ![t] = v]
          /\ Goto(t, "evict")
          /\ UNCHANGED lock
  /\ UNCHANGED <<store, alloc, count, todo, leaked, held, latest>>

(* The purger runs under the frame manager's lock_.  A dirty victim of     *)
(* another file is flushed by that file, under its lock_.                  *)
VictimFileFree(t) ==
  LET v == victim[t] IN
  frames[v].dirty /\ v[1] # at[t].f[1] => lock[v[1]] = None

(* What the purger leaves in the files. *)
(* Mutant: only frames of the evicting thread's own file are flushed. *)
PurgerMut(p, v) == IF frames[v].dirty /\ v[1] = p THEN [store EXCEPT ![v] = frames[v].ver] ELSE store
Purger(p, v) == IF frames[v].dirty THEN [store EXCEPT ![v] = frames[v].ver] ELSE store

Evict(t) ==
  LET v == victim[t] IN
  /\ At(t, "evict")
  /\ VictimFileFree(t)
  /\ store' = Purger(at[t].f[1], v)
  /\ Drop(v)
  /\ mutex' = None
  /\ victim' = [victim EXCEPT ![t] = NoFrame]
  /\ Goto(t, "frame")
  /\ UNCHANGED <<alloc, count, lock, todo, leaked, held, latest>>

(* Mutant: the pin of a victim that could not be flushed is kept. *)
EvictFailsMut(t) ==
  LET v == victim[t] IN
  /\ At(t, "evict")
  /\ "purge" \in Faults
  /\ frames[v].dirty
  /\ VictimFileFree(t)
  /\ UNCHANGED frames
  /\ mutex' = None
  /\ victim' = [victim EXCEPT ![t] = NoFrame]
  /\ NoBuffer(t)
  /\ UNCHANGED <<store, alloc, count, todo, leaked, held, latest>>

EvictFails(t) ==
  LET v == victim[t] IN
  /\ At(t, "evict")
  /\ "purge" \in Faults
  /\ frames[v].dirty
  /\ VictimFileFree(t)
  /\ Unpin(v)
  /\ mutex' = None
  /\ victim' = [victim EXCEPT ![t] = NoFrame]
  /\ NoBuffer(t)
  /\ UNCHANGED <<store, alloc, count, todo, leaked, held, latest>>

-----------------------------------------------------------------------------
(* allocate_page.  A hole is marked allocated under lock_, which is then   *)
(* released before get_this_page; the end of the file is extended with     *)
(* lock_ held throughout.                                                  *)

Holes(p) == {f \in FrameIds \ alloc : f[1] = p /\ f[2] < count[p]}

ReuseHole(t, p) ==
  LET f == <<p, Min({h[2] : h \in Holes(p)})>> IN
  /\ At(t, "idle")
  /\ Cardinality(held[t]) < MaxHeld
  /\ lock[p] = None
  /\ Holes(p) # {}
  /\ alloc' = alloc \cup {f}
  /\ latest' = [latest EXCEPT ![f] = Junk]
  /\ Start(t, "lookup", "reuse", f)
  /\ UNCHANGED <<frames, store, count, lock, mutex, victim, todo, leaked, held>>

(* clear_page, set_lsn and mark_dirty on the frame that get_this_page gave. *)
ClearPage(t) ==
  LET f == at[t].f IN
  /\ At(t, "clear")
  /\ frames' = [frames EXCEPT ![f].ver = 0, ![f].dirty = TRUE]
  /\ latest' = [latest EXCEPT ![f] = 0]
  /\ held' = [held EXCEPT ![t] = @ \cup {f}]
  /\ Return(t)
  /\ UNCHANGED <<store, alloc, count, lock, mutex, victim, todo, leaked>>

ExtendFile(t, p) ==
  /\ At(t, "idle")
  /\ Cardinality(held[t]) < MaxHeld
  /\ Holes(p) = {}
  /\ count[p] < MaxPages[p]
  /\ Acquire(t, p)
  /\ Start(t, "frame", "extend", <<p, count[p]>>)
  /\ UNCHANGED <<frames, store, alloc, count, mutex, victim, todo, leaked, held, latest>>

(* The header is updated and the cleared page flushed to lengthen the      *)
(* file.  A flush that fails is ignored, and the frame is not dirty: what  *)
(* a later load finds is not known until the caller writes the page.       *)
Extend(t) ==
  LET f == at[t].f IN
  /\ At(t, "extend")
  /\ alloc' = alloc \cup {f}
  /\ count' = [count EXCEPT ![f[1]] = @ + 1]
  /\ frames' = [frames EXCEPT ![f].ver = 0]
  /\ \/ store' = [store EXCEPT ![f] = 0] /\ latest' = [latest EXCEPT ![f] = 0]
     \/ "extend" \in Faults /\ latest' = [latest EXCEPT ![f] = Junk] /\ UNCHANGED store
  /\ held' = [held EXCEPT ![t] = @ \cup {f}]
  /\ Return(t)
  /\ Release(f[1])
  /\ UNCHANGED <<mutex, victim, todo, leaked>>

-----------------------------------------------------------------------------
(* dispose_page looks the frame up under the file's lock_ and refuses,     *)
(* changing nothing, when somebody else has it pinned.                     *)

Deallocate(f) ==
  /\ alloc' = alloc \ {f}
  /\ latest' = [latest EXCEPT ![f] = Junk]

(* Mutant: the pin count is not looked at. *)
NotInUseMut(f) == TRUE
NotInUse(f) == Cached(f) => frames[f].pin = 0

DisposePage(t) ==
  /\ At(t, "idle")
  /\ mutex = None
  /\ \E f \in alloc \cap Disposable :
       /\ lock[f[1]] = None
       /\ NotInUse(f)
       /\ IF Cached(f)
          THEN /\ Pin(f) /\ Acquire(t, f[1]) /\ Start(t, "free", "dispose", f)
               /\ UNCHANGED <<alloc, latest>>
          ELSE Deallocate(f) /\ UNCHANGED <<frames, lock, at>>
  /\ UNCHANGED <<store, count, mutex, victim, todo, leaked, held>>

(* BPFrameManager::free, called under the file's lock_ by dispose_page and *)
(* after a load that failed.                                               *)
Free(t) ==
  LET f == at[t].f IN
  /\ At(t, "free")
  /\ mutex = None
  /\ Drop(f)
  /\ IF at[t].kind = "dispose" THEN Deallocate(f) ELSE UNCHANGED <<alloc, latest>>
  /\ Return(t)
  /\ Release(f[1])
  /\ UNCHANGED <<store, count, mutex, victim, todo, leaked, held>>

(* The deallocation could not be logged: dispose_page gives its pin back.  *)
DisposeFails(t) ==
  LET f == at[t].f IN
  /\ At(t, "free")
  /\ at[t].kind = "dispose"
  /\ "log" \in Faults
  /\ Unpin(f)
  /\ Return(t)
  /\ Release(f[1])
  /\ UNCHANGED <<store, alloc, count, mutex, victim, todo, leaked, held, latest>>

-----------------------------------------------------------------------------
(* flush_all_pages: pins every frame of the file, then flushes them one by *)
(* one, each under lock_: the copy to the double write buffer first, the   *)
(* dirty flag afterwards.                                                  *)

FlushAllPages(t, p) ==
  LET fs == {f \in DOMAIN frames : f[1] = p} IN
  /\ At(t, "idle")
  /\ mutex = None
  /\ fs # {}
  /\ \A f \in fs : KeepsApart(t, f)
  /\ frames' = [f \in DOMAIN frames |->
                  IF f \in fs THEN [frames[f] EXCEPT !.pin = @ + 1] ELSE frames[f]]
  /\ todo' = [todo EXCEPT ![t] = fs]
  /\ Start(t, "flush", None, NoFrame)
  /\ UNCHANGED <<store, alloc, count, lock, mutex, victim, leaked, held, latest>>

FlushPage(t) ==
  /\ At(t, "flush")
  /\ \E f \in todo[t] :
       /\ Acquire(t, f[1])
       /\ store' = [store EXCEPT ![f] = frames[f].ver]
       /\ Start(t, "copied", None, f)
  /\ UNCHANGED <<frames, alloc, count, mutex, victim, todo, leaked, held, latest>>

FlushClean(t) ==
  LET f == at[t].f IN
  /\ At(t, "copied")
  /\ SetFrame(f, [frames[f] EXCEPT !.dirty = FALSE, !.pin = @ - 1])
  /\ todo' = [todo EXCEPT ![t] = @ \ {f}]
  /\ IF todo[t] = {f} THEN Return(t) ELSE Start(t, "flush", None, NoFrame)
  /\ Release(f[1])
  /\ UNCHANGED <<store, alloc, count, mutex, victim, leaked, held, latest>>

(* A flush that fails ends flush_all_pages: the frames it has not reached  *)
(* keep the pin that find_list gave them.  Bound: one failure leaves pins. *)
FlushFails(t) ==
  /\ At(t, "flush")
  /\ "flush_all" \in Faults
  /\ leaked = {}
  /\ \E f \in todo[t] :
       /\ lock[f[1]] = None
       /\ Unpin(f)
       /\ leaked' = todo[t] \ {f}
  /\ todo' = [todo EXCEPT ![t] = {}]
  /\ Return(t)
  /\ UNCHANGED <<store, alloc, count, lock, mutex, victim, held, latest>>

-----------------------------------------------------------------------------
(* What the callers do with a page they hold: change it under its write    *)
(* latch, mark it dirty, unpin it.                                         *)

Write(t) ==
  /\ At(t, "idle")
  /\ \E f \in held[t] :
       /\ \A u \in Threads : ~(At(u, "mark") /\ at[u].f = f)
       /\ KeepsApart(t, f)
       /\ frames[f].ver \in 0 .. MaxVer - 1
       /\ frames' = [frames EXCEPT ![f].ver = @ + 1]
       /\ latest' = [latest EXCEPT ![f] = frames[f].ver + 1]
       /\ Start(t, "mark", None, f)
  /\ UNCHANGED <<store, alloc, count, lock, mutex, victim, todo, leaked, held>>

MarkDirty(t) ==
  /\ At(t, "mark")
  /\ frames' = [frames EXCEPT ![at[t].f].dirty = TRUE]
  /\ Return(t)
  /\ UNCHANGED <<store, alloc, count, lock, mutex, victim, todo, leaked, held, latest>>

UnpinPage(t) ==
  /\ At(t, "idle")
  /\ \E f \in held[t] : Unpin(f) /\ held' = [held EXCEPT ![t] = @ \ {f}]
  /\ UNCHANGED <<store, alloc, count, lock, mutex, at, victim, todo, leaked, latest>>

Next == \E t \in Threads :
  \/ GetThisPage(t) \/ GetLocked(t) \/ LoadPage(t) \/ LoadFails(t)
  \/ AllocFrame(t) \/ ChooseVictim(t) \/ Evict(t) \/ EvictFails(t)
  \/ \E p \in Pools : ReuseHole(t, p) \/ ExtendFile(t, p) \/ FlushAllPages(t, p)
  \/ ClearPage(t) \/ Extend(t)
  \/ DisposePage(t) \/ Free(t) \/ DisposeFails(t)
  \/ FlushPage(t) \/ FlushClean(t) \/ FlushFails(t)
  \/ Write(t) \/ MarkDirty(t) \/ UnpinPage(t)

Spec == Init /\ [][Next]_vars

-----------------------------------------------------------------------------
(* Type correctness; never more frames than the frame manager has.         *)
TypeOK ==
  /\ DOMAIN frames \subseteq FrameIds
  /\ \A f \in DOMAIN frames : frames[f] \in FrameType
  /\ Cardinality(DOMAIN frames) <= Capacity
  /\ store \in [FrameIds -> Vers \cup {Junk}]
  /\ latest \in [FrameIds -> Vers \cup {Junk}]
  /\ alloc \subseteq FrameIds
  /\ count \in [Pools -> Nat] /\ \A p \in Pools : count[p] <= MaxPages[p]
  /\ lock \in [Pools -> Threads \cup {None}]
  /\ mutex \in Threads \cup {None}
  /\ at \in [Threads -> [pc : Labels, kind : Kinds, f : FrameIds \cup {NoFrame}]]
  /\ victim \in [Threads -> FrameIds \cup {NoFrame}]
  /\ todo \in [Threads -> SUBSET FrameIds]
  /\ leaked \subseteq FrameIds
  /\ held \in [Threads -> SUBSET FrameIds]

(* The pins of f: its callers', those of a flush_all_pages, those that a   *)
(* failed one left, of an eviction, and of an operation under way.         *)
Pinners(f) ==
  ({t \in Threads : f \in held[t]} \X {"caller"})
  \cup ({t \in Threads : f \in todo[t]} \X {"flush"})
  \cup ((leaked \cap {f}) \X {"left"})
  \cup ({t \in Threads : victim[t] = f} \X {"evict"})
  \cup ({t \in Threads : at[t].f = f
           /\ at[t].pc \in {"load", "extend", "clear", "free"}} \X {"step"})

(* The pin and unpin calls pair up on every path, those that fail          *)
(* included, but for the pins a failed flush_all_pages leaves: a frame     *)
(* nobody uses can be replaced, and whoever has a page pinned finds it in  *)
(* its frame.                                                              *)
PinsHeld ==
  \A f \in FrameIds :
    IF Cached(f) THEN frames[f].pin = Cardinality(Pinners(f)) ELSE Pinners(f) = {}

(* The assertion in BPFrameManager::free_internal: a frame is freed only   *)
(* by the one user that has it pinned.                                     *)
FreedUnpinned ==
  \A t \in Threads :
    /\ At(t, "free") => Cached(at[t].f) /\ frames[at[t].f].pin = 1
    /\ At(t, "evict") => Cached(victim[t]) /\ frames[victim[t]].pin = 1

(* A frame whose load is under way, or has failed and gives the frame up.  *)
Loading(f) == \E t \in Threads :
  at[t].f = f /\ (At(t, "load") \/ (At(t, "free") /\ at[t].kind # "dispose"))

(* No update is lost between the frames and the files: a page holds the    *)
(* last content a user gave it, in its frame when it has one and otherwise *)
(* where a load will find it, whatever was evicted, by whichever file.     *)
PageLatest ==
  \A f \in alloc : latest[f] # Junk =>
    latest[f] = IF Cached(f) /\ ~Loading(f) THEN frames[f].ver ELSE store[f]

(* Every path of get_this_page, allocate_page, dispose_page and the flush  *)
(* gives the locks back: a file's lock_ is held only by a thread that is   *)
(* inside an operation on that file, and the frame manager's, across       *)
(* steps, only by the thread that evicts.                                  *)
LocksReturned ==
  /\ \A p \in Pools : lock[p] # None =>
       /\ at[lock[p]].f[1] = p
       /\ at[lock[p]].pc \notin {"idle", "lookup", "lock", "clear", "mark", "flush"}
  /\ mutex # None => At(mutex, "evict")

(* A page given back to the file has left the pool: nobody holds it, and   *)
(* no frame of it is left that the next user of the page number would find. *)
DisposedGone ==
  /\ \A t \in Threads : held[t] \subseteq alloc
  /\ \A f \in DOMAIN frames \ alloc : \E t \in Threads : at[t].f = f /\ At(t, "extend")

(* Pins and locks pair up on every path of every operation, those that     *)
(* fail included, and no frame is freed under somebody who uses it.        *)
PinsAndLocksPairUp == TypeOK /\ PinsHeld /\ FreedUnpinned /\ LocksReturned

(* A page keeps its last content for as long as it is allocated, in memory *)
(* or in its file, and is gone from both once it is disposed of.           *)
PagesStayRight == PageLatest /\ DisposedGone
=============================================================================
