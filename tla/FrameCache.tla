----------------------------- MODULE FrameCache -----------------------------
(***************************************************************************)
(* BPFrameManager under its lock_: the table of cached frames, the pool     *)
(* that frames come from (common/mm/mem_pool.h), the four replacement       *)
(* policies (replacement_policy.cpp) and the counters of pinned and dirty   *)
(* frames (buffer_pool_stats.cpp).  Users pin, change and unpin frames in   *)
(* between.  Last, on its own, the list of common::LruCache.                *)
(***************************************************************************)
EXTENDS Integers, Sequences, FiniteSets, SequencesExt

CONSTANTS Ids,          \* FrameId: a file and a page
          PoolNum, ItemNum, \* the pool: how many arrays, of how many frames
          NoFrameId,
          MaxTime       \* bound: accesses that are counted

VARIABLES policy,       \* the ReplacementPolicy
          order,        \* LRU and FIFO: order_
          history,      \* LRU-K: histories_
          clock,        \* LRU-K: current_timestamp_
          circle, referenced, hand,   \* CLOCK
          frees, used,  \* the pool
          cached,       \* frames_
          pins, dirty,  \* of the frames
          stats,        \* counters
          accesses,     \* for the properties: when each page was used
          failed        \* for the properties: victims that could not be written

cacheVars == <<policy, order, history, clock, circle, referenced, hand,
               frees, used, cached, pins, dirty, stats, accesses, failed>>

Frames == 1 .. PoolNum * ItemNum
Policies == {"LRU", "FIFO", "LRU-K", "CLOCK"}
K == 2
InCache == {i \in Ids : cached[i] # NoFrameId}
CanBePurged(i) == cached[i] # NoFrameId /\ pins[cached[i]] = 0

\* MemPoolSimple::init and extend: every array adds its items at the end.
ExtendPool(list, n) == list \o [i \in 1 .. ItemNum |-> (n - 1) * ItemNum + i]
InitPool == frees = FoldLeft(ExtendPool, <<>>, [n \in 1 .. PoolNum |-> n]) /\ used = {}

CacheInit ==
    /\ policy \in Policies
    /\ order = <<>>
    /\ history = [i \in Ids |-> <<>>] /\ clock = 0
    /\ circle = <<>> /\ referenced = [i \in Ids |-> FALSE] /\ hand = 0
    /\ InitPool
    /\ cached = [i \in Ids |-> NoFrameId]
    /\ pins = [f \in Frames |-> 0] /\ dirty = [f \in Frames |-> FALSE]
    /\ stats = [pinned |-> 0, pinnedPeak |-> 0, dirty |-> 0, dirtyPeak |-> 0]
    /\ accesses = [i \in Ids |-> <<>>] /\ failed = {}
-----------------------------------------------------------------------------
\* The policies.  Each keeps its own books; what the others keep is unused.

Without(s, i) == SelectSeq(s, LAMBDA x : x # i)
RecordAccess(i, before) == Append(IF Len(before) = K THEN Tail(before) ELSE before, clock + 1)

\* The time of an access, for LRU-K and for the properties.
Tick(i, before) ==
    /\ clock < MaxTime
    /\ clock' = clock + 1
    /\ accesses' = [accesses EXCEPT ![i] = Append(before, clock + 1)]

\* A mutant: an access moves a page in every ordered policy.
OnAccessMut(i) ==
    /\ order' = IF i \in Range(order) THEN Append(Without(order, i), i) ELSE order
    /\ history' = IF policy = "LRU-K" THEN [history EXCEPT ![i] = RecordAccess(i, @)] ELSE history
    /\ referenced' = IF i \in Range(circle) THEN [referenced EXCEPT ![i] = TRUE] ELSE referenced
    /\ UNCHANGED <<circle, hand>>

OnAccess(i) ==
    /\ order' = IF policy = "LRU" /\ i \in Range(order) THEN Append(Without(order, i), i) ELSE order
    /\ history' = IF policy = "LRU-K" THEN [history EXCEPT ![i] = RecordAccess(i, @)] ELSE history
    /\ referenced' = IF i \in Range(circle) THEN [referenced EXCEPT ![i] = TRUE] ELSE referenced
    /\ UNCHANGED <<circle, hand>>

\* on_insert; the page is not known to the policy, so its on_remove does nothing.
OnInsert(i) ==
    /\ order' = IF policy \in {"LRU", "FIFO"} THEN Append(Without(order, i), i) ELSE order
    /\ history' = IF policy = "LRU-K" THEN [history EXCEPT ![i] = <<clock + 1>>] ELSE history
    /\ circle' = IF policy = "CLOCK" THEN Append(circle, i) ELSE circle
    /\ referenced' = IF policy = "CLOCK" THEN [referenced EXCEPT ![i] = TRUE] ELSE referenced
    /\ UNCHANGED hand

\* ClockReplacementPolicy::on_remove: the hand stays at the page it was at.
Index(r, i) == (CHOOSE n \in DOMAIN r : r[n] = i) - 1
\* A mutant: the hand does not follow.
ClockRemoveMut(books, i) ==
    IF i \notin Range(books.ring) THEN books
    ELSE [ring |-> Without(books.ring, i),
          referenced |-> [books.referenced EXCEPT ![i] = FALSE],
          hand |-> books.hand]

ClockRemove(books, i) ==
    IF i \notin Range(books.ring) THEN books
    ELSE LET rest == Without(books.ring, i)
             h    == IF Index(books.ring, i) < books.hand THEN books.hand - 1 ELSE books.hand
         IN  [ring |-> rest,
              referenced |-> [books.referenced EXCEPT ![i] = FALSE],
              hand |-> IF rest = <<>> \/ h >= Len(rest) THEN 0 ELSE h]
Clock == [ring |-> circle, referenced |-> referenced, hand |-> hand]

OnRemove(removed, books) ==
    /\ order' = SelectSeq(order, LAMBDA x : x \notin removed)
    /\ history' = [i \in Ids |-> IF i \in removed THEN <<>> ELSE history[i]]
    /\ LET after == FoldLeft(ClockRemove, books, SetToSeq(removed))
       IN  circle' = after.ring /\ referenced' = after.referenced /\ hand' = after.hand
-----------------------------------------------------------------------------
\* choose_victim: the page, or none, and the books of the clock afterwards.

Chosen(found, victim, books) == [found |-> found, victim |-> victim, books |-> books]
NoVictim(books) == Chosen(FALSE, CHOOSE i \in Ids : TRUE, books)

OrderedVictim(ok) ==
    IF \E n \in DOMAIN order : order[n] \in ok
    THEN Chosen(TRUE, SelectSeq(order, LAMBDA i : i \in ok)[1], Clock)
    ELSE NoVictim(Clock)

\* A page with fewer than K accesses goes before one with K.
Cold(i) == Len(history[i]) < K
LruKVictim(ok) ==
    LET known == {i \in ok : history[i] # <<>>}
    IN  IF known = {} THEN NoVictim(Clock)
        ELSE Chosen(TRUE,
                    CHOOSE i \in known : \A j \in known :
                        \/ Cold(i) /\ ~Cold(j)
                        \/ (Cold(i) <=> Cold(j)) /\ history[i][1] <= history[j][1],
                    Clock)

RECURSIVE ClockScan(_, _, _)
ClockScan(ok, books, left) ==
    IF left = 0 THEN NoVictim(books)
    ELSE LET i    == books.ring[books.hand + 1]
             next == [books EXCEPT !.hand = (@ + 1) % Len(books.ring)]
         IN  IF i \notin ok THEN ClockScan(ok, next, left - 1)
             ELSE IF books.referenced[i]
             THEN ClockScan(ok, [next EXCEPT !.referenced[i] = FALSE], left - 1)
             ELSE Chosen(TRUE, i, next)
\* A mutant: one round of the hand.
ClockVictimMut(ok, books) ==
    IF books.ring = <<>> THEN NoVictim(books) ELSE ClockScan(ok, books, Len(books.ring))

ClockVictim(ok, books) ==
    IF books.ring = <<>> THEN NoVictim(books) ELSE ClockScan(ok, books, 2 * Len(books.ring))

PolicyVictim(ok, books) ==
    CASE policy \in {"LRU", "FIFO"} -> OrderedVictim(ok)
      [] policy = "LRU-K" -> LruKVictim(ok)
      [] policy = "CLOCK" -> ClockVictim(ok, books)

\* purge_frames: victims one after the other, each pinned as it is chosen.
RECURSIVE Victims(_, _, _)
Victims(n, taken, books) ==
    IF n = 0 THEN [taken |-> taken, books |-> books]
    ELSE LET c == PolicyVictim({i \in Ids : CanBePurged(i)} \ taken, books)
         IN  IF c.found THEN Victims(n - 1, taken \cup {c.victim}, c.books)
             ELSE [taken |-> taken, books |-> c.books]
-----------------------------------------------------------------------------
\* Frame::pin, unpin, mark_dirty and clear_dirty with the counters.

Larger(a, b) == IF a > b THEN a ELSE b
RecordPin(s, first) ==
    IF first THEN [s EXCEPT !.pinned = @ + 1, !.pinnedPeak = Larger(@, s.pinned + 1)] ELSE s
\* A mutant: the last unpin is not recorded.
RecordUnpinMut(s, last) == s
RecordUnpin(s, last) == IF last /\ s.pinned > 0 THEN [s EXCEPT !.pinned = @ - 1] ELSE s
RecordDirty(s) == [s EXCEPT !.dirty = @ + 1, !.dirtyPeak = Larger(@, s.dirty + 1)]
RecordClean(s, was) == IF was /\ s.dirty > 0 THEN [s EXCEPT !.dirty = @ - 1] ELSE s

PinFrame(f) ==
    /\ pins' = [pins EXCEPT ![f] = @ + 1]
    /\ stats' = RecordPin(stats, pins[f] = 0)

\* get: the frame of a cached page.  A page is pinned once at a time here.
Get(i) ==
    /\ i \in InCache /\ pins[cached[i]] = 0
    /\ OnAccess(i) /\ Tick(i, accesses[i])
    /\ PinFrame(cached[i])
    /\ failed' = {}
    /\ UNCHANGED <<policy, frees, used, cached, dirty>>

\* alloc of a page that is not cached; without a free frame it fails and the
\* caller calls purge_frames.
Alloc(i) ==
    /\ i \notin InCache /\ frees # <<>>
    /\ frees' = Tail(frees) /\ used' = used \cup {Head(frees)}
    /\ cached' = [cached EXCEPT ![i] = Head(frees)]
    /\ PinFrame(Head(frees))
    /\ OnInsert(i) /\ Tick(i, <<>>)
    /\ failed' = {}
    /\ UNCHANGED <<policy, dirty>>

UnpinFrame(i) ==
    /\ i \in InCache /\ pins[cached[i]] > 0
    /\ pins' = [pins EXCEPT ![cached[i]] = @ - 1]
    /\ stats' = RecordUnpin(stats, pins[cached[i]] = 1)
    /\ failed' = {}
    /\ UNCHANGED <<policy, order, history, clock, circle, referenced, hand,
                   frees, used, cached, dirty, accesses>>

MarkFrameDirty(i) ==
    /\ i \in InCache /\ pins[cached[i]] > 0 /\ ~dirty[cached[i]]
    /\ dirty' = [dirty EXCEPT ![cached[i]] = TRUE]
    /\ stats' = RecordDirty(stats)
    /\ failed' = {}
    /\ UNCHANGED <<policy, order, history, clock, circle, referenced, hand,
                   frees, used, cached, pins, accesses>>

\* MemPoolSimple::free: a frame that is not in use is refused.
\* A mutant: whatever is given is taken.
FreeItemsMut(items) == frees' = frees \o SetToSeq(items) /\ used' = used
FreeItems(items) == frees' = frees \o SetToSeq(items \cap used) /\ used' = used \ items

\* free_internal of pages that their caller alone has pinned.
FreeInternal(removed, books, before) ==
    LET fs == {cached[i] : i \in removed}
    IN  /\ dirty' = [f \in Frames |-> dirty[f] /\ f \notin fs]
        /\ stats' = FoldLeft(LAMBDA s, f : RecordUnpin(RecordClean(s, dirty[f]), TRUE), before, SetToSeq(fs))
        /\ OnRemove(removed, books)
        /\ cached' = [i \in Ids |-> IF i \in removed THEN NoFrameId ELSE cached[i]]
        /\ FreeItems(fs)
        /\ accesses' = [i \in Ids |-> IF i \in removed THEN <<>> ELSE accesses[i]]

\* dispose_page: free of a page.
Dispose(i) ==
    /\ i \in InCache /\ pins[cached[i]] = 1
    /\ FreeInternal({i}, Clock, stats)
    /\ pins' = [pins EXCEPT ![cached[i]] = 0]
    /\ failed' = {}
    /\ UNCHANGED <<policy, clock>>

\* purge_frames(count, purger): the purger fails only for dirty frames, which
\* it has to write; those are unpinned again.
PurgeFrames(n) ==
    LET v    == Victims(n, {}, Clock)
        held == FoldLeft(LAMBDA s, i : RecordPin(s, TRUE), stats, SetToSeq(v.taken))
    IN  /\ frees = <<>> /\ v.taken # {}
        /\ \E bad \in SUBSET {i \in v.taken : dirty[cached[i]]} :
               /\ failed' = bad
               /\ FreeInternal(v.taken \ bad, v.books,
                      FoldLeft(LAMBDA s, i : RecordUnpin(s, TRUE), held, SetToSeq(bad)))
        /\ UNCHANGED <<policy, clock, pins>>

\* BufferPoolStats::reset keeps the current values.
ResetStats ==
    /\ stats' = [stats EXCEPT !.pinnedPeak = stats.pinned, !.dirtyPeak = stats.dirty]
    /\ failed' = {}
    /\ UNCHANGED <<policy, order, history, clock, circle, referenced, hand,
                   frees, used, cached, pins, dirty, accesses>>

CacheNext ==
    \/ \E i \in Ids : Get(i) \/ Alloc(i) \/ UnpinFrame(i) \/ MarkFrameDirty(i) \/ Dispose(i)
    \/ \E n \in 1 .. 2 : PurgeFrames(n)
    \/ ResetStats
-----------------------------------------------------------------------------
\* Every frame of the pool is free once, or caches one page; a free frame is
\* neither pinned nor dirty (the ASSERT of BPFrameManager::alloc).
FramesAreAccountedFor ==
    /\ Len(frees) = Cardinality(Range(frees))
    /\ Range(frees) \cap used = {} /\ Range(frees) \cup used = Frames
    /\ used = {cached[i] : i \in InCache}
    /\ \A i, j \in InCache : cached[i] = cached[j] => i = j
    /\ \A f \in Range(frees) : pins[f] = 0 /\ ~dirty[f]

\* The policy knows exactly the cached pages, so that none can be forgotten
\* for ever, and the hand of the clock is at one of them.
PolicyKnowsTheFrames ==
    CASE policy \in {"LRU", "FIFO"} -> Range(order) = InCache /\ Len(order) = Cardinality(InCache)
      [] policy = "LRU-K" -> {i \in Ids : history[i] # <<>>} = InCache
      [] policy = "CLOCK" -> /\ Range(circle) = InCache /\ Len(circle) = Cardinality(InCache)
                             /\ hand < Len(circle) \/ (hand = 0 /\ circle = <<>>)

\* Whatever the policy and its books, a victim is found when a frame can be
\* given up: allocate_frame answers BUFFERPOOL_NOBUF only when all are pinned.
AVictimIsFound ==
    (\E i \in Ids : CanBePurged(i)) => PolicyVictim({i \in Ids : CanBePurged(i)}, Clock).found

\* The page that is evicted is the one the policy is named for: LRU, used
\* longest ago; FIFO, cached longest ago; LRU-K, used only once and longest
\* ago, or else the one whose last use but one is longest ago; CLOCK, not used
\* since the hand passed unless all of them were.
Older(i, j) ==
    CASE policy = "LRU" -> Last(accesses[i]) <= Last(accesses[j])
      [] policy = "FIFO" -> accesses[i][1] <= accesses[j][1]
      [] policy = "LRU-K" ->
            IF Len(accesses[i]) = 1
            THEN Len(accesses[j]) = 1 => accesses[i][1] <= accesses[j][1]
            ELSE /\ Len(accesses[j]) > 1
                 /\ accesses[i][Len(accesses[i]) - 1] <= accesses[j][Len(accesses[j]) - 1]
      [] policy = "CLOCK" -> referenced[i] => referenced[j]
EvictsTheRightOne ==
    [][\A i, j \in InCache :
          (/\ CanBePurged(i) /\ cached'[i] = NoFrameId
           /\ CanBePurged(j) /\ cached'[j] # NoFrameId /\ j \notin failed') => Older(i, j)]_cacheVars

\* The counters of pinned and dirty frames agree with the frames, and the
\* peaks are not below them: no pin, unpin, eviction or reset makes them drift.
CountersAgree ==
    /\ stats.pinned = Cardinality({f \in Frames : pins[f] > 0})
    /\ stats.dirty = Cardinality({f \in Frames : dirty[f]})
    /\ stats.pinnedPeak >= stats.pinned /\ stats.dirtyPeak >= stats.dirty

\* The frame manager loses no frame, its policy no page, its counters no pin, and
\* when a frame must go it is the right one.
FrameCacheIsRight ==
    /\ [](FramesAreAccountedFor /\ PolicyKnowsTheFrames /\ AVictimIsFound /\ CountersAgree)
    /\ EvictsTheRightOne
-----------------------------------------------------------------------------
\* common/lang/lru_cache.h, of which FrameLruCache is an instance: a set of
\* nodes for lookup and a doubly linked list in order of use.  Abstract: the
\* keys with their values, last used first.

CONSTANTS LruKeys, LruValues,
          Nil

VARIABLES searcher,   \* searcher_: the keys that have a node
          node,       \* value_, prev_ and next_ of each key's node
          front, tail, \* lru_front_, lru_tail_
          uses        \* abstract: pairs of key and value, last used first

lruVars == <<searcher, node, front, tail, uses>>

NoNode == [value |-> Nil, prev |-> Nil, next |-> Nil]
LruInit ==
    /\ searcher = {} /\ node = [k \in LruKeys |-> NoNode]
    /\ front = Nil /\ tail = Nil
    /\ uses = <<>>

\* Sets a field of a node, if there is one.
SetPrev(n, k, to) == IF k = Nil THEN n ELSE [n EXCEPT ![k].prev = to]
SetNext(n, k, to) == IF k = Nil THEN n ELSE [n EXCEPT ![k].next = to]

\* A mutant: the tail is forgotten.
LruTouchMut(k, n) ==
    IF n[k].prev = Nil THEN node' = n /\ UNCHANGED <<front, tail>>
    ELSE LET out == SetPrev(SetNext(n, n[k].prev, n[k].next), n[k].next, n[k].prev)
         IN  /\ node' = SetPrev(SetNext(SetPrev(out, k, Nil), k, front), front, k)
             /\ UNCHANGED tail
             /\ front' = k

\* lru_touch: the node comes to the front, unless it has no predecessor.
LruTouch(k, n) ==
    IF n[k].prev = Nil THEN node' = n /\ UNCHANGED <<front, tail>>
    ELSE LET out == SetPrev(SetNext(n, n[k].prev, n[k].next), n[k].next, n[k].prev)
         IN  /\ node' = SetPrev(SetNext(SetPrev(out, k, Nil), k, front), front, k)
             /\ tail' = IF n[k].next = Nil THEN n[k].prev ELSE tail
             /\ front' = k

LruPush(k, v) ==
    /\ tail' = IF tail = Nil THEN k ELSE tail
    /\ node' = SetPrev([node EXCEPT ![k] = [value |-> v, prev |-> Nil, next |-> front]], front, k)
    /\ front' = k
    /\ searcher' = searcher \cup {k}

LruRemove(k) ==
    LET out == SetPrev(SetNext(node, node[k].prev, node[k].next), node[k].next, node[k].prev)
    IN  /\ node' = [out EXCEPT ![k] = NoNode]
        /\ front' = IF front = k THEN node[k].next ELSE front
        /\ tail' = IF tail = k THEN node[k].prev ELSE tail
        /\ searcher' = searcher \ {k}

Others(k) == SelectSeq(uses, LAMBDA p : p[1] # k)

GetEntry(k) ==
    /\ k \in searcher
    /\ LruTouch(k, node)
    /\ uses' = <<<<k, node[k].value>>>> \o Others(k)
    /\ UNCHANGED searcher

PutEntry(k, v) ==
    /\ IF k \in searcher
       THEN LruTouch(k, [node EXCEPT ![k].value = v]) /\ UNCHANGED searcher
       ELSE LruPush(k, v)
    /\ uses' = <<<<k, v>>>> \o Others(k)

RemoveEntry(k) ==
    /\ k \in searcher
    /\ LruRemove(k)
    /\ uses' = Others(k)

DestroyAll ==
    /\ searcher # {}
    /\ searcher' = {} /\ node' = [k \in LruKeys |-> NoNode]
    /\ front' = Nil /\ tail' = Nil
    /\ uses' = <<>>

LruNext ==
    \/ \E k \in LruKeys : GetEntry(k) \/ RemoveEntry(k) \/ (\E v \in LruValues : PutEntry(k, v))
    \/ DestroyAll

\* foreach and foreach_reverse: at most as many nodes as there are keys.
RECURSIVE Walk(_, _, _)
Walk(k, forward, left) ==
    IF k = Nil \/ left = 0 THEN <<>>
    ELSE <<<<k, node[k].value>>>> \o Walk(IF forward THEN node[k].next ELSE node[k].prev, forward, left - 1)
-----------------------------------------------------------------------------
\* After any sequence of get, put, remove and destroy, foreach meets exactly
\* the entries of the abstract cache in order of their last use,
\* foreach_reverse the same backwards, and lookup finds the same keys.
ListIsInOrderOfUse ==
    /\ Walk(front, TRUE, Cardinality(LruKeys) + 1) = uses
    /\ Walk(tail, FALSE, Cardinality(LruKeys) + 1) = Reverse(uses)
    /\ searcher = {p[1] : p \in Range(uses)}
=============================================================================
