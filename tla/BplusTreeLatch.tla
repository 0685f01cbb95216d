--------------------------- MODULE BplusTreeLatch ---------------------------
(***************************************************************************)
(* Threads on one B+ tree: the latch crabbing of find_leaf_internal and    *)
(* crabing_protocal_fetch_page, the root lock, the neighbour's latch of a  *)
(* merge, and the scanner that walks the leaf chain.                       *)
(*                                                                         *)
(* A step of a thread runs from one latch it waits for to the next: what   *)
(* it writes in between lies under latches it holds (WritesAreLatched).    *)
(* held[t] is the latch memo without its pins; release_to gives up what    *)
(* was taken before the page just latched.  Readers hold shared latches,   *)
(* writers exclusive ones.                                                 *)
(***************************************************************************)
EXTENDS BplusTree

CONSTANTS
  Writers, Scanners,   \* threads
  LatchBuilds,         \* sequences of keys; the tree starts as one of them
  LatchKeys,           \* the keys that are inserted and deleted
  Workloads,           \* which operations and which left bounds of scans run together
  MaxCalls             \* operations of a behaviour

Threads == Writers \union Scanners
Root == 0          \* root_lock_, among the pages a thread may hold

VARIABLES
  tree,     \* the pages, the root and the allocation
  pc,       \* what the thread waits for
  job,      \* its operation and its key, or the left bound of its scan
  held,     \* latches it holds
  want,     \* the page it wants next
  pos,      \* scanner: leaf and index of the current entry
  seen,     \* scanner: the keys returned
  doomed,   \* pages to dispose when the memo is released
  dict,     \* the keys that the finished changes leave (history)
  steady,   \* scanner: keys that have been there ever since open (history)
  answer,   \* what the operation returned
  work,     \* the workload of the behaviour, and the keys still to be put into the tree before
  calls

lvars == <<tree, pc, job, held, want, pos, seen, doomed, dict, steady, answer, work, calls>>

LBegin(f) ==
  [node |-> f.node, root |-> f.root, alloc |-> f.alloc, count |-> f.count,
   lsn |-> [p \in 0 .. MaxPage |-> 0], wal |-> <<>>, log |-> <<>>, rc |-> "SUCCESS",
   budget |-> 9, got |-> NoPage, grown |-> {}, disposed |-> <<>>]
LFile(m) == [node |-> m.node, root |-> m.root, alloc |-> m.alloc, count |-> m.count]
LNewFile == [node |-> [p \in Pages |-> ClearedPage], root |-> NoPage,
             alloc |-> {BitmapPage, FirstIndexPage}, count |-> 2]

LInit ==
  /\ tree = LNewFile
  /\ work \in {[ops |-> w.ops, bounds |-> w.bounds, keys |-> b] : w \in Workloads, b \in LatchBuilds}
  /\ pc = [t \in Threads |-> "idle"]
  /\ job = [t \in Threads |-> <<"none">>]
  /\ held = [t \in Threads |-> {}]
  /\ want = [t \in Threads |-> NoPage]
  /\ pos = [t \in Scanners |-> <<NoPage, 0>>]
  /\ seen = [t \in Scanners |-> <<>>]
  /\ doomed = [t \in Threads |-> <<>>]
  /\ dict = {}
  /\ steady = [t \in Scanners |-> {}]
  /\ answer = [t \in Threads |-> <<"none">>]
  /\ calls = 0

Op(t) == job[t][1]
Free(t, p) ==
  /\ \A u \in Writers \ {t} : p \notin held[u]
  /\ t \in Writers => \A u \in Scanners : p \notin held[u]

----------------------------------------------------------------------------
(* The ends of an operation *)

ReturnAfterMut(t, m, rc) ==
  /\ tree' = LFile(FoldLeft(Dispose, LBegin(m), doomed[t] \o m.disposed))
  /\ doomed' = [doomed EXCEPT ![t] = <<>>]
  /\ pc' = [pc EXCEPT ![t] = "idle"]
  /\ held' = [held EXCEPT ![t] = IF rc[1] = "RECORD_NOT_EXIST" THEN held[t] ELSE {}]
  /\ want' = [want EXCEPT ![t] = NoPage]
  /\ answer' = [answer EXCEPT ![t] = rc]
\* The destructors: the memo gives back the latches, then the pages.
ReturnAfter(t, m, rc) ==
  /\ tree' = LFile(FoldLeft(Dispose, LBegin(m), doomed[t] \o m.disposed))
  /\ doomed' = [doomed EXCEPT ![t] = <<>>]
  /\ pc' = [pc EXCEPT ![t] = "idle"]
  /\ held' = [held EXCEPT ![t] = {}]
  /\ want' = [want EXCEPT ![t] = NoPage]
  /\ answer' = [answer EXCEPT ![t] = rc]
Return(t, rc) == ReturnAfter(t, LBegin(tree), rc)

\* After a page changed under a delete: a root is adjusted at once, a node below
\* its minimum waits for the latch of its neighbour, anything else is done.
DeleteGoesOn(t, m, p, holding, rc) ==
  IF Underflows(m, p) /\ ~IsRoot(m, p)
  THEN /\ tree' = LFile(m)
       /\ doomed' = [doomed EXCEPT ![t] = @ \o m.disposed]
       /\ pc' = [pc EXCEPT ![t] = "neighbor"]
       /\ held' = [held EXCEPT ![t] = holding]
       /\ want' = [want EXCEPT ![t] = p]
       /\ answer' = [answer EXCEPT ![t] = rc]
  ELSE ReturnAfter(t, IF Underflows(m, p) THEN RootUnderflow(m, p) ELSE m, rc)

\* The keys change when the leaf does.
Record(op, key, rc) ==
  LET now == IF rc # "SUCCESS" THEN dict
             ELSE IF op = "insert" THEN dict \union {key} ELSE dict \ {key}
  IN /\ dict' = now
     /\ steady' = [s \in Scanners |-> steady[s] \intersect now]

----------------------------------------------------------------------------
(* Calls *)

\* The tree is filled before it is used.
Fill ==
  /\ work.keys # <<>>
  /\ tree' = LFile(InsertKey(LBegin(tree), Head(work.keys)))
  /\ dict' = dict \union {Head(work.keys)}
  /\ work' = [work EXCEPT !.keys = Tail(@)]
  /\ UNCHANGED <<pc, job, held, want, pos, seen, doomed, steady, answer, calls>>

\* insert_entry looks at is_empty() before it takes the root lock.
CallInsert(t, key) ==
  /\ pc[t] = "idle" /\ calls < MaxCalls /\ work.keys = <<>> /\ "insert" \in work.ops
  /\ job' = [job EXCEPT ![t] = <<"insert", key>>]
  /\ pc' = [pc EXCEPT ![t] = IF tree.root = NoPage THEN "create" ELSE "root"]
  /\ calls' = calls + 1
  /\ UNCHANGED <<tree, held, want, pos, seen, doomed, dict, steady, answer, work>>

CallDelete(t, key) ==
  /\ pc[t] = "idle" /\ calls < MaxCalls /\ work.keys = <<>> /\ "delete" \in work.ops
  /\ job' = [job EXCEPT ![t] = <<"delete", key>>]
  /\ pc' = [pc EXCEPT ![t] = "root"]
  /\ calls' = calls + 1
  /\ UNCHANGED <<tree, held, want, pos, seen, doomed, dict, steady, answer, work>>

CallScan(t, left) ==
  /\ pc[t] = "idle" /\ calls < MaxCalls /\ work.keys = <<>>
  /\ job' = [job EXCEPT ![t] = <<"scan", left>>]
  /\ pc' = [pc EXCEPT ![t] = "root"]
  /\ seen' = [seen EXCEPT ![t] = <<>>]
  /\ steady' = [steady EXCEPT ![t] = dict]
  /\ calls' = calls + 1
  /\ UNCHANGED <<tree, held, want, pos, doomed, dict, answer, work>>

\* create_new_tree under root_lock_, if the tree is still empty.
Create(t) ==
  /\ pc[t] = "create" /\ Free(t, Root)
  /\ IF tree.root = NoPage
     THEN /\ ReturnAfter(t, CreateNewTree(LBegin(tree), job[t][2]), <<"SUCCESS", job[t][2] \in dict>>)
          /\ Record("insert", job[t][2], "SUCCESS")
     ELSE /\ pc' = [pc EXCEPT ![t] = "root"]
          /\ UNCHANGED <<tree, held, want, doomed, dict, steady, answer, work>>
  /\ UNCHANGED <<job, pos, seen, work, calls>>

\* find_leaf_internal takes the root lock and meets an empty tree, or goes on to
\* the root page.
LockRoot(t) ==
  /\ pc[t] = "root" /\ Free(t, Root)
  /\ IF tree.root # NoPage
     THEN /\ held' = [held EXCEPT ![t] = {Root}]
          /\ want' = [want EXCEPT ![t] = tree.root]
          /\ pc' = [pc EXCEPT ![t] = "page"]
          /\ UNCHANGED <<tree, pos, doomed, answer>>
     ELSE IF Op(t) = "scan"
     THEN /\ held' = [held EXCEPT ![t] = {Root}]
          /\ pos' = [pos EXCEPT ![t] = <<NoPage, 0>>]
          /\ pc' = [pc EXCEPT ![t] = "scan"]
          /\ UNCHANGED <<tree, want, doomed, answer>>
     ELSE /\ Return(t, <<IF Op(t) = "insert" THEN "EMPTY" ELSE "RECORD_NOT_EXIST", FALSE>>)
          /\ UNCHANGED pos
  /\ UNCHANGED <<job, seen, dict, steady, work, calls>>

\* The key that a thread descends by.
SearchKey(t) ==
  IF Op(t) # "scan" THEN job[t][2]
  ELSE IF job[t][2].none THEN NoKey
  ELSE MakeKey(job[t][2].user, IF job[t][2].inclusive THEN 0 ELSE RidSpan - 1)

\* crabing_protocal_fetch_page: latch the page, and if it is safe give up the
\* latches above it.
Holding(t) ==
  LET p == want[t]
  IN IF IsSafe(tree.node[p], Op(t), p = tree.root) THEN {p} ELSE held[t] \union {p}

LatchInternalMut(t) ==
  /\ pc[t] = "page" /\ Free(t, want[t]) /\ ~tree.node[want[t]].leaf
  /\ held' = [held EXCEPT ![t] = {}]
  /\ want' = [want EXCEPT ![t] = ChildPage(tree.node[want[t]], SearchKey(t))]
  /\ UNCHANGED <<tree, pc, job, pos, seen, doomed, dict, steady, answer, work, calls>>
LatchInternal(t) ==
  /\ pc[t] = "page" /\ Free(t, want[t]) /\ ~tree.node[want[t]].leaf
  /\ held' = [held EXCEPT ![t] = Holding(t)]
  /\ want' = [want EXCEPT ![t] = ChildPage(tree.node[want[t]], SearchKey(t))]
  /\ UNCHANGED <<tree, pc, job, pos, seen, doomed, dict, steady, answer, work, calls>>

AtLeaf(t, op) == pc[t] = "page" /\ Op(t) = op /\ Free(t, want[t]) /\ tree.node[want[t]].leaf

LatchLeafInsert(t) ==
  /\ AtLeaf(t, "insert")
  /\ LET m == InsertEntryIntoLeaf(LBegin(tree), want[t], job[t][2])
     IN /\ ReturnAfter(t, m, <<m.rc, job[t][2] \in dict>>)
        /\ Record("insert", job[t][2], m.rc)
  /\ UNCHANGED <<job, pos, seen, work, calls>>

LatchLeafDelete(t) ==
  /\ AtLeaf(t, "delete")
  /\ LET m == DeleteFromLeaf(LBegin(tree), want[t], job[t][2])
         rc == <<m.rc, job[t][2] \in dict>>
     IN /\ IF m.rc = "SUCCESS" THEN DeleteGoesOn(t, m, want[t], Holding(t), rc)
           ELSE Return(t, rc)
        /\ Record("delete", job[t][2], m.rc)
  /\ UNCHANGED <<job, pos, seen, work, calls>>

\* coalesce_or_redistribute latches the neighbour and moves items; after a merge
\* the parent is looked at in turn.
LatchNeighbor(t) ==
  LET p == want[t]
      m == LBegin(tree)
      n == NeighborOf(m, p)
  IN /\ pc[t] = "neighbor" /\ Free(t, n)
     /\ IF Fits(m, p)
        THEN DeleteGoesOn(t, Rebalance(m, p), tree.node[p].parent, held[t] \union {n}, answer[t])
        ELSE ReturnAfter(t, Rebalance(m, p), answer[t])
     /\ UNCHANGED <<job, pos, seen, dict, steady, work, calls>>

----------------------------------------------------------------------------
(* The scanner *)

\* open() at the leaf: if the left bound lies behind it, the next leaf is wanted.
LatchLeafScan(t) ==
  /\ AtLeaf(t, "scan")
  /\ LET p == want[t]
         at == IF job[t][2].none THEN 0 ELSE LeafLookup(tree.node[p], SearchKey(t))
         past == at >= Size(tree.node[p])
         last == past /\ tree.node[p].next = NoPage
     IN /\ held' = [held EXCEPT ![t] = IF last THEN {} ELSE Holding(t)]
        /\ pos' = [pos EXCEPT ![t] = IF past THEN <<NoPage, 0>> ELSE <<p, at>>]
        /\ want' = [want EXCEPT ![t] = IF past THEN tree.node[p].next ELSE p]
        /\ pc' = [pc EXCEPT ![t] = IF past /\ ~last THEN "opening" ELSE "scan"]
  /\ UNCHANGED <<tree, job, seen, doomed, dict, steady, answer, work, calls>>

\* open() waits for the next leaf with the latch of this one held.
OpenAtNext(t) ==
  /\ pc[t] = "opening" /\ Free(t, want[t])
  /\ held' = [held EXCEPT ![t] = @ \union {want[t]}]
  /\ pos' = [pos EXCEPT ![t] = <<want[t], 0>>]
  /\ pc' = [pc EXCEPT ![t] = "scan"]
  /\ UNCHANGED <<tree, job, want, seen, doomed, dict, steady, answer, work, calls>>

NextEntryMut(t) ==
  LET p == pos[t][1]
      at == pos[t][2]
      next == tree.node[p].next
      EndWith(rc) == /\ answer' = [answer EXCEPT ![t] = <<rc, FALSE>>]
                     /\ pc' = [pc EXCEPT ![t] = "ended"]
                     /\ UNCHANGED <<held, pos, seen>>
      Emit(q, i) == /\ pos' = [pos EXCEPT ![t] = <<q, i + 1>>]
                    /\ seen' = [seen EXCEPT ![t] = Append(@, KeyAt(tree.node[q], i))]
                    /\ held' = [held EXCEPT ![t] = IF i = 0 THEN {q} ELSE @]
                    /\ UNCHANGED <<pc, answer>>
  IN /\ pc[t] = "scan"
     /\ IF p = NoPage THEN EndWith("RECORD_EOF")
        ELSE IF at < Size(tree.node[p]) THEN Emit(p, at)
        ELSE IF next = NoPage THEN EndWith("RECORD_EOF")
        ELSE IF Free(t, next) THEN Emit(next, 0)
        ELSE EndWith("RECORD_EOF")
     /\ UNCHANGED <<tree, job, want, doomed, dict, steady, work, calls>>

\* next_entry: the entry at the position, then the next one of the leaf, then the
\* first of the next leaf, whose latch is only tried.
NextEntry(t) ==
  LET p == pos[t][1]
      at == pos[t][2]
      next == tree.node[p].next
      EndWith(rc) == /\ answer' = [answer EXCEPT ![t] = <<rc, FALSE>>]
                     /\ pc' = [pc EXCEPT ![t] = "ended"]
                     /\ UNCHANGED <<held, pos, seen>>
      Emit(q, i) == /\ pos' = [pos EXCEPT ![t] = <<q, i + 1>>]
                    /\ seen' = [seen EXCEPT ![t] = Append(@, KeyAt(tree.node[q], i))]
                    /\ held' = [held EXCEPT ![t] = IF i = 0 THEN {q} ELSE @]
                    /\ UNCHANGED <<pc, answer>>
  IN /\ pc[t] = "scan"
     /\ IF p = NoPage THEN EndWith("RECORD_EOF")
        ELSE IF at < Size(tree.node[p]) THEN Emit(p, at)
        ELSE IF next = NoPage THEN EndWith("RECORD_EOF")
        ELSE IF Free(t, next) THEN Emit(next, 0)
        ELSE EndWith("LOCKED_NEED_WAIT")
     /\ UNCHANGED <<tree, job, want, doomed, dict, steady, work, calls>>

\* The latches stay with the scanner until it is destroyed.
DestroyScanner(t) ==
  /\ pc[t] = "ended"
  /\ Return(t, answer[t])
  /\ UNCHANGED <<job, pos, seen, dict, steady, work, calls>>

----------------------------------------------------------------------------

WriterStep(t) ==
  \/ Create(t) \/ LockRoot(t) \/ LatchInternal(t)
  \/ LatchLeafInsert(t) \/ LatchLeafDelete(t) \/ LatchNeighbor(t)
ScannerStep(t) ==
  \/ LockRoot(t) \/ LatchInternal(t) \/ LatchLeafScan(t) \/ OpenAtNext(t)
  \/ NextEntry(t) \/ DestroyScanner(t)

LNext ==
  \/ Fill
  \/ \E t \in Writers, key \in LatchKeys : CallInsert(t, key) \/ CallDelete(t, key)
  \/ \E t \in Scanners, left \in work.bounds : CallScan(t, left)
  \/ \E t \in Writers : WriterStep(t)
  \/ \E t \in Scanners : ScannerStep(t)

LSpec == LInit /\ [][LNext]_lvars

----------------------------------------------------------------------------
(* Properties *)

\* Types of the state.
LTypeOK ==
  /\ \A t \in Threads : held[t] \subseteq 0 .. MaxPage /\ want[t] \in Pages \union {NoPage}
  /\ \A t \in Threads :
       pc[t] \in {"idle", "create", "root", "page", "neighbor", "opening", "scan", "ended"}
  /\ tree.root \in Pages \union {NoPage} /\ dict \subseteq Keys /\ calls \in 0 .. MaxCalls

\* Whatever the threads are in the middle of, the leaf chain holds in order the
\* keys that the finished changes leave; when no merge is under way the tree passes
\* validate_tree.
ConcurrentTreeIsRight ==
  /\ ToSet(Contents(tree)) = dict
  /\ \A i \in 1 .. Len(Contents(tree)) - 1 : Contents(tree)[i] < Contents(tree)[i + 1]
  /\ (\A t \in Threads : pc[t] # "neighbor") => ValidTree(tree)

\* An insert or a delete answers by the keys that are there when its leaf is
\* changed.  (An insert may also find the tree emptied under it: EMPTY.)
ConcurrentAnswersAreRight ==
  \A t \in Writers : pc[t] = "idle" /\ Len(answer[t]) = 2 =>
    /\ answer[t][1] = "RECORD_DUPLICATE_KEY" => Op(t) = "insert" /\ answer[t][2]
    /\ answer[t][1] = "RECORD_NOT_EXIST" => Op(t) = "delete" /\ ~answer[t][2]
    /\ answer[t][1] = "SUCCESS" => answer[t][2] = (Op(t) = "delete")

\* No thread holds a latch on a page that the tree no longer has, and a thread that
\* waits for a page waits for one of the tree: a page is disposed only once nobody
\* can be on its way to it.
NobodyOnAFreedPage ==
  \A t \in Threads :
    /\ held[t] \ {Root} \subseteq tree.alloc
    /\ pc[t] \in {"page", "opening", "neighbor"} => want[t] \in Reachable(tree)

\* A scan returns keys in strictly ascending order, and one that reaches the end has
\* returned every key of its range that was there all along.
ScanIsSound ==
  \A t \in Scanners :
    /\ \A i \in 1 .. Len(seen[t]) - 1 : seen[t][i] < seen[t][i + 1]
    /\ pc[t] = "ended" /\ answer[t][1] = "RECORD_EOF" =>
         \A k \in steady[t] :
           job[t][2].none \/ k > SearchKey(t) => k \in ToSet(seen[t])

\* A step writes the items or the link of a page only under its exclusive latch (or
\* of a page it has just allocated), the parent field of a page under the latch of
\* the page or of its old or new parent (from the time that the tree is in use).
WritesAreLatched ==
  [][\A p \in Pages :
       LET old == tree.node[p]
           new == tree'.node[p]
           latched == UNION {held[t] \union held'[t] \union {want[t]} \union
                             (IF pc[t] = "neighbor" THEN {NeighborOf(LBegin(tree), want[t])} ELSE {})
                             : t \in {u \in Writers : pc'[u] # pc[u] \/ want'[u] # want[u]}}
       IN work.keys = <<>> /\ p \in tree.alloc /\ old # new =>
            \/ p \in latched
            \/ /\ [old EXCEPT !.parent = new.parent] = new
               /\ {old.parent, new.parent} \intersect latched # {} \/ new.parent = NoPage]_lvars

\* The latches are enough: with writers and scanners between each other's steps the
\* tree and the answers stay right, nobody is left on a page that was given back, and
\* no page is written without the latch that covers it.
ConcurrentIndexIsRight ==
  /\ [](LTypeOK /\ ConcurrentTreeIsRight /\ ConcurrentAnswersAreRight /\ NobodyOnAFreedPage)
  /\ WritesAreLatched

\* No circle of waiting threads: some thread that is in the middle of an operation
\* can always go on.
SomeThreadCanGoOn ==
  (\E t \in Threads : pc[t] # "idle") =>
    \E t \in Threads :
      \/ pc[t] \in {"create", "root"} /\ Free(t, Root)
      \/ pc[t] \in {"page", "opening"} /\ Free(t, want[t])
      \/ pc[t] = "neighbor" /\ Free(t, NeighborOf(LBegin(tree), want[t]))
      \/ pc[t] \in {"scan", "ended"}
=============================================================================
