------------------------------ MODULE BplusTree ------------------------------
(***************************************************************************)
(* The B+ tree index of one file (storage/index/bplus_tree.cpp), its       *)
(* mini-transactions and its redo log (bplus_tree_log*.cpp).               *)
(*                                                                         *)
(* Every change of a page goes through a log entry: the operation appends  *)
(* the entry to its mini-transaction and applies it, redo applies it       *)
(* again, rollback undoes it.  So the operations are written here as       *)
(* functions on a record m that holds the pages and the entries so far,    *)
(* and Apply is the one operator that changes a page.                      *)
(*                                                                         *)
(* Indexes of items count from 0, as in the code.  A key is the pair of    *)
(* the user key and the RID, which KeyComparator orders lexicographically: *)
(* MakeKey numbers the pairs in that order.                                *)
(***************************************************************************)
EXTENDS PageFile

CONSTANTS
  UserKeys,      \* the values of the indexed column
  Rids,          \* the RIDs of the records, between RID::min and RID::max
  RidSpan,       \* number of RIDs, RID::min = 0 and RID::max = RidSpan - 1
  LeafMax,       \* leaf_max_size
  InternalMax,   \* internal_max_size
  MaxPage        \* the last page number of the file

ASSUME TreeAssumption ==
  /\ UserKeys \subseteq Nat \ {0} /\ Rids \subseteq 1 .. RidSpan - 2
  /\ LeafMax \in Nat /\ InternalMax \in Nat /\ MaxPage \in Nat

NoPage == -1
FirstIndexPage == 1
Pages == 2 .. MaxPage

\* The key that memset leaves in the first item of a new root.
ZeroKey == 0
MakeKey(u, r) == u * RidSpan + r
Keys == {MakeKey(u, r) : u \in UserKeys, r \in Rids}
RidOf(key) == key % RidSpan

----------------------------------------------------------------------------
(* Nodes *)

EmptyNode(leaf) == [leaf |-> leaf, items |-> <<>>, parent |-> NoPage, next |-> NoPage]
ClearedPage == [leaf |-> FALSE, items |-> <<>>, parent |-> 0, next |-> 0]

Size(n) == Len(n.items)
KeyAt(n, i) == n.items[i + 1][1]
ValueAt(n, i) == n.items[i + 1][2]
NodeMax(n) == IF n.leaf THEN LeafMax ELSE InternalMax
NodeMin(n) == NodeMax(n) - NodeMax(n) \div 2

IsSafeMut(n, op, is_root) ==
  CASE op = "scan" -> TRUE
    [] op = "insert" -> Size(n) < NodeMax(n)
    [] op = "delete" -> Size(n) >= NodeMin(n)
\* is_safe: the operation cannot split, merge or replace the node.
IsSafe(n, op, is_root) ==
  CASE op = "scan" -> TRUE
    [] op = "insert" -> Size(n) < NodeMax(n)
    [] op = "delete" -> IF is_root THEN Size(n) > (IF n.leaf THEN 1 ELSE 2)
                        ELSE Size(n) > NodeMin(n)

\* The items and the key arrays are moved with memmove and memcpy.
InsertItems(s, i, items) == SubSeq(s, 1, i) \o items \o SubSeq(s, i + 1, Len(s))
RemoveItems(s, i, num) == SubSeq(s, 1, i) \o SubSeq(s, i + num + 1, Len(s))

\* common::lower_bound: binary search for the first item that is not less.
RECURSIVE LowerBoundFrom(_, _, _, _)
LowerBoundFrom(keys, first, count, key) ==
  IF count = 0 THEN first
  ELSE LET step == count \div 2
           probe == keys[first + step + 1]
       IN IF probe = key THEN first + step
          ELSE IF probe < key
               THEN LowerBoundFrom(keys, first + step + 1, count - step - 1, key)
               ELSE LowerBoundFrom(keys, first, step, key)
LowerBound(keys, key) == LowerBoundFrom(keys, 0, Len(keys), key)

ItemKeys(n) == [i \in 1 .. Size(n) |-> n.items[i][1]]

LeafLookup(n, key) == LowerBound(ItemKeys(n), key)
LeafFound(n, key) ==
  LET at == LeafLookup(n, key) IN at < Size(n) /\ KeyAt(n, at) = key

\* The first key of an internal node is never compared.
InsertPosition(n, key) ==
  IF Size(n) = 0 THEN 1 ELSE LowerBound(Tail(ItemKeys(n)), key) + 1
InternalLookup(n, key) ==
  LET ret == InsertPosition(n, key)
  IN IF Size(n) = 0 THEN 0
     ELSE IF ret >= Size(n) \/ key < KeyAt(n, ret) THEN ret - 1 ELSE ret

----------------------------------------------------------------------------
(* Log entries: redo, rollback *)

Apply(m, e) ==
  CASE e.op = "ROOT" -> [m EXCEPT !.root = e.new]
    [] e.op = "PARENT" -> [m EXCEPT !.node[e.page].parent = e.new]
    [] e.op = "NEXT" -> [m EXCEPT !.node[e.page].next = e.new]
    [] e.op = "LEAF_INIT" -> [m EXCEPT !.node[e.page] = EmptyNode(TRUE)]
    [] e.op = "INTERNAL_INIT" -> [m EXCEPT !.node[e.page] = EmptyNode(FALSE)]
    [] e.op = "NEW_ROOT" ->
         [m EXCEPT !.node[e.page].items = <<<<ZeroKey, e.first>>, <<e.key, e.second>>>>]
    [] e.op = "KEY" -> [m EXCEPT !.node[e.page].items[e.index + 1][1] = e.key]
    [] e.op = "INSERT" ->
         [m EXCEPT !.node[e.page].items = InsertItems(@, e.index, e.items)]
    [] e.op = "REMOVE" ->
         [m EXCEPT !.node[e.page].items = RemoveItems(@, e.index, Len(e.items))]

Log(m, e) == [Apply(m, e) EXCEPT !.log = Append(@, e)]

\* Rollback makes a plain IndexNodeHandler, whose __item_at is the null
\* pointer: moving items through it ends the process.
Undo(m, e) ==
  CASE m.rc = "CRASH" -> m
    [] e.op = "ROOT" -> [m EXCEPT !.root = e.old]
    [] e.op = "PARENT" -> [m EXCEPT !.node[e.page].parent = e.old]
    [] e.op = "NEXT" -> [m EXCEPT !.node[e.page].next = e.old]
    [] e.op = "KEY" -> [m EXCEPT !.node[e.page].items[e.index + 1][1] = e.old]
    [] e.op = "INSERT" ->
         IF e.index < Size(m.node[e.page]) - Len(e.items)
         THEN [m EXCEPT !.rc = "CRASH"]
         ELSE [m EXCEPT !.node[e.page].items = RemoveItems(@, e.index, Len(e.items))]
    [] e.op = "REMOVE" -> [m EXCEPT !.rc = "CRASH"]
    [] OTHER -> m
Rollback(m) == [FoldRight(LAMBDA e, a : Undo(a, e), m.log, m) EXCEPT !.log = <<>>]

SetParent(m, p, parent) ==
  Log(m, [op |-> "PARENT", page |-> p, new |-> parent, old |-> m.node[p].parent])
SetNext(m, p, next) ==
  Log(m, [op |-> "NEXT", page |-> p, new |-> next, old |-> m.node[p].next])
SetKeyAt(m, p, i, key) ==
  Log(m, [op |-> "KEY", page |-> p, index |-> i, key |-> key, old |-> KeyAt(m.node[p], i)])
UpdateRoot(m, p) == Log(m, [op |-> "ROOT", page |-> FirstIndexPage, new |-> p, old |-> m.root])
InitEmpty(m, p, leaf) ==
  Log(m, [op |-> IF leaf THEN "LEAF_INIT" ELSE "INTERNAL_INIT", page |-> p])

----------------------------------------------------------------------------
(* Moving items between nodes *)

\* Internal nodes set the parent of every child they are given.
NodeInsertItems(m, p, i, items) ==
  LET logged == Log(m, [op |-> "INSERT", page |-> p, index |-> i, items |-> items])
  IN IF m.node[p].leaf THEN logged
     ELSE FoldLeft(LAMBDA a, item : SetParent(a, item[2], p), logged, items)
NodeRemove(m, p, i, num) ==
  Log(m, [op |-> "REMOVE", page |-> p, index |-> i,
          items |-> SubSeq(m.node[p].items, i + 1, i + num)])

\* insert() of an internal node leaves the child's parent to the caller.
InternalInsert(m, p, key, child) ==
  Log(m, [op |-> "INSERT", page |-> p, index |-> InsertPosition(m.node[p], key),
          items |-> <<<<key, child>>>>])
LeafInsert(m, p, i, key) == NodeInsertItems(m, p, i, <<<<key, RidOf(key)>>>>)

MoveHalfToMut(m, p, q) ==
  LET index == Size(m.node[p]) - 1
      half == SubSeq(m.node[p].items, index + 1, Size(m.node[p]))
  IN NodeRemove(NodeInsertItems(m, q, Size(m.node[q]), half), p, index, Len(half))
MoveHalfTo(m, p, q) ==
  LET index == Size(m.node[p]) \div 2
      half == SubSeq(m.node[p].items, index + 1, Size(m.node[p]))
  IN NodeRemove(NodeInsertItems(m, q, Size(m.node[q]), half), p, index, Len(half))

MoveTo(m, p, q) ==
  LET moved == NodeInsertItems(m, q, Size(m.node[q]), m.node[p].items)
      linked == IF m.node[p].leaf THEN SetNext(moved, q, m.node[p].next) ELSE moved
  IN NodeRemove(linked, p, 0, Size(m.node[p]))

MoveFirstToEnd(m, p, q) ==
  NodeRemove(NodeInsertItems(m, q, Size(m.node[q]), <<Head(m.node[p].items)>>), p, 0, 1)
MoveLastToFront(m, p, q) ==
  NodeRemove(NodeInsertItems(m, q, 0, <<Last(m.node[p].items)>>), p, Size(m.node[p]) - 1, 1)

----------------------------------------------------------------------------
(* Pages *)

\* DiskBufferPool::allocate_page: the first free page, or the file grows by a
\* page, which is written out at once.  budget frames are left in the pool.
Allocate(m) ==
  LET free == FreeBits(m)
      p == PageToAllocate(m)
      lsn == Len(m.wal) + 1
  IN IF m.budget = 0 \/ p > MaxPage THEN [m EXCEPT !.rc = "NOBUF"]
     ELSE [m EXCEPT !.got = p, !.budget = @ - 1, !.alloc = @ \union {p},
                    !.count = IF free = {} THEN p + 1 ELSE @,
                    !.grown = IF free = {} THEN @ \union {p} ELSE @,
                    !.node[p] = ClearedPage,
                    !.lsn = [@ EXCEPT ![p] = IF free = {} THEN 0 ELSE lsn, ![BitmapPage] = lsn],
                    !.wal = Append(@, [op |-> "ALLOC", page |-> p])]

DisposeMut(m, p) == [m EXCEPT !.alloc = @ \ {p}, !.lsn[BitmapPage] = Len(m.wal) + 1]
\* DiskBufferPool::dispose_page, at the release of the latch memo.
Dispose(m, p) ==
  [m EXCEPT !.alloc = @ \ {p}, !.lsn[BitmapPage] = Len(m.wal) + 1,
            !.wal = Append(@, [op |-> "FREE", page |-> p])]

\* The mini-transaction ends: its entries become one log record, whose LSN the
\* pages take; then the memo releases the pages it was told to dispose.
Commit(m) ==
  LET lsn == Len(m.wal) + 1
      touched == {m.log[i].page : i \in DOMAIN m.log}
      committed == [m EXCEPT !.wal = Append(@, [op |-> "TREE", entries |-> m.log]),
                             !.lsn = [p \in DOMAIN @ |-> IF p \in touched THEN lsn ELSE @[p]],
                             !.log = <<>>]
      done == IF m.log = <<>> THEN m ELSE committed
  IN FoldLeft(Dispose, done, m.disposed)
Finish(m) == IF m.rc = "SUCCESS" THEN Commit(m) ELSE Rollback(m)

----------------------------------------------------------------------------
(* Descending *)

\* child_page_getter: by key, or the first child for left_most_page.
NoKey == -1
ChildPage(n, key) == ValueAt(n, IF key = NoKey THEN 0 ELSE InternalLookup(n, key))
\* (A tree has fewer levels than pages.)
RECURSIVE DescendFrom(_, _, _, _)
DescendFrom(m, p, key, levels) ==
  IF p \notin Pages \/ m.node[p].leaf \/ Size(m.node[p]) = 0 \/ levels = 0 THEN p
  ELSE DescendFrom(m, ChildPage(m.node[p], key), key, levels - 1)
FindLeaf(m, key) == DescendFrom(m, m.root, key, MaxPage)
LeftMostPage(m) == DescendFrom(m, m.root, NoKey, MaxPage)

----------------------------------------------------------------------------
(* insert_entry *)

\* split: the new node takes the upper half.
Split(m, p) ==
  LET a == Allocate(m)
      q == a.got
  IN IF a.rc # "SUCCESS" THEN a
     ELSE MoveHalfTo(SetParent(InitEmpty(a, q, m.node[p].leaf), q, m.node[p].parent), p, q)

CreateNewRoot(m, p, key, q) ==
  LET a == Allocate(m)
      r == a.got
      made == Log(InitEmpty(a, r, FALSE),
                  [op |-> "NEW_ROOT", page |-> r, first |-> p, key |-> key, second |-> q])
  IN IF a.rc # "SUCCESS" THEN a
     ELSE UpdateRoot(SetParent(SetParent(made, p, r), q, r), r)

RECURSIVE InsertEntryIntoParent(_, _, _, _)
InsertEntryIntoParent(m, p, q, key) ==
  LET parent == m.node[p].parent
      s == Split(m, parent)
      r == s.got
      side == IF key > KeyAt(s.node[r], 0) THEN r ELSE parent
      placed == SetParent(InternalInsert(s, side, key, q), q, side)
  IN IF parent = NoPage THEN CreateNewRoot(m, p, key, q)
     ELSE IF Size(m.node[parent]) < InternalMax
          THEN SetParent(InternalInsert(m, parent, key, q), q, parent)
     ELSE IF s.rc # "SUCCESS" THEN s
     ELSE InsertEntryIntoParent(placed, parent, r, KeyAt(placed.node[r], 0))

InsertEntryIntoLeaf(m, p, key) ==
  LET n == m.node[p]
      position == LeafLookup(n, key)
      s == Split(m, p)
      q == s.got
      linked == SetNext(SetParent(SetNext(s, q, n.next), q, n.parent), p, q)
      left == Size(s.node[p])
      placed == IF position < left THEN LeafInsert(linked, p, position, key)
                ELSE LeafInsert(linked, q, position - left, key)
  IN IF LeafFound(n, key) THEN [m EXCEPT !.rc = "RECORD_DUPLICATE_KEY"]
     ELSE IF Size(n) < LeafMax THEN LeafInsert(m, p, position, key)
     ELSE IF s.rc # "SUCCESS" THEN s
     ELSE InsertEntryIntoParent(placed, p, q, KeyAt(placed.node[q], 0))

CreateNewTree(m, key) ==
  LET a == Allocate(m)
  IN IF a.rc # "SUCCESS" THEN a
     ELSE UpdateRoot(LeafInsert(InitEmpty(a, a.got, TRUE), a.got, 0, key), a.got)

InsertKey(m, key) ==
  Finish(IF m.root = NoPage THEN CreateNewTree(m, key)
         ELSE InsertEntryIntoLeaf(m, FindLeaf(m, key), key))

----------------------------------------------------------------------------
(* delete_entry *)

DisposeLater(m, p) == [m EXCEPT !.disposed = Append(@, p)]

AdjustRootMut(m, p) ==
  IF m.node[p].leaf THEN DisposeLater(UpdateRoot(m, 0), p)
  ELSE DisposeLater(UpdateRoot(m, ValueAt(m.node[p], 0)), p)
AdjustRoot(m, p) ==
  LET n == m.node[p]
      child == ValueAt(n, 0)
  IN IF n.leaf /\ Size(n) > 0 THEN m
     ELSE IF n.leaf THEN DisposeLater(UpdateRoot(m, NoPage), p)
     ELSE DisposeLater(UpdateRoot(SetParent(m, child, NoPage), child), p)

RedistributeMut(m, neighbor, p, parent, index) ==
  IF index = 0 THEN MoveFirstToEnd(m, neighbor, p) ELSE MoveLastToFront(m, neighbor, p)
Redistribute(m, neighbor, p, parent, index) ==
  IF index = 0
  THEN LET moved == MoveFirstToEnd(m, neighbor, p)
       IN SetKeyAt(moved, parent, 1, KeyAt(moved.node[neighbor], 0))
  ELSE LET moved == MoveLastToFront(m, neighbor, p)
       IN SetKeyAt(moved, parent, index, KeyAt(moved.node[p], 0))

CoalesceMut(m, neighbor, p, parent, index) ==
  LET left == IF index = 0 THEN p ELSE neighbor
      right == IF index = 0 THEN neighbor ELSE p
  IN MoveTo(NodeRemove(m, parent, IF index = 0 THEN 1 ELSE index, 1), right, left)
Coalesce(m, neighbor, p, parent, index) ==
  LET left == IF index = 0 THEN p ELSE neighbor
      right == IF index = 0 THEN neighbor ELSE p
      moved == MoveTo(NodeRemove(m, parent, IF index = 0 THEN 1 ELSE index, 1), right, left)
      linked == IF m.node[p].leaf THEN SetNext(moved, left, moved.node[right].next) ELSE moved
  IN DisposeLater(linked, right)

\* The place of a node in its parent, found by the last key of the node.
IndexInParent(m, p) ==
  LET self == m.node[p]
  IN InternalLookup(m.node[self.parent], KeyAt(self, Size(self) - 1))
NeighborOf(m, p) ==
  LET at == IndexInParent(m, p)
  IN ValueAt(m.node[m.node[p].parent], IF at = 0 THEN 1 ELSE at - 1)

\* What coalesce_or_redistribute does before it needs a neighbour, and with it.
Underflows(m, p) == Size(m.node[p]) < NodeMin(m.node[p])
IsRoot(m, p) == m.node[p].parent = NoPage
RootUnderflow(m, p) == IF Size(m.node[p]) > 1 THEN m ELSE AdjustRoot(m, p)
Fits(m, p) == Size(m.node[p]) + Size(m.node[NeighborOf(m, p)]) <= NodeMax(m.node[p])
Rebalance(m, p) ==
  LET neighbor == NeighborOf(m, p)
      at == IndexInParent(m, p)
  IN IF Fits(m, p) THEN Coalesce(m, neighbor, p, m.node[p].parent, at)
     ELSE Redistribute(m, neighbor, p, m.node[p].parent, at)

RECURSIVE CoalesceOrRedistribute(_, _)
CoalesceOrRedistribute(m, p) ==
  IF ~Underflows(m, p) THEN m
  ELSE IF IsRoot(m, p) THEN RootUnderflow(m, p)
  ELSE IF Fits(m, p) THEN CoalesceOrRedistribute(Rebalance(m, p), m.node[p].parent)
  ELSE Rebalance(m, p)

DeleteFromLeafMut(m, p, key) ==
  IF LeafLookup(m.node[p], key) < Size(m.node[p])
  THEN NodeRemove(m, p, LeafLookup(m.node[p], key), 1)
  ELSE [m EXCEPT !.rc = "RECORD_NOT_EXIST"]
\* delete_entry_internal, after the leaf was found.
DeleteFromLeaf(m, p, key) ==
  IF LeafFound(m.node[p], key) THEN NodeRemove(m, p, LeafLookup(m.node[p], key), 1)
  ELSE [m EXCEPT !.rc = "RECORD_NOT_EXIST"]

DeleteKey(m, key) ==
  LET at == FindLeaf(m, key)
      removed == DeleteFromLeaf(m, at, key)
  IN Finish(IF m.root = NoPage THEN [m EXCEPT !.rc = "RECORD_NOT_EXIST"]
            ELSE IF removed.rc # "SUCCESS" THEN removed
            ELSE CoalesceOrRedistribute(removed, at))

----------------------------------------------------------------------------
(* The scanner, when nothing else moves.  A bound is NoBound, or a user key *)
(* and whether it is part of the range.                                    *)

NoBound == [none |-> TRUE]
Bound(u, inclusive) == [none |-> FALSE, user |-> u, inclusive |-> inclusive]

\* open() refuses a range that is empty by its bounds.
RangeRefused(left, right) ==
  /\ ~left.none /\ ~right.none
  /\ \/ left.user > right.user
     \/ left.user = right.user /\ ~(left.inclusive /\ right.inclusive)

\* A position is a leaf and an index, or NoPage at the end.
ScanStart(m, left) ==
  LET key == MakeKey(left.user, IF left.inclusive THEN 0 ELSE RidSpan - 1)
      p == FindLeaf(m, key)
      index == LeafLookup(m.node[p], key)
  IN IF m.root = NoPage THEN <<NoPage, 0>>
     ELSE IF left.none THEN <<LeftMostPage(m), 0>>
     ELSE IF index >= Size(m.node[p]) THEN <<m.node[p].next, 0>>
     ELSE <<p, index>>

TouchEndMut(m, pos, right) ==
  /\ ~right.none
  /\ KeyAt(m.node[pos[1]], pos[2]) \div RidSpan >= right.user
TouchEnd(m, pos, right) ==
  /\ ~right.none
  /\ KeyAt(m.node[pos[1]], pos[2]) > MakeKey(right.user, IF right.inclusive THEN RidSpan - 1 ELSE 0)

ScanNext(m, pos) ==
  IF pos[2] + 1 < Size(m.node[pos[1]]) THEN <<pos[1], pos[2] + 1>>
  ELSE <<m.node[pos[1]].next, 0>>

RECURSIVE ScanFrom(_, _, _)
ScanFrom(m, pos, right) ==
  IF pos[1] = NoPage THEN <<>>
  ELSE IF TouchEnd(m, pos, right) THEN <<>>
  ELSE <<KeyAt(m.node[pos[1]], pos[2])>> \o ScanFrom(m, ScanNext(m, pos), right)

Scan(m, left, right) ==
  IF RangeRefused(left, right) THEN <<>> ELSE ScanFrom(m, ScanStart(m, left), right)

----------------------------------------------------------------------------
(* validate_tree *)

Children(n) == IF n.leaf THEN {} ELSE {ValueAt(n, i) : i \in 0 .. Size(n) - 1}
RECURSIVE Subtrees(_, _, _)
Subtrees(m, new, seen) ==
  IF new = {} THEN seen
  ELSE Subtrees(m, (UNION {Children(m.node[p]) : p \in new} \intersect Pages) \ (seen \union new), seen \union new)
Reachable(m) == Subtrees(m, {m.root} \ {NoPage}, {})

\* LeafIndexNodeHandler::validate and InternalIndexNodeHandler::validate.
ValidNode(m, p) ==
  LET n == m.node[p]
      up == m.node[n.parent]
      lowest == IF n.leaf THEN 0 ELSE 1
      index == {i \in 0 .. Size(up) - 1 : ValueAt(up, i) = p}
  IN /\ n.parent = NoPage => Size(n) >= (IF n.leaf THEN 1 ELSE 2)
     /\ \A i \in lowest + 1 .. Size(n) - 1 : KeyAt(n, i - 1) < KeyAt(n, i)
     /\ ~n.leaf => \A i \in 0 .. Size(n) - 1 : m.node[ValueAt(n, i)].parent = p
     /\ n.parent # NoPage =>
          /\ index # {}
          /\ \A i \in index :
               /\ i # 0 => KeyAt(n, lowest) >= KeyAt(up, i)
               /\ i < Size(up) - 1 => KeyAt(n, Size(n) - 1) < KeyAt(up, i + 1)

\* (A page that comes twice ends the chain.)
RECURSIVE LeafChain(_, _, _)
LeafChain(m, p, chain) ==
  IF p \notin Pages \/ Contains(chain, p) THEN chain
  ELSE LeafChain(m, m.node[p].next, Append(chain, p))
LeafPages(m) == IF m.root = NoPage THEN <<>> ELSE LeafChain(m, LeftMostPage(m), <<>>)
ValidLeafLink(m) ==
  LET chain == LeafPages(m)
  IN \A i \in 1 .. Len(chain) - 1 :
       KeyAt(m.node[chain[i]], Size(m.node[chain[i]]) - 1) < KeyAt(m.node[chain[i + 1]], 0)

ValidTree(m) ==
  /\ \A p \in Reachable(m) : Size(m.node[p]) > 0 /\ ValidNode(m, p)
  /\ ValidLeafLink(m)

\* What a reader of the leaf chain finds.
Contents(m) == FoldLeft(LAMBDA s, p : s \o ItemKeys(m.node[p]), <<>>, LeafPages(m))

----------------------------------------------------------------------------
(* fix_user_key, for a CHARS column of attr_length characters: a constant   *)
(* that is longer than the column becomes a bound that the column can hold. *)

FixUserKey(user, attr_length, want_greater) ==
  LET padded == [i \in 1 .. attr_length |-> IF i <= Len(user) THEN user[i] ELSE 0]
  IN IF Len(user) <= attr_length THEN [key |-> padded, inclusive |-> FALSE]
     ELSE IF user[attr_length + 1] = 0 THEN [key |-> padded, inclusive |-> FALSE]
     ELSE [key |-> IF want_greater THEN [padded EXCEPT ![attr_length] = @ + 1] ELSE padded,
           inclusive |-> TRUE]
=============================================================================
