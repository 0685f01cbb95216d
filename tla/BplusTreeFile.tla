---------------------------- MODULE BplusTreeFile ----------------------------
(***************************************************************************)
(* An index file at work: entries are inserted and deleted, pages reach    *)
(* the disk one at a time, the process stops and comes back by replaying   *)
(* the log over whatever pages the disk holds.                             *)
(*                                                                         *)
(* The log interleaves the records of the tree (LogModule::BPLUS_TREE) and *)
(* those of the page allocation (LogModule::BUFFER_POOL); an LSN is the    *)
(* place of a record in wal.  A page is written only after the log up to   *)
(* its LSN (BufferPoolLogHandler::flush_page), so a stop keeps some prefix *)
(* of the log no shorter than synced.                                      *)
(***************************************************************************)
EXTENDS BplusTree

CONSTANTS
  Builds,        \* sequences of keys; a file starts as the result of one of them
  Budgets,       \* frames that the buffer pool may still have for one operation
  OpKeys,        \* the keys that are inserted and deleted after that
  ScanBounds,    \* the bounds of the scans
  FreesReach,    \* whether the bitmap page may be written with pages freed since its last write
  MaxSteps,      \* inserts, deletes and written pages of a behaviour
  MaxStops       \* stops of a behaviour

VARIABLES
  mem,       \* the pages as the buffer pool holds them
  disk,      \* the pages as the disk holds them
  wal,       \* the log
  hist,      \* hist[i]: the keys of the index after i records of the log (history)
  synced,    \* the log is known to be on disk up to here
  load,      \* the keys still to be put into the file before it is used
  up,        \* whether the process runs
  ret,       \* what the last operation was asked and returned
  steps, stops

vars == <<mem, disk, wal, hist, synced, load, up, ret, steps, stops>>

AllPages == 0 .. MaxPage

\* A file after create(): the bitmap page and the header page are there.
NewFile ==
  [node |-> [p \in Pages |-> ClearedPage], root |-> NoPage,
   alloc |-> {BitmapPage, FirstIndexPage}, count |-> 2, lsn |-> [p \in AllPages |-> 0],
   refused |-> FALSE]

\* A mini-transaction over the pages f, with budget frames to allocate.
Begin(f, log, budget) ==
  [node |-> f.node, root |-> f.root, alloc |-> f.alloc, count |-> f.count, lsn |-> f.lsn,
   wal |-> log, log |-> <<>>, rc |-> "SUCCESS", budget |-> budget, got |-> NoPage,
   grown |-> {}, disposed |-> <<>>]
File(m) == [node |-> m.node, root |-> m.root, alloc |-> m.alloc, count |-> m.count, lsn |-> m.lsn,
            refused |-> FALSE]

\* The next step of a build; a negative number is a delete.
BuildStep(f, k) ==
  [File(IF k > 0 THEN InsertKey(Begin(f, <<>>, 9), k) ELSE DeleteKey(Begin(f, <<>>, 9), 0 - k))
     EXCEPT !.lsn = [p \in AllPages |-> 0]]

KeySet(f) == ToSet(Contents(f))
Current == IF wal = <<>> THEN hist[1] ELSE hist[Len(wal) + 1]

Init ==
  /\ load \in Builds
  /\ mem = NewFile /\ disk = mem
  /\ wal = <<>> /\ hist = <<KeySet(mem)>> /\ synced = 0
  /\ up = (load = <<>>) /\ ret = <<"none">>
  /\ steps = 0 /\ stops = 0

----------------------------------------------------------------------------
(* Redo *)

RedoTreeMut(f, lsn, entries) ==
  [FoldLeft(Apply, f, entries) EXCEPT
     !.lsn = [p \in AllPages |-> IF \E i \in DOMAIN entries : entries[i].page = p THEN lsn ELSE @[p]]]
\* BplusTreeLogger::__redo: an entry is applied when its page is older than the
\* record; the pages take the LSN after the last entry.  At an entry whose page is
\* not allocated the rest of the record is skipped, and the pages keep their LSNs.
RedoTree(f, lsn, entries) ==
  LET gone == {i \in DOMAIN entries : entries[i].page \notin f.alloc}
      read == IF gone = {} THEN entries ELSE SubSeq(entries, 1, Min(gone) - 1)
      due == SelectSeq(read, LAMBDA e : f.lsn[e.page] < lsn)
      pages == {due[i].page : i \in DOMAIN due}
      redone == FoldLeft(Apply, f, due)
  IN IF gone # {} THEN redone
     ELSE [redone EXCEPT !.lsn = [p \in AllPages |-> IF p \in pages THEN lsn ELSE @[p]]]

Redo(f, lsn, r) ==
  CASE f.refused -> f
    [] r.op = "ALLOC" -> RedoAllocate(f, lsn, r.page)
    [] r.op = "FREE" -> RedoDeallocate(f, lsn, r.page)
    [] r.op = "TREE" -> RedoTree(f, lsn, r.entries)

\* (The set makes TLC compute each file before it goes on to the next record.)
RECURSIVE ReplayFrom(_, _, _)
ReplayFrom(f, log, i) ==
  IF i > Len(log) THEN f
  ELSE CHOOSE r \in {ReplayFrom(g, log, i + 1) : g \in {Redo(f, i, log[i])}} : TRUE
Replay(f, log) == ReplayFrom(f, log, 1)

----------------------------------------------------------------------------
(* Actions *)

\* A page that extends the file is written, empty, when it is allocated.
Extend(d, m) ==
  [d EXCEPT !.node = [p \in Pages |-> IF p \in m.grown THEN ClearedPage ELSE @[p]],
            !.lsn = [p \in AllPages |-> IF p \in m.grown THEN 0 ELSE @[p]]]
SyncedBy(d) == Max({synced} \union {d.lsn[p] : p \in AllPages})

\* The keys that an operation leaves, by what an index promises.
Promise(old, op, key, rc) ==
  IF rc # "SUCCESS" THEN old ELSE IF op = "insert" THEN old \union {key} ELSE old \ {key}

\* Only the record of the tree changes the keys.
Extended(old, log, from, op, key, rc) ==
  hist \o [i \in 1 .. Len(log) - from |->
             IF \E j \in from + 1 .. from + i : log[j].op = "TREE"
             THEN Promise(old, op, key, rc) ELSE old]

\* The file is filled, flushed and opened.
Load ==
  /\ load # <<>>
  /\ mem' = BuildStep(mem, Head(load)) /\ load' = Tail(load)
  /\ IF load' = <<>> THEN disk' = mem' /\ hist' = <<KeySet(mem')>> /\ up' = TRUE
     ELSE UNCHANGED <<disk, hist, up>>
  /\ UNCHANGED <<wal, synced, ret, steps, stops>>

Operate(op, key, m) ==
  /\ up /\ steps < MaxSteps
  /\ steps' = steps + 1
  /\ wal' = m.wal
  /\ disk' = Extend(disk, m)
  /\ synced' = SyncedBy(disk')
  /\ hist' = Extended(Current, m.wal, Len(wal), op, key, m.rc)
  /\ ret' = <<op, key, key \in Current, m.rc>>
  /\ up' = (m.rc # "CRASH")
  /\ mem' = File(m)
  /\ UNCHANGED <<load, stops>>

InsertEntry(key, budget) == Operate("insert", key, InsertKey(Begin(mem, wal, budget), key))
DeleteEntry(key) == Operate("delete", key, DeleteKey(Begin(mem, wal, 0), key))

\* DiskBufferPool::flush_page_internal, of a page that differs from its image.
FlushPage(p) ==
  /\ up /\ steps < MaxSteps /\ mem.lsn[p] # disk.lsn[p]
  /\ p = BitmapPage /\ ~FreesReach => \A i \in disk.lsn[p] + 1 .. Len(wal) : wal[i].op # "FREE"
  /\ disk' = CASE p = BitmapPage -> [disk EXCEPT !.alloc = mem.alloc, !.count = mem.count,
                                                !.lsn[p] = mem.lsn[p]]
               [] p = FirstIndexPage -> [disk EXCEPT !.root = mem.root, !.lsn[p] = mem.lsn[p]]
               [] OTHER -> [disk EXCEPT !.node[p] = mem.node[p], !.lsn[p] = mem.lsn[p]]
  /\ synced' = SyncedBy(disk')
  /\ steps' = steps + 1
  /\ UNCHANGED <<mem, wal, hist, load, up, ret, stops>>

Stop ==
  /\ up /\ stops < MaxStops /\ wal # <<>>
  /\ up' = FALSE
  /\ UNCHANGED <<mem, disk, wal, hist, synced, load, ret, steps, stops>>

\* Some prefix of the log survived; the replayed pages are in memory.
Restart ==
  /\ ~up /\ load = <<>> /\ stops < MaxStops
  /\ \E d \in synced .. Len(wal) :
       /\ wal' = SubSeq(wal, 1, d)
       /\ hist' = SubSeq(hist, 1, d + 1)
       /\ mem' = Replay(disk, wal')
  /\ up' = ~mem'.refused /\ stops' = stops + 1 /\ ret' = <<"none">>
  /\ UNCHANGED <<disk, synced, load, steps>>

Next ==
  \/ Load
  \/ \E key \in OpKeys : \E budget \in Budgets : InsertEntry(key, budget)
  \/ \E key \in OpKeys : DeleteEntry(key)
  \/ \E p \in AllPages : FlushPage(p)
  \/ Stop
  \/ Restart

Spec == Init /\ [][Next]_vars

----------------------------------------------------------------------------
(* Properties *)

\* Types of the state.
TypeOK ==
  /\ mem.alloc \subseteq AllPages /\ disk.alloc \subseteq AllPages
  /\ mem.root \in Pages \union {NoPage}
  /\ \A p \in Pages : mem.node[p].parent \in Pages \union {NoPage, 0}
  /\ Len(hist) = Len(wal) + 1 /\ synced \in 0 .. Len(wal)

\* A running tree passes validate_tree: keys in order inside the nodes and along
\* the leaf chain, separators around their subtrees, every child naming its
\* parent, no root with too few items -- also right after a replay.
TreeStaysValid == up => ValidTree(mem)

\* The leaf chain holds, in order, exactly the keys that the successful inserts and
\* deletes leave, counting after a restart those whose record survived
\* (insert_entry, delete_entry, BplusTreeLogger::redo).
IndexHoldsTheKeys ==
  up => /\ KeySet(mem) = Current
        /\ \A i \in 1 .. Len(Contents(mem)) - 1 : Contents(mem)[i] < Contents(mem)[i + 1]

\* insert_entry answers RECORD_DUPLICATE_KEY exactly for a key that is there, and
\* delete_entry RECORD_NOT_EXIST exactly for one that is not.
AnswersAreRight ==
  /\ ret[1] = "insert" => (ret[4] = "RECORD_DUPLICATE_KEY") = ret[3]
  /\ ret[1] = "delete" => (ret[4] = "RECORD_NOT_EXIST") = ~ret[3]

\* Every leaf is as deep as every other, and no node but the root falls below half
\* its capacity, which coalesce_or_redistribute relies on when it takes a
\* neighbour and the last key of the node.
RECURSIVE Depth(_, _)
Depth(m, p) == IF m.node[p].parent = NoPage THEN 0 ELSE 1 + Depth(m, m.node[p].parent)
TreeIsBalanced ==
  up => LET leaves == {p \in Reachable(mem) : mem.node[p].leaf}
        IN /\ \A p, q \in leaves : Depth(mem, p) = Depth(mem, q)
           /\ \A p \in Reachable(mem) \ {mem.root} :
                /\ Size(mem.node[p]) >= NodeMax(mem.node[p]) \div 2
                /\ Size(mem.node[p]) <= NodeMax(mem.node[p])

\* Pages of the tree are allocated, and while no operation failed and the process
\* never stopped no other page is: coalesce and adjust_root give back what they
\* empty (LatchMemo::dispose_page), once.
PagesAreAccounted ==
  up => /\ Reachable(mem) \subseteq mem.alloc
        /\ stops = 0 /\ ret[Len(ret)] # "NOBUF" =>
             mem.alloc = Reachable(mem) \union {BitmapPage, FirstIndexPage}

\* Whatever pages the disk holds and however much of the log survives, a replay
\* gives the tree that the surviving records describe: redo skips by page LSN,
\* record by record, and applies nothing twice.
EveryStopIsRecoverable ==
  \A d \in synced .. Len(wal) :
    LET f == Replay(disk, SubSeq(wal, 1, d))
    IN ~f.refused /\ ValidTree(f) /\ KeySet(f) = hist[d + 1] /\ Reachable(f) \subseteq f.alloc

\* A scan returns in order the keys of its range, for every pair of bounds.
InRange(key, left, right) ==
  LET u == key \div RidSpan
  IN /\ left.none \/ u > left.user \/ (left.inclusive /\ u = left.user)
     /\ right.none \/ u < right.user \/ (right.inclusive /\ u = right.user)
ScansReturnTheRange ==
  up => \A left, right \in ScanBounds :
          Scan(mem, left, right)
            = SelectSeq(Contents(mem), LAMBDA k : InRange(k, left, right))

\* A bound longer than a CHARS column of two characters selects the values that
\* compare with the whole bound as they should (fix_user_key).
Weight(s) == FoldLeft(LAMBDA w, i : 4 * w + (IF i <= Len(s) THEN s[i] ELSE 0), 0, <<1, 2, 3>>)
LongBoundsAreFixed ==
  \A user \in UNION {[1 .. n -> 1 .. 2] : n \in 0 .. 3}, value \in [1 .. 2 -> 0 .. 2], inclusive \in BOOLEAN :
    LET left == FixUserKey(user, 2, TRUE)
        right == FixUserKey(user, 2, FALSE)
        Above(x, y, with) == Weight(x) > Weight(y) \/ (with /\ Weight(x) = Weight(y))
    IN /\ Above(value, left.key, inclusive \/ left.inclusive) = Above(value, user, inclusive)
       /\ Above(right.key, value, inclusive \/ right.inclusive) = Above(user, value, inclusive)

\* The index is an ordered set of entries kept in a B+ tree: the pages form a valid
\* balanced tree and no page is lost, the leaves hold the keys that the calls leave,
\* and inserts, deletes and scans answer accordingly.
IndexIsRight ==
  /\ TypeOK /\ TreeStaysValid /\ TreeIsBalanced /\ PagesAreAccounted
  /\ IndexHoldsTheKeys /\ AnswersAreRight /\ ScansReturnTheRange /\ LongBoundsAreFixed

\* The comment on BplusTreeLogger: when an operation fails half way, rollback takes
\* everything back.
FailedInsertIsRolledBack ==
  ret[1] = "insert" /\ ret[4] # "SUCCESS" => up /\ KeySet(mem) = Current
=============================================================================
