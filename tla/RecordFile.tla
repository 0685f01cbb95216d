------------------------------ MODULE RecordFile ------------------------------
(***************************************************************************)
(* The record manager on one data file: threads insert, delete, visit and  *)
(* scan records; pages are latched, pinned, put on the list of pages with  *)
(* room, given back to the buffer pool when they are empty; pages reach    *)
(* the disk, the process stops and comes back by replaying the log.        *)
(*                                                                         *)
(* A step of a thread runs from one lock or latch it waits for to the      *)
(* next.  RecordFileHandler::lock_ is lock; the latch and the pin that a   *)
(* thread has follow from its pc.  A record is a number that no other      *)
(* insert or update has written.                                           *)
(*                                                                         *)
(* A behaviour is either one of threads, without log, or one of stops, in  *)
(* which one call runs at a time.                                          *)
(***************************************************************************)
EXTENDS PageFile, Functions

CONSTANTS
  Threads,
  MaxPage,       \* pages of the largest file
  Capacity,      \* records of a page
  Fills,         \* how many records the pages 1, 2, ... of the first file hold
  MaxCalls,      \* calls of a behaviour, by its mode
  MaxFlushes, MaxStops,
  FreesReach     \* whether the bitmap page may be written with pages freed since its last write

VARIABLES
  mem, disk,     \* the pages in the buffer pool and on disk
  free,          \* free_pages_
  lock,          \* the thread that has lock_
  pc, job,       \* where each thread is, and its operation
  live,          \* record by place: what the finished calls leave (history)
  steady,        \* places of a thread's interest that have been live ever since it started (history)
  wal, hist,     \* the log; hist[i]: live after i records of it (history)
  synced,        \* the log is known to be on disk up to here
  mode, calls, flushes, stops, up

rvars == <<mem, disk, free, lock, pc, job, live, steady, wal, hist, synced, mode, calls, flushes, stops, up>>

Nobody == "nobody"
NoRecord == 0
Pages == 1 .. MaxPage
AllPages == 0 .. MaxPage
Slots == 0 .. Capacity - 1

\* A page of zeros has no capacity: RecordPageHandler calls it full.
ZeroPage == [ready |-> FALSE, slot |-> [s \in Slots |-> NoRecord]]
EmptyPage == [ZeroPage EXCEPT !.ready = TRUE]
IsFull(page) == ~page.ready \/ \A s \in Slots : page.slot[s] # NoRecord
IsEmpty(page) == \A s \in Slots : page.slot[s] = NoRecord
FirstFreeMut(page) == Min(Slots)
FirstFree(page) == Min({s \in Slots : page.slot[s] = NoRecord})

Records(f) ==
  LET at == {rid \in (f.alloc \ {BitmapPage}) \X Slots : f.page[rid[1]].slot[rid[2]] # NoRecord}
  IN [rid \in at |-> f.page[rid[1]].slot[rid[2]]]

\* A file with fill[p] records in page p.
Filled(fill) ==
  [page |-> [p \in Pages |->
     IF p \in DOMAIN fill
     THEN [ready |-> TRUE, slot |-> [s \in Slots |-> IF s < fill[p] THEN p * 10 + s ELSE NoRecord]]
     ELSE ZeroPage],
   alloc |-> {BitmapPage} \union DOMAIN fill, count |-> 1 + Len(fill),
   lsn |-> [p \in AllPages |-> 0], refused |-> FALSE]

\* RecordFileHandler::init_free_pages.
InitFreePages(f) == {p \in f.alloc \ {BitmapPage} : ~IsFull(f.page[p])}

Idle == [op |-> "none", page |-> 0, slot |-> 0, limit |-> 0, seen |-> {}, rc |-> "none"]

RInit ==
  /\ mode \in {"threads", "stops"}
  /\ \E fill \in Fills : mem = Filled(fill)
  /\ disk = mem /\ free = InitFreePages(mem) /\ lock = Nobody
  /\ pc = [t \in Threads |-> "idle"] /\ job = [t \in Threads |-> Idle]
  /\ live = Records(mem) /\ steady = [t \in Threads |-> {}]
  /\ wal = <<>> /\ hist = <<live>> /\ synced = 0
  /\ calls = 0 /\ flushes = 0 /\ stops = 0 /\ up = TRUE

----------------------------------------------------------------------------
(* Pins, latches, log *)

Latched == {"publish", "write"}          \* exclusive
Pinned == Latched \union {"insertLatch", "initLatch", "deleteLatch", "visitLatch", "scanLatch", "scanning"}
PinnedByOther(t, p) == \E u \in Threads \ {t} : pc[u] \in Pinned /\ job[u].page = p
WriteLatchFree(t, p) == \A u \in Threads \ {t} : job[u].page = p => pc[u] \notin Latched \union {"scanning"}
ReadLatchFree(t, p) == \A u \in Threads \ {t} : job[u].page = p => pc[u] \notin Latched

\* A change of the file f, its log record, and the records it leaves.
Logged(f, r, rows) ==
  /\ live' = rows
  /\ steady' = [t \in Threads |-> steady[t] \intersect DOMAIN rows]
  /\ IF mode = "threads" THEN mem' = f /\ UNCHANGED <<wal, hist>>
     ELSE /\ wal' = Append(wal, r)
          /\ hist' = Append(hist, rows)
          /\ mem' = [f EXCEPT !.lsn[IF r.op \in {"ALLOC", "FREE"} THEN BitmapPage ELSE r.page] = Len(wal')]
NotLogged == UNCHANGED <<mem, live, steady, wal, hist>>

Return(t, rc) ==
  /\ pc' = [pc EXCEPT ![t] = "idle"]
  /\ job' = [job EXCEPT ![t].rc = rc]
GoTo(t, place) ==
  /\ pc' = [pc EXCEPT ![t] = place]
  /\ UNCHANGED job
GoToPage(t, place, p) ==
  /\ pc' = [pc EXCEPT ![t] = place]
  /\ job' = [job EXCEPT ![t].page = p]

----------------------------------------------------------------------------
(* Calls *)

MayCall(t) ==
  /\ up /\ pc[t] = "idle" /\ calls < MaxCalls[mode]
  /\ mode = "stops" => \A u \in Threads : pc[u] = "idle"

Start(t, op, place, rid, rids) ==
  /\ MayCall(t)
  /\ pc' = [pc EXCEPT ![t] = place]
  /\ job' = [job EXCEPT ![t] = [Idle EXCEPT !.op = op, !.page = rid[1], !.slot = rid[2], !.limit = mem.count]]
  /\ steady' = [steady EXCEPT ![t] = rids]
  /\ calls' = calls + 1
  /\ UNCHANGED <<mem, disk, free, lock, live, wal, hist, synced, mode, flushes, stops, up>>

\* A record is deleted by one thread, the one that undoes its insert.
BeingDeleted(rid) ==
  \E u \in Threads : pc[u] # "idle" /\ job[u].op = "delete" /\ <<job[u].page, job[u].slot>> = rid

CallInsert(t) == Start(t, "insert", "insertLock", <<0, 0>>, {})
CallDelete(t) ==
  \E rid \in DOMAIN live : ~BeingDeleted(rid) /\ Start(t, "delete", "deleteLock", rid, {})
CallVisit(t) == \E rid \in DOMAIN live : Start(t, "visit", "visitPin", rid, {rid})
CallScan(t) == Start(t, "scan", "scanPick", <<0, 0>>, DOMAIN live)

----------------------------------------------------------------------------
(* insert_record *)

\* The first page of free_pages_, under lock_; or a new one.
SelectPage(t, pages) ==
  IF pages = {} THEN lock' = Nobody /\ GoTo(t, "allocate")
  ELSE IF Min(pages) \notin mem.alloc THEN lock' = Nobody /\ Return(t, "INVALID_PAGE_NUM")
  ELSE lock' = t /\ GoToPage(t, "insertLatch", Min(pages))

InsertLock(t) ==
  /\ pc[t] = "insertLock" /\ lock = Nobody
  /\ SelectPage(t, free)
  /\ NotLogged
  /\ UNCHANGED <<disk, free, synced, mode, calls, flushes, stops, up>>

InsertLatch(t) ==
  LET p == job[t].page
  IN /\ pc[t] = "insertLatch" /\ WriteLatchFree(t, p)
     /\ IF IsFull(mem.page[p])
        THEN free' = free \ {p} /\ SelectPage(t, free')
        ELSE lock' = Nobody /\ GoTo(t, "write") /\ UNCHANGED free
     /\ NotLogged
     /\ UNCHANGED <<disk, synced, mode, calls, flushes, stops, up>>

AllocatePageMut(t) ==
  LET p == PageToAllocate(mem)
  IN /\ pc[t] = "allocate" /\ p <= MaxPage
     /\ GoToPage(t, "initLatch", p)
     /\ Logged([mem EXCEPT !.alloc = @ \union {p}, !.page[p] = ZeroPage], [op |-> "ALLOC", page |-> p], live)
     /\ UNCHANGED <<disk, free, lock, synced, mode, calls, flushes, stops, up>>
\* DiskBufferPool::allocate_page; a page that extends the file is written at once.
AllocatePage(t) ==
  LET p == PageToAllocate(mem)
      grows == p = mem.count
  IN /\ pc[t] = "allocate"
     /\ IF p > MaxPage
        THEN Return(t, "BUFFERPOOL_NOBUF") /\ NotLogged /\ UNCHANGED disk
        ELSE /\ GoToPage(t, "initLatch", p)
             /\ Logged([mem EXCEPT !.alloc = @ \union {p}, !.count = IF grows THEN p + 1 ELSE @,
                                   !.page[p] = ZeroPage,
                                   !.lsn[p] = IF grows \/ mode = "threads" THEN 0 ELSE Len(wal) + 1],
                       [op |-> "ALLOC", page |-> p], live)
             /\ disk' = IF grows THEN [disk EXCEPT !.page[p] = ZeroPage, !.lsn[p] = 0] ELSE disk
     /\ UNCHANGED <<free, lock, synced, mode, calls, flushes, stops, up>>

\* init_empty_page.
InitPage(t) ==
  LET p == job[t].page
  IN /\ pc[t] = "initLatch" /\ WriteLatchFree(t, p)
     /\ GoTo(t, "publish")
     /\ Logged([mem EXCEPT !.page[p] = EmptyPage], [op |-> "INIT_PAGE", page |-> p], live)
     /\ UNCHANGED <<disk, free, lock, synced, mode, calls, flushes, stops, up>>

PutRecord(f, p, s, data) == [f EXCEPT !.page[p].slot[s] = data]

\* RowRecordPageHandler::insert_record, then the latch and the pin go.
Put(t) ==
  LET p == job[t].page
      s == FirstFree(mem.page[p])
      data == 100 + calls * 10 + Cardinality(DOMAIN live)
  IN /\ Return(t, "SUCCESS")
     /\ Logged(PutRecord(mem, p, s, data), [op |-> "INSERT", page |-> p, slot |-> s, data |-> data],
               [rid \in DOMAIN live \union {<<p, s>>} |-> IF rid \in DOMAIN live THEN live[rid] ELSE data])

WriteRecord(t) ==
  /\ pc[t] = "write"
  /\ Put(t)
  /\ UNCHANGED <<disk, free, lock, synced, mode, calls, flushes, stops, up>>

\* lock_ is taken with the latch of the new page held.
PublishPageMut(t) ==
  /\ pc[t] = "publish" /\ lock = Nobody
  /\ Put(t)
  /\ UNCHANGED <<disk, free, lock, synced, mode, calls, flushes, stops, up>>
PublishPage(t) ==
  /\ pc[t] = "publish" /\ lock = Nobody
  /\ free' = free \union {job[t].page}
  /\ Put(t)
  /\ UNCHANGED <<disk, lock, synced, mode, calls, flushes, stops, up>>

----------------------------------------------------------------------------
(* delete_record *)

DeleteLock(t) ==
  /\ pc[t] = "deleteLock" /\ lock = Nobody
  /\ IF job[t].page \in mem.alloc THEN lock' = t /\ GoTo(t, "deleteLatch")
     ELSE UNCHANGED lock /\ Return(t, "INVALID_PAGE_NUM")
  /\ NotLogged
  /\ UNCHANGED <<disk, free, synced, mode, calls, flushes, stops, up>>

DeleteLatchMut(t) ==
  LET p == job[t].page
      s == job[t].slot
  IN /\ pc[t] = "deleteLatch" /\ WriteLatchFree(t, p)
     /\ Logged(PutRecord(mem, p, s, NoRecord), [op |-> "DELETE", page |-> p, slot |-> s],
               Restrict(live, DOMAIN live \ {<<p, s>>}))
     /\ free' = free \union {p} /\ Return(t, "SUCCESS")
     /\ UNCHANGED <<disk, lock, synced, mode, calls, flushes, stops, up>>
\* The latch and the pin go before the page is given back; lock_ stays.
DeleteLatch(t) ==
  LET p == job[t].page
      s == job[t].slot
      rest == PutRecord(mem, p, s, NoRecord)
  IN /\ pc[t] = "deleteLatch" /\ WriteLatchFree(t, p)
     /\ IF mem.page[p].slot[s] = NoRecord
        THEN lock' = Nobody /\ Return(t, "RECORD_NOT_EXIST") /\ NotLogged /\ UNCHANGED free
        ELSE /\ Logged(rest, [op |-> "DELETE", page |-> p, slot |-> s], Restrict(live, DOMAIN live \ {<<p, s>>}))
             /\ IF IsEmpty(rest.page[p])
                THEN free' = free \ {p} /\ GoTo(t, "dispose") /\ UNCHANGED lock
                ELSE free' = free \union {p} /\ Return(t, "SUCCESS") /\ lock' = Nobody
     /\ UNCHANGED <<disk, synced, mode, calls, flushes, stops, up>>

DisposePageMut(t) ==
  LET p == job[t].page
  IN /\ pc[t] = "dispose"
     /\ Logged([mem EXCEPT !.alloc = @ \ {p}], [op |-> "FREE", page |-> p], live)
     /\ lock' = Nobody /\ Return(t, "SUCCESS")
     /\ UNCHANGED <<disk, free, synced, mode, calls, flushes, stops, up>>
\* DiskBufferPool::dispose_page refuses a page that somebody else has pinned.
DisposePage(t) ==
  LET p == job[t].page
  IN /\ pc[t] = "dispose"
     /\ IF PinnedByOther(t, p) THEN free' = free \union {p} /\ NotLogged
        ELSE Logged([mem EXCEPT !.alloc = @ \ {p}], [op |-> "FREE", page |-> p], live) /\ UNCHANGED free
     /\ lock' = Nobody /\ Return(t, "SUCCESS")
     /\ UNCHANGED <<disk, synced, mode, calls, flushes, stops, up>>

----------------------------------------------------------------------------
(* visit_record, get_record *)

VisitPin(t) ==
  /\ pc[t] = "visitPin"
  /\ IF job[t].page \in mem.alloc THEN GoTo(t, "visitLatch") ELSE Return(t, "INVALID_PAGE_NUM")
  /\ NotLogged
  /\ UNCHANGED <<disk, free, lock, synced, mode, calls, flushes, stops, up>>

\* The updater changes the record, or it only looks at it, as get_record does.
VisitLatch(t) ==
  LET p == job[t].page
      s == job[t].slot
      data == 500 + mem.page[p].slot[s]
  IN /\ pc[t] = "visitLatch" /\ WriteLatchFree(t, p)
     /\ \/ /\ mem.page[p].ready /\ mem.page[p].slot[s] \in 1 .. 499
           /\ Return(t, "SUCCESS")
           /\ Logged(PutRecord(mem, p, s, data), [op |-> "UPDATE", page |-> p, slot |-> s, data |-> data],
                     [live EXCEPT ![<<p, s>>] = data])
        \/ /\ Return(t, IF ~mem.page[p].ready THEN "RECORD_INVALID_RID"
                        ELSE IF mem.page[p].slot[s] = NoRecord THEN "RECORD_NOT_EXIST" ELSE "SUCCESS")
           /\ NotLogged
     /\ UNCHANGED <<disk, free, lock, synced, mode, calls, flushes, stops, up>>

----------------------------------------------------------------------------
(* HeapRecordScanner, with a shared latch *)

ScanPickMut(t) ==
  LET ahead == {p \in mem.alloc : p > job[t].page /\ p < job[t].limit - 1}
  IN /\ pc[t] \in {"scanPick", "scanning"}
     /\ IF ahead = {} THEN Return(t, "RECORD_EOF") ELSE GoToPage(t, "scanPin", Min(ahead))
     /\ NotLogged
     /\ UNCHANGED <<disk, free, lock, synced, mode, calls, flushes, stops, up>>
\* The page just read is let go, and the next one looked up in the bitmap.
ScanPick(t) ==
  LET ahead == {p \in mem.alloc : p > job[t].page /\ p < job[t].limit}
  IN /\ pc[t] \in {"scanPick", "scanning"}
     /\ IF ahead = {} THEN Return(t, "RECORD_EOF") ELSE GoToPage(t, "scanPin", Min(ahead))
     /\ NotLogged
     /\ UNCHANGED <<disk, free, lock, synced, mode, calls, flushes, stops, up>>

\* The page may be gone since it was looked up: the scan fails.
ScanPin(t) ==
  /\ pc[t] = "scanPin"
  /\ IF job[t].page \in mem.alloc THEN GoTo(t, "scanLatch") ELSE Return(t, "INVALID_PAGE_NUM")
  /\ NotLogged
  /\ UNCHANGED <<disk, free, lock, synced, mode, calls, flushes, stops, up>>

\* Nobody changes the page while the scan is on it.
ScanLatch(t) ==
  LET p == job[t].page
      found == {s \in Slots : mem.page[p].ready /\ mem.page[p].slot[s] # NoRecord}
  IN /\ pc[t] = "scanLatch" /\ ReadLatchFree(t, p)
     /\ pc' = [pc EXCEPT ![t] = "scanning"]
     /\ job' = [job EXCEPT ![t].seen = @ \union {<<p, s, mem.page[p].slot[s]>> : s \in found}]
     /\ NotLogged
     /\ UNCHANGED <<disk, free, lock, synced, mode, calls, flushes, stops, up>>

----------------------------------------------------------------------------
(* Pages reach the disk; the process stops and comes back *)

AllIdle == \A t \in Threads : pc[t] = "idle"

FlushPage(p) ==
  /\ mode = "stops" /\ up /\ AllIdle /\ flushes < MaxFlushes
  /\ mem.lsn[p] # disk.lsn[p]
  /\ p = BitmapPage /\ ~FreesReach => \A i \in disk.lsn[p] + 1 .. Len(wal) : wal[i].op # "FREE"
  /\ disk' = IF p = BitmapPage
             THEN [disk EXCEPT !.alloc = mem.alloc, !.count = mem.count, !.lsn[p] = mem.lsn[p]]
             ELSE [disk EXCEPT !.page[p] = mem.page[p], !.lsn[p] = mem.lsn[p]]
  /\ synced' = Max({synced, mem.lsn[p]})
  /\ flushes' = flushes + 1
  /\ UNCHANGED <<mem, free, lock, pc, job, live, steady, wal, hist, mode, calls, stops, up>>

\* RecordLogReplayer::replay: a page that is not allocated refuses.  An insert takes
\* the first free slot, not the one that was logged.
RedoInsertMut(f, p, data) ==
  LET s == Max({x \in Slots : f.page[p].slot[x] = NoRecord})
  IN IF IsFull(f.page[p]) THEN Refuse(f) ELSE PutRecord(f, p, s, data)
RedoInsert(f, p, data) ==
  IF IsFull(f.page[p]) THEN Refuse(f) ELSE PutRecord(f, p, FirstFree(f.page[p]), data)
RedoRecord(f, lsn, r) ==
  IF r.page \notin f.alloc THEN Refuse(f)
  ELSE IF f.lsn[r.page] >= lsn THEN f
  ELSE [(CASE r.op = "INIT_PAGE" -> [f EXCEPT !.page[r.page] = EmptyPage]
           [] r.op = "INSERT" -> RedoInsert(f, r.page, r.data)
           [] r.op \in {"UPDATE", "DELETE"} /\ f.page[r.page].slot[r.slot] = NoRecord -> Refuse(f)
           [] r.op = "UPDATE" -> PutRecord(f, r.page, r.slot, r.data)
           [] r.op = "DELETE" -> PutRecord(f, r.page, r.slot, NoRecord))
        EXCEPT !.lsn[r.page] = lsn]

Redo(f, lsn, r) ==
  CASE f.refused -> f
    [] r.op = "ALLOC" -> RedoAllocate(f, lsn, r.page)
    [] r.op = "FREE" -> RedoDeallocate(f, lsn, r.page)
    [] OTHER -> RedoRecord(f, lsn, r)
Replay(f, log) == FoldLeftDomain(LAMBDA a, i : Redo(a, i, log[i]), f, log)

\* Also in the middle of a call.
Stop ==
  /\ mode = "stops" /\ up /\ stops < MaxStops /\ wal # <<>>
  /\ up' = FALSE
  /\ pc' = [t \in Threads |-> "idle"] /\ lock' = Nobody
  /\ job' = [t \in Threads |-> Idle]
  /\ UNCHANGED <<mem, disk, free, live, steady, wal, hist, synced, mode, calls, flushes, stops>>

Restart ==
  /\ ~up /\ stops < MaxStops
  /\ \E d \in synced .. Len(wal) :
       /\ wal' = SubSeq(wal, 1, d) /\ hist' = SubSeq(hist, 1, d + 1)
       /\ mem' = Replay(disk, wal')
       /\ live' = hist[d + 1]
  /\ free' = InitFreePages(mem')
  /\ up' = ~mem'.refused /\ stops' = stops + 1
  /\ steady' = [t \in Threads |-> {}]
  /\ UNCHANGED <<disk, lock, pc, job, synced, mode, calls, flushes>>

----------------------------------------------------------------------------

Step(t) ==
  \/ InsertLock(t) \/ InsertLatch(t) \/ AllocatePage(t) \/ InitPage(t) \/ WriteRecord(t) \/ PublishPage(t)
  \/ DeleteLock(t) \/ DeleteLatch(t) \/ DisposePage(t)
  \/ VisitPin(t) \/ VisitLatch(t)
  \/ ScanPick(t) \/ ScanPin(t) \/ ScanLatch(t)

RNext ==
  \/ \E t \in Threads : CallInsert(t) \/ CallDelete(t) \/ CallVisit(t) \/ CallScan(t)
  \/ \E t \in Threads : Step(t)
  \/ \E p \in AllPages : FlushPage(p)
  \/ Stop \/ Restart

RSpec == RInit /\ [][RNext]_rvars

----------------------------------------------------------------------------
(* Properties *)

\* Types of the state.
RTypeOK ==
  /\ free \subseteq Pages /\ lock \in Threads \union {Nobody}
  /\ mem.alloc \subseteq 0 .. mem.count - 1 /\ mem.count \in 1 .. MaxPage + 1
  /\ DOMAIN live \subseteq Pages \X Slots
  /\ Len(hist) = Len(wal) + 1

\* The records of the file are exactly those that were inserted and not deleted, each
\* where insert_record said and with its last contents: no insert takes a place that
\* is in use, no page goes back to the buffer pool with a record in it.
RecordsAreKept == up => Records(mem) = live

\* free_pages_ names allocated pages only, and when nobody is at work every page with
\* room: no place is lost between insert_record, delete_record and dispose_page.
FreePagesAreKnown ==
  up => /\ free \subseteq mem.alloc
        /\ AllIdle => InitFreePages(mem) \subseteq free

\* Nobody is on a page, or waits for its latch with the pin in hand, that has been
\* given back.
NobodyOnADisposedPage == \A t \in Threads : pc[t] \in Pinned => job[t].page \in mem.alloc

\* A scan that comes to its end has returned, once each, the records that were there all
\* the time, and a visit finds a record that stays: also beside inserts, updates and
\* the disposal of pages.
ReadersFindWhatStays ==
  \A t \in Threads : pc[t] = "idle" =>
    /\ job[t].op = "scan" /\ job[t].rc = "RECORD_EOF" =>
         /\ \A rid \in steady[t] : \E x \in job[t].seen : <<x[1], x[2]>> = rid
         /\ \A x, y \in job[t].seen : <<x[1], x[2]>> = <<y[1], y[2]>> => x = y
    /\ job[t].op = "visit" /\ job[t].rc # "SUCCESS" => steady[t] = {}

\* "这里的加锁顺序看起来与上面是相反的，但是不会出现死锁" (RecordFileHandler::insert_record):
\* taking lock_ with a page latched never closes a circle of waiting threads.
NoCircleOfWaiting ==
  (\E t \in Threads : pc[t] # "idle") =>
    \E t \in Threads :
      \/ pc[t] \in {"insertLock", "deleteLock", "publish"} /\ lock = Nobody
      \/ pc[t] \in {"insertLatch", "initLatch", "deleteLatch", "visitLatch"} /\ WriteLatchFree(t, job[t].page)
      \/ pc[t] = "scanLatch" /\ ReadLatchFree(t, job[t].page)
      \/ pc[t] \in {"allocate", "write", "dispose", "visitPin", "scanPick", "scanPin", "scanning"}

\* Threads that insert, delete, visit and scan between each other's steps keep the file
\* right: records, the pages with room and what readers find, on pages that are there,
\* and some of them can always go on.
RecordFileIsRight ==
  /\ RTypeOK /\ RecordsAreKept /\ FreePagesAreKnown
  /\ NobodyOnADisposedPage /\ ReadersFindWhatStays /\ NoCircleOfWaiting

\* Whatever pages the disk holds and however much of the log survives, the replay
\* succeeds and gives the records that the surviving log describes, each in its place.
EveryStopKeepsTheRecords ==
  \A d \in synced .. Len(wal) :
    LET f == Replay(disk, SubSeq(wal, 1, d))
    IN ~f.refused /\ Records(f) = hist[d + 1]
=============================================================================
