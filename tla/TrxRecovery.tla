---------------------------- MODULE TrxRecovery ----------------------------
(***************************************************************************)
(* Transactions, redo log, buffered pages, checkpoint, crash and restart.  *)
(*                                                                         *)
(* Every change of a row is logged by the record manager while the page is *)
(* latched (an entry with the new row); the transaction's own entry        *)
(* follows in a later step (mvcc_trx_log.cpp). A page is written back once *)
(* the log is durable up to its last change. Db::sync writes all pages and *)
(* moves the checkpoint. Restart replays the log from the checkpoint       *)
(* (Db::recover). The log is used as module Wal specifies it.              *)
(***************************************************************************)
EXTENDS MvccTrx, FiniteSetsExt

CONSTANTS
  MaxLog,      \* bound: entries of the log
  MaxCrashes,  \* bound: crashes
  QuietSync    \* whether no transaction is open while Db::sync runs

ASSUME TrxRecoveryAssumption ==
  MaxLog \in Nat /\ MaxCrashes \in Nat /\ QuietSync \in BOOLEAN

VARIABLES
  log,         \* the entries of the log, by LSN
  durable,     \* entries 1..durable are on disk
  pages,       \* the rows as the data files have them
  ckpt,        \* Db::check_point_lsn_, as the meta file has it
  unlogged,    \* sessions that changed a row and have not logged it yet
  lsn,         \* the LSN a session's commit waits for, 0 if none
  sync,        \* where Db::sync is
  todo,        \* the pages Db::sync still has to write
  mark,        \* current_lsn in Db::sync
  crashes,
  acked,       \* history: the LSNs of acknowledged commits
  keptBegin,   \* history: the begin stamp an acknowledged commit left
  keptEnd      \* history: the end stamp an acknowledged commit left

logVars  == <<log, durable, acked>>
syncVars == <<sync, todo, mark, ckpt>>
histVars == <<crashes, keptBegin, keptEnd>>
rvars == <<vars, logVars, pages, unlogged, lsn, syncVars, histVars>>

RecordEntry(rid, row) == [kind |-> "RECORD", rid |-> rid, row |-> row]
TrxEntry(kind, trx)   == [kind |-> kind, trx |-> trx]

(* The last of entries a..b that changes rid, 0 if there is none. *)
LastChange(rid, a, b) ==
  Max({0} \union {i \in a..b : log[i].kind = "RECORD" /\ log[i].rid = rid})

-----------------------------------------------------------------------------
(* Logging the steps of MvccTrx *)

CanLog == Len(log) < MaxLog

(* Mutant: visit_record changes the row and logs nothing. *)
LogRowMut(rid) == log' = Append(log, TrxEntry("COMMIT", 0))

(* RecordPageHandler: the new row is appended to the log. *)
LogRow(rid) == log' = Append(log, RecordEntry(rid, table'[rid]))

Calm(s) == s \notin unlogged /\ lsn[s] = 0

StartTrx(s) ==
  /\ Start(s) /\ (QuietSync => sync = "idle")
  /\ UNCHANGED <<logVars, pages, unlogged, lsn, syncVars, histVars>>

ChangeRow(s, rid) ==
  /\ Calm(s) /\ CanLog
  /\ Insert(s, rid) \/ Delete(s, rid)
  /\ LogRow(rid)
  /\ unlogged' = unlogged \union {s}
  /\ keptEnd' = [keptEnd EXCEPT ![rid] = 0]
  /\ UNCHANGED <<durable, acked, pages, lsn, syncVars, crashes, keptBegin>>

(* MvccTrxLogHandler::insert_record, delete_record *)
LogOp(s) ==
  /\ s \in unlogged /\ CanLog
  /\ log' = Append(log, TrxEntry(ops[s][Len(ops[s])].type, id[s]))
  /\ unlogged' = unlogged \ {s}
  /\ UNCHANGED <<vars, durable, acked, pages, lsn, syncVars, histVars>>

BeginEnd(s) ==
  /\ Calm(s) /\ pc[s] = "active"
  /\ CommitBegin(s) \/ RollbackBegin(s)
  /\ UNCHANGED <<logVars, pages, unlogged, lsn, syncVars, histVars>>

EndOp(s) ==
  /\ CanLog
  /\ \/ CommitOp(s) /\ LogRow(ops[s][done[s] + 1].rid)
     \/ RollbackOp(s) /\ LogRow(ops[s][Len(ops[s]) - done[s]].rid)
  /\ UNCHANGED <<durable, acked, pages, unlogged, lsn, syncVars, histVars>>

(* MvccTrxLogHandler::commit appends its entry ... *)
LogCommit(s) ==
  /\ pc[s] = "commit" /\ done[s] = Len(ops[s]) /\ lsn[s] = 0 /\ CanLog
  /\ log' = Append(log, TrxEntry("COMMIT", id[s]))
  /\ lsn' = [lsn EXCEPT ![s] = Len(log) + 1]
  /\ UNCHANGED <<vars, durable, acked, pages, unlogged, syncVars, histVars>>

Inserted(s) == {ops[s][i].rid : i \in {j \in DOMAIN ops[s] : ops[s][j].type = "INSERT"}}
Deleted(s)  == {ops[s][i].rid : i \in {j \in DOMAIN ops[s] : ops[s][j].type = "DELETE"}}

Acknowledge(s) ==
  /\ acked' = acked \union {lsn[s]}
  /\ keptBegin' = [rid \in Rids |-> IF rid \in Inserted(s) THEN cid[s] ELSE keptBegin[rid]]
  /\ keptEnd' = [rid \in Rids |-> IF rid \in Deleted(s) /\ table[rid].end = cid[s]
                                  THEN cid[s] ELSE keptEnd[rid]]
  /\ lsn' = [lsn EXCEPT ![s] = 0]

(* Mutant: commit does not wait for the log. *)
AckCommitMut(s) ==
  /\ lsn[s] > 0
  /\ CommitEnd(s) /\ Acknowledge(s)
  /\ UNCHANGED <<log, durable, pages, unlogged, syncVars, crashes>>

(* ... and returns when the log is durable up to it. *)
AckCommit(s) ==
  /\ lsn[s] > 0 /\ lsn[s] <= durable
  /\ CommitEnd(s) /\ Acknowledge(s)
  /\ UNCHANGED <<log, durable, pages, unlogged, syncVars, crashes>>

EndRollback(s) ==
  /\ CanLog /\ RollbackEnd(s)
  /\ log' = Append(log, TrxEntry("ROLLBACK", id[s]))
  /\ UNCHANGED <<durable, acked, pages, unlogged, lsn, syncVars, histVars>>

Disconnect(s) ==
  /\ Calm(s) /\ Abandon(s)
  /\ UNCHANGED <<logVars, pages, unlogged, lsn, syncVars, histVars>>

-----------------------------------------------------------------------------
(* The flush thread of the log, the write-back of pages, Db::sync *)

FlushLog ==
  /\ durable < Len(log)
  /\ durable' = durable + 1
  /\ UNCHANGED <<vars, log, acked, pages, unlogged, lsn, syncVars, histVars>>

(* Mutant: the page is written before the log. *)
WritablePageMut(rid) == pages[rid] # table[rid]

(* flush_page_internal waits for the page's LSN. *)
WritablePage(rid) == LastChange(rid, 1, Len(log)) <= durable

FlushPage(rid) ==
  /\ pages[rid] # table[rid] /\ WritablePage(rid)
  /\ pages' = [pages EXCEPT ![rid] = table[rid]]
  /\ UNCHANGED <<vars, logVars, unlogged, lsn, syncVars, histVars>>

(* A DDL statement succeeded and CommandExecutor calls Db::sync. *)
SyncBegin ==
  /\ sync = "idle" /\ Len(log) > ckpt
  /\ QuietSync => \A s \in Sessions : pc[s] = "idle"
  /\ sync' = "pages" /\ todo' = Rids
  /\ UNCHANGED <<vars, logVars, pages, unlogged, lsn, mark, ckpt, histVars>>

SyncPage(rid) ==
  /\ sync = "pages" /\ rid \in todo /\ WritablePage(rid)
  /\ pages' = [pages EXCEPT ![rid] = table[rid]]
  /\ todo' = todo \ {rid}
  /\ UNCHANGED <<vars, logVars, unlogged, lsn, sync, mark, ckpt, histVars>>

SyncLsn ==
  /\ sync = "pages" /\ todo = {}
  /\ sync' = "wait" /\ mark' = Len(log)
  /\ UNCHANGED <<vars, logVars, pages, unlogged, lsn, todo, ckpt, histVars>>

(* Mutant: the meta file is written without waiting for the log. *)
SyncMetaMut ==
  /\ sync = "wait"
  /\ sync' = "idle" /\ ckpt' = mark /\ mark' = 0
  /\ UNCHANGED <<vars, logVars, pages, unlogged, lsn, todo, histVars>>

(* The meta file is replaced once the log is durable up to current_lsn. *)
SyncMeta ==
  /\ sync = "wait" /\ mark <= durable
  /\ sync' = "idle" /\ ckpt' = mark /\ mark' = 0
  /\ UNCHANGED <<vars, logVars, pages, unlogged, lsn, todo, histVars>>

-----------------------------------------------------------------------------
(* Crash and restart *)

(* The rows after replaying the entries from the checkpoint up to k. *)
Recovered(k) ==
  [rid \in Rids |->
    LET i == LastChange(rid, Max({1, ckpt}), k)
    IN  IF i = 0 THEN pages[rid] ELSE log[i].row]

(* create_trx(log_handler, trx_id) raises current_trx_id_ to the ids in    *)
(* the replayed entries of transactions; commit ids do not count.          *)
RecoveredTrxId(k) ==
  Max({0} \union {log[i].trx : i \in {j \in Max({1, ckpt})..k : log[j].kind # "RECORD"}})

(* The entries of a transaction are replayed into one object per entry,    *)
(* none of which is kept in trx_map_: on_done finds nothing to roll back.  *)
Crash ==
  /\ crashes < MaxCrashes
  /\ crashes' = crashes + 1
  /\ log' = SubSeq(log, 1, durable)
  /\ table' = Recovered(durable)
  /\ current_trx_id' = RecoveredTrxId(durable)
  /\ pc' = [s \in Sessions |-> "idle"]
  /\ id' = [s \in Sessions |-> -1]
  /\ ops' = [s \in Sessions |-> <<>>]
  /\ cid' = [s \in Sessions |-> 0]
  /\ done' = [s \in Sessions |-> 0]
  /\ abandoned' = {}
  /\ unlogged' = {} /\ lsn' = [s \in Sessions |-> 0]
  /\ sync' = "idle" /\ todo' = {} /\ mark' = 0
  /\ UNCHANGED <<durable, acked, pages, ckpt, keptBegin, keptEnd>>

RInit ==
  /\ Init
  /\ log = <<>> /\ durable = 0 /\ acked = {}
  /\ pages = [rid \in Rids |-> NoRecord]
  /\ unlogged = {} /\ lsn = [s \in Sessions |-> 0]
  /\ sync = "idle" /\ todo = {} /\ mark = 0 /\ ckpt = 0
  /\ crashes = 0
  /\ keptBegin = [rid \in Rids |-> 0] /\ keptEnd = [rid \in Rids |-> 0]

RNext ==
  \/ \E s \in Sessions :
       \/ StartTrx(s) \/ LogOp(s) \/ BeginEnd(s) \/ EndOp(s) \/ LogCommit(s)
       \/ AckCommit(s) \/ EndRollback(s) \/ Disconnect(s)
       \/ \E rid \in Rids : ChangeRow(s, rid)
  \/ FlushLog \/ \E rid \in Rids : FlushPage(rid) \/ SyncPage(rid)
  \/ SyncBegin \/ SyncLsn \/ SyncMeta
  \/ Crash

RSpec == RInit /\ [][RNext]_rvars

-----------------------------------------------------------------------------
(* Properties *)

(* The rows after the first k entries of the whole log. *)
Image(k) ==
  [rid \in Rids |-> LET i == LastChange(rid, 1, k) IN IF i = 0 THEN NoRecord ELSE log[i].row]

LogEntry == [kind : {"RECORD"}, rid : Rids, row : Row] \union
            [kind : {"INSERT", "DELETE", "COMMIT", "ROLLBACK"}, trx : Int]

(* The types of the state, and that the checkpoint in the meta file never  *)
(* passes the durable part of the log.                                     *)
RTypeOK ==
  /\ TypeOK
  /\ \A i \in DOMAIN log : log[i] \in LogEntry
  /\ ckpt <= durable /\ durable <= Len(log) /\ mark <= Len(log)
  /\ pages \in [Rids -> [begin : Stamps, end : Stamps]]
  /\ unlogged \subseteq Sessions /\ todo \subseteq Rids
  /\ \A s \in Sessions : lsn[s] <= Len(log)

(* Redo from the start of the log gives the rows in memory: the record     *)
(* manager logs every change of a row, commit stamps and undone deletions  *)
(* included, in the order in which they happen.                            *)
TableLogged == table = Image(Len(log))

(* Wherever the log ends when the system crashes, redo from the checkpoint *)
(* onto the pages on disk gives the rows as they were at that entry:       *)
(* Db::sync and the page write-back neither lose changes before the        *)
(* checkpoint nor write changes whose entries are not on disk.             *)
CheckpointSound == \A k \in durable..Len(log) : Recovered(k) = Image(k)

(* The stamps of a transaction whose COMMIT was answered survive crashes,  *)
(* also when the entry of the commit is the last durable one.              *)
AckedKept ==
  \A rid \in Rids :
    /\ keptBegin[rid] > 0 => table[rid].begin = keptBegin[rid]
    /\ keptEnd[rid] > 0 => table[rid].end = keptEnd[rid]

LogAsWal == INSTANCE Wal WITH tail <- Len(log)

(* The transactions, the pages and Db::sync use the log only as module Wal *)
(* allows, which is what DiskLog implements.                               *)
UsesWal == LogAsWal!Spec

(* A transaction that starts now sees every row whose insertion was        *)
(* acknowledged and that nobody deleted.                                   *)
AckedVisible ==
  \A rid \in Rids :
    keptBegin[rid] > 0 /\ table[rid].end = MaxTrxId => keptBegin[rid] <= current_trx_id + 1
=============================================================================
