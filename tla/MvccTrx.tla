------------------------------ MODULE MvccTrx ------------------------------
(***************************************************************************)
(* The multi-version transactions of CSUDB: MvccTrxKit and MvccTrx         *)
(* (mvcc_trx.cpp), driven by the sessions (session.cpp, sql_result.cpp,    *)
(* trx_begin_executor.h, trx_end_executor.h).                              *)
(*                                                                         *)
(* A row carries two hidden fields, __trx_xid_begin and __trx_xid_end.     *)
(* While a transaction is open they hold its negated id, commit replaces   *)
(* them one row at a time by the commit id. Each access to a row happens   *)
(* under the latch of its page and is one step; commit and rollback are    *)
(* one step per row. Module TrxRecovery adds the log, crashes and restart. *)
(***************************************************************************)
EXTENDS Integers, Sequences

CONSTANTS
  Sessions,         \* client sessions, each with at most one transaction
  Rids,             \* the record slots of a table
  MaxTrxId,         \* max_trx_id(), the end stamp of a live row
  MaxId,            \* bound: ids handed out by next_trx_id()
  MaxOps,           \* bound: operations of a transaction
  SelfDeleteTwice   \* whether a client deletes a row it inserted twice

ASSUME MvccTrxAssumption ==
  /\ MaxId \in Nat /\ MaxTrxId \in Nat /\ MaxId < MaxTrxId
  /\ MaxOps \in Nat
  /\ SelfDeleteTwice \in BOOLEAN

VARIABLES
  current_trx_id,   \* MvccTrxKit::current_trx_id_
  table,            \* the rows, by slot
  pc,               \* what each session's transaction is doing
  id,               \* MvccTrx::trx_id_, -1 until started
  ops,              \* MvccTrx::operations_
  cid,              \* commit_xid of a commit in progress
  done,             \* operations a commit or rollback has handled
  abandoned         \* history: ids of transactions destroyed unfinished

trxVars == <<pc, id, ops, cid, done>>
vars == <<current_trx_id, table, trxVars, abandoned>>

Row      == [begin : Int, end : Int]
NoRecord == [begin |-> 0, end |-> 0]
Op       == [type : {"INSERT", "DELETE"}, rid : Rids]

-----------------------------------------------------------------------------
(* Mutant: a transaction sees every uncommitted insert. *)
VisitMut(s, row, mode) ==
  IF row.begin > 0 /\ row.end > 0
  THEN IF row.begin <= id[s] /\ id[s] <= row.end THEN "SUCCESS" ELSE "RECORD_INVISIBLE"
  ELSE IF row.begin < 0 THEN "SUCCESS"
  ELSE IF -row.end = id[s] THEN "RECORD_INVISIBLE"
  ELSE IF mode = "READ_ONLY" THEN "SUCCESS" ELSE "LOCKED_CONCURRENCY_CONFLICT"

(* Mutant: deleting a row somebody else is deleting is no conflict. *)
VisitNoConflictMut(s, row, mode) ==
  IF row.begin > 0 /\ row.end > 0
  THEN IF row.begin <= id[s] /\ id[s] <= row.end THEN "SUCCESS" ELSE "RECORD_INVISIBLE"
  ELSE IF row.begin < 0 THEN IF -row.begin = id[s] THEN "SUCCESS" ELSE "RECORD_INVISIBLE"
  ELSE IF -row.end = id[s] THEN "RECORD_INVISIBLE"
  ELSE "SUCCESS"

(* Mutant: a row is gone as soon as its deletion is committed. *)
VisitEndMut(s, row, mode) ==
  IF row.begin > 0 /\ row.end > 0
  THEN IF row.begin <= id[s] /\ row.end = MaxTrxId THEN "SUCCESS" ELSE "RECORD_INVISIBLE"
  ELSE IF row.begin < 0 THEN IF -row.begin = id[s] THEN "SUCCESS" ELSE "RECORD_INVISIBLE"
  ELSE IF -row.end = id[s] THEN "RECORD_INVISIBLE"
  ELSE IF mode = "READ_ONLY" THEN "SUCCESS" ELSE "LOCKED_CONCURRENCY_CONFLICT"

(* MvccTrx::visit_record *)
Visit(s, row, mode) ==
  IF row.begin > 0 /\ row.end > 0
  THEN IF row.begin <= id[s] /\ id[s] <= row.end THEN "SUCCESS" ELSE "RECORD_INVISIBLE"
  ELSE IF row.begin < 0 THEN IF -row.begin = id[s] THEN "SUCCESS" ELSE "RECORD_INVISIBLE"
  ELSE IF -row.end = id[s] THEN "RECORD_INVISIBLE"
  ELSE IF mode = "READ_ONLY" THEN "SUCCESS" ELSE "LOCKED_CONCURRENCY_CONFLICT"

Sees(s, rid) == table[rid] # NoRecord /\ Visit(s, table[rid], "READ_ONLY") = "SUCCESS"

-----------------------------------------------------------------------------
(* The operations of an open transaction *)

(* Mutant: the counter is read, not advanced. *)
StartMut(s) ==
  /\ pc[s] = "idle" /\ current_trx_id < MaxId
  /\ current_trx_id' = IF current_trx_id = 0 THEN 1 ELSE current_trx_id
  /\ pc' = [pc EXCEPT ![s] = "active"]
  /\ id' = [id EXCEPT ![s] = current_trx_id']
  /\ UNCHANGED <<table, ops, cid, done, abandoned>>

(* start_if_need, by BEGIN or by the first statement *)
Start(s) ==
  /\ pc[s] = "idle" /\ current_trx_id < MaxId
  /\ current_trx_id' = current_trx_id + 1
  /\ pc' = [pc EXCEPT ![s] = "active"]
  /\ id' = [id EXCEPT ![s] = current_trx_id + 1]
  /\ UNCHANGED <<table, ops, cid, done, abandoned>>

Insert(s, rid) ==
  /\ pc[s] = "active" /\ Len(ops[s]) < MaxOps
  /\ table[rid] = NoRecord
  /\ table' = [table EXCEPT ![rid] = [begin |-> -id[s], end |-> MaxTrxId]]
  /\ ops' = [ops EXCEPT ![s] = Append(@, [type |-> "INSERT", rid |-> rid])]
  /\ UNCHANGED <<current_trx_id, pc, id, cid, done, abandoned>>

(* A row that is invisible, or being deleted by somebody else, is left     *)
(* alone and the statement fails.                                          *)
Delete(s, rid) ==
  /\ pc[s] = "active" /\ Len(ops[s]) < MaxOps
  /\ table[rid] # NoRecord /\ Visit(s, table[rid], "READ_WRITE") = "SUCCESS"
  /\ SelfDeleteTwice \/ table[rid].end # -id[s]
  /\ table' = [table EXCEPT ![rid].end = -id[s]]
  /\ ops' = [ops EXCEPT ![s] = Append(@, [type |-> "DELETE", rid |-> rid])]
  /\ UNCHANGED <<current_trx_id, pc, id, cid, done, abandoned>>

-----------------------------------------------------------------------------
(* Commit and rollback, one operation at a time. TrxEndExecutor calls them *)
(* also for a session that did not start a transaction: trx_id_ is -1.     *)

CommitBegin(s) ==
  /\ pc[s] \in {"idle", "active"} /\ current_trx_id < MaxId
  /\ current_trx_id' = current_trx_id + 1
  /\ pc' = [pc EXCEPT ![s] = "commit"]
  /\ cid' = [cid EXCEPT ![s] = current_trx_id + 1]
  /\ UNCHANGED <<table, id, ops, done, abandoned>>

Committed(s, op) ==
  IF op.type = "INSERT" THEN [table EXCEPT ![op.rid].begin = cid[s]]
                        ELSE [table EXCEPT ![op.rid].end = cid[s]]

(* Mutant: the inserted row keeps its begin stamp. *)
CommitOpMut(s) ==
  /\ pc[s] = "commit" /\ done[s] < Len(ops[s])
  /\ table' = IF ops[s][done[s] + 1].type = "INSERT" THEN table
              ELSE Committed(s, ops[s][done[s] + 1])
  /\ done' = [done EXCEPT ![s] = @ + 1]
  /\ UNCHANGED <<current_trx_id, pc, id, ops, cid, abandoned>>

CommitOp(s) ==
  /\ pc[s] = "commit" /\ done[s] < Len(ops[s])
  /\ table' = Committed(s, ops[s][done[s] + 1])
  /\ done' = [done EXCEPT ![s] = @ + 1]
  /\ UNCHANGED <<current_trx_id, pc, id, ops, cid, abandoned>>

(* operations_ is cleared and the session destroys its transaction. *)
Destroyed(s) ==
  /\ pc' = [pc EXCEPT ![s] = "idle"]
  /\ id' = [id EXCEPT ![s] = -1]
  /\ ops' = [ops EXCEPT ![s] = <<>>]
  /\ cid' = [cid EXCEPT ![s] = 0]
  /\ done' = [done EXCEPT ![s] = 0]

CommitEnd(s) ==
  /\ pc[s] = "commit" /\ done[s] = Len(ops[s])
  /\ Destroyed(s)
  /\ UNCHANGED <<current_trx_id, table, abandoned>>

RollbackBegin(s) ==
  /\ pc[s] \in {"idle", "active"}
  /\ pc' = [pc EXCEPT ![s] = "rollback"]
  /\ UNCHANGED <<current_trx_id, table, id, ops, cid, done, abandoned>>

(* Mutant: the undone deletion leaves an end stamp beyond max_trx_id(). *)
RolledBackMut(op) ==
  IF op.type = "INSERT" THEN [table EXCEPT ![op.rid] = NoRecord]
                        ELSE [table EXCEPT ![op.rid].end = MaxTrxId + 1]

RolledBack(op) ==
  IF op.type = "INSERT" THEN [table EXCEPT ![op.rid] = NoRecord]
                        ELSE [table EXCEPT ![op.rid].end = MaxTrxId]

(* Mutant: the operations are undone from the first to the last. *)
RollbackOpMut(s) ==
  /\ pc[s] = "rollback" /\ done[s] < Len(ops[s])
  /\ table' = RolledBack(ops[s][done[s] + 1])
  /\ done' = [done EXCEPT ![s] = @ + 1]
  /\ UNCHANGED <<current_trx_id, pc, id, ops, cid, abandoned>>

(* The last operation first *)
RollbackOp(s) ==
  /\ pc[s] = "rollback" /\ done[s] < Len(ops[s])
  /\ table' = RolledBack(ops[s][Len(ops[s]) - done[s]])
  /\ done' = [done EXCEPT ![s] = @ + 1]
  /\ UNCHANGED <<current_trx_id, pc, id, ops, cid, abandoned>>

RollbackEnd(s) ==
  /\ pc[s] = "rollback" /\ done[s] = Len(ops[s])
  /\ Destroyed(s)
  /\ UNCHANGED <<current_trx_id, table, abandoned>>

(* The connection closes, or USE changes the database: the transaction is  *)
(* destroyed without a rollback.                                           *)
Abandon(s) ==
  /\ pc[s] = "active"
  /\ Destroyed(s)
  /\ abandoned' = abandoned \union {id[s]}
  /\ UNCHANGED <<current_trx_id, table>>

-----------------------------------------------------------------------------
Init ==
  /\ current_trx_id = 0
  /\ table = [rid \in Rids |-> NoRecord]
  /\ pc = [s \in Sessions |-> "idle"]
  /\ id = [s \in Sessions |-> -1]
  /\ ops = [s \in Sessions |-> <<>>]
  /\ cid = [s \in Sessions |-> 0]
  /\ done = [s \in Sessions |-> 0]
  /\ abandoned = {}

SessionStep(s) ==
  \/ Start(s) \/ CommitBegin(s) \/ CommitOp(s) \/ CommitEnd(s)
  \/ RollbackBegin(s) \/ RollbackOp(s) \/ RollbackEnd(s) \/ Abandon(s)
  \/ \E rid \in Rids : Insert(s, rid) \/ Delete(s, rid)

Next == \E s \in Sessions : SessionStep(s)

Spec == Init /\ [][Next]_vars

-----------------------------------------------------------------------------
(* Properties *)

Stamps == -MaxId..MaxId \union {MaxTrxId}

(* The types of the members of MvccTrxKit and MvccTrx and the range of the *)
(* stamps in the rows.                                                     *)
TypeOK ==
  /\ current_trx_id \in 0..MaxId
  /\ table \in [Rids -> [begin : Stamps, end : Stamps]]
  /\ pc \in [Sessions -> {"idle", "active", "commit", "rollback"}]
  /\ id \in [Sessions -> -1..MaxId]
  /\ ops \in [Sessions -> Seq(Op)]
  /\ cid \in [Sessions -> 0..MaxId]
  /\ done \in [Sessions -> Nat]
  /\ \A s \in Sessions : done[s] <= Len(ops[s])
  /\ abandoned \subseteq 1..MaxId

(* The operations of s that are neither committed nor rolled back yet. *)
Unhandled(s) ==
  IF pc[s] = "commit" THEN done[s] + 1..Len(ops[s]) ELSE 1..Len(ops[s]) - done[s]

Pending(s) == {ops[s][i] : i \in Unhandled(s)}

Started(s) == id[s] # -1

(* Ids in use are distinct: no two transactions share an id, a commit id   *)
(* is larger than the transaction's own id (the assertion in               *)
(* MvccTrxLogHandler::commit) and is nobody else's, and no id lies beyond  *)
(* current_trx_id_.                                                        *)
IdsDistinct ==
  /\ \A s, t \in Sessions : s # t /\ Started(s) =>
       /\ id[s] # id[t]
       /\ pc[t] = "commit" => id[s] # cid[t]
  /\ \A s \in Sessions : Started(s) => id[s] \in 1..current_trx_id
  /\ \A s, t \in Sessions : s # t /\ pc[s] = "commit" /\ pc[t] = "commit" => cid[s] # cid[t]
  /\ \A s \in Sessions : pc[s] = "commit" => id[s] < cid[s] /\ cid[s] <= current_trx_id

(* What the assertions in commit_with_trx_id and rollback say: a row that  *)
(* a transaction still has to stamp or to undo exists and carries the      *)
(* transaction's negated id, whatever the other sessions did meanwhile.    *)
PendingOwned ==
  \A s \in Sessions : \A op \in Pending(s) :
    IF op.type = "INSERT" THEN table[op.rid].begin = -id[s] ELSE table[op.rid].end = -id[s]

(* Two transactions never have an unfinished operation on the same row:    *)
(* the second one got LOCKED_CONCURRENCY_CONFLICT or did not see the row.  *)
WriteExclusion ==
  \A s, t \in Sessions : s # t =>
    \A o \in Pending(s), p \in Pending(t) : o.rid # p.rid

(* Every uncommitted stamp has an owner that will replace it, except for   *)
(* the stamps of transactions that were destroyed without a rollback.      *)
StampsOwned ==
  \A rid \in Rids :
    /\ table[rid].begin < 0 =>
         \/ -table[rid].begin \in abandoned
         \/ \E s \in Sessions : id[s] = -table[rid].begin /\
              [type |-> "INSERT", rid |-> rid] \in Pending(s)
    /\ table[rid].end < 0 =>
         \/ -table[rid].end \in abandoned
         \/ \E s \in Sessions : id[s] = -table[rid].end /\
              [type |-> "DELETE", rid |-> rid] \in Pending(s)

(* No dirty reads of inserted rows: a row whose insert is not committed is *)
(* visible to the session that inserted it only.                           *)
UncommittedPrivate ==
  \A s \in Sessions, rid \in Rids :
    Started(s) /\ Sees(s, rid) /\ table[rid].begin < 0 =>
      [type |-> "INSERT", rid |-> rid] \in Pending(s)

(* Once a commit handled all its operations every row it inserted carries  *)
(* its commit id, so all of them are visible to every later transaction    *)
(* until somebody deletes them.                                            *)
InsertsCommitted ==
  \A s \in Sessions : pc[s] = "commit" =>
    \A i \in 1..done[s] :
      ops[s][i].type = "INSERT" => table[ops[s][i].rid].begin = cid[s]

(* A row that is being changed has one owner: ids are nobody else's, the   *)
(* marks of an unfinished operation stay until its transaction replaces    *)
(* them, every mark has such a transaction, and no row has two.            *)
RowsAreOwned == IdsDistinct /\ PendingOwned /\ StampsOwned /\ WriteExclusion

(* What was inserted is seen by nobody else before its commit, and by all  *)
(* later transactions after it.                                            *)
InsertsSeenOnceCommitted == UncommittedPrivate /\ InsertsCommitted

CommitBefore(s) == \E t \in Sessions : pc[t] = "commit" /\ cid[t] < id[s]

ReadKept(s, rid) ==
  /\ pc[s] = "active" /\ pc'[s] = "active"
  /\ Sees(s, rid) /\ table[rid].begin > 0 /\ table[rid].begin <= id[s]
  /\ ~CommitBefore(s)
  => Sees(s, rid)' \/ table'[rid].end = -id[s]

(* Repeatable reads: a committed row that a transaction's snapshot         *)
(* contains stays visible to it until the transaction deletes the row      *)
(* itself. The exception is a commit that took its id before the           *)
(* transaction started and is still stamping (the TODO in                  *)
(* commit_with_trx_id).                                                    *)
ReadsRepeatable == [][\A s \in Sessions, rid \in Rids : ReadKept(s, rid)]_vars

(* A committed deletion is final: visit_record reports a conflict (see its *)
(* documentation) to a transaction that wants to change a row which        *)
(* another transaction has changed since.                                  *)
DeletesFinal ==
  [][ \A rid \in Rids :
        table[rid].end > 0 /\ table[rid].end # MaxTrxId => table'[rid].end = table[rid].end ]_vars
=============================================================================
