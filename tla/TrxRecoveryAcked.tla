-------------------------- MODULE TrxRecoveryAcked --------------------------
(***************************************************************************)
(* The stamps of acknowledged commits survive crashes, for every set of    *)
(* sessions and slots, every bound and every number of crashes.            *)
(***************************************************************************)
EXTENDS TrxRecoveryRedo

-----------------------------------------------------------------------------
(* What an acknowledged commit left *)

(* A commit that waits for the log has its stamps in the log, from its own *)
(* entry on.                                                               *)
Settled(s) ==
  /\ pc[s] = "commit" /\ done[s] = Len(ops[s])
  /\ \A k \in lsn[s]..Len(log) : \A rid \in Inserted(s) : RowIn(log, rid, k).begin = cid[s]
  /\ \A k \in lsn[s]..Len(log) : \A rid \in Deleted(s) :
       table[rid].end = cid[s] => RowIn(log, rid, k).end = cid[s]

Waiting == \A s \in Sessions : lsn[s] > 0 => Settled(s)

(* The stamps of an acknowledged commit are in every log that a crash may  *)
(* leave.                                                                  *)
KeptLogged ==
  \A rid \in Rids : \A k \in durable..Len(log) :
    /\ keptBegin[rid] > 0 => RowIn(log, rid, k).begin = keptBegin[rid]
    /\ keptEnd[rid] > 0 => RowIn(log, rid, k).end = keptEnd[rid]

KeptShape == keptBegin \in [Rids -> Nat] /\ keptEnd \in [Rids -> Nat]

(* Nobody is changing a row whose deletion was acknowledged, and a row     *)
(* that is not committed yet is deleted by nobody but its inserter.        *)
EndsOwned ==
  \A s \in Sessions : \A op \in Pending(s) :
    /\ keptEnd[op.rid] = 0
    /\ op.type = "INSERT" => table[op.rid].end = MaxTrxId \/ table[op.rid].end = -id[s]

Acked == Redo /\ Waiting /\ KeptShape /\ KeptLogged /\ EndsOwned

(* The rows of a commit that has handled all its operations *)
LEMMA CommittedRows ==
  ASSUME IInv, NEW s \in Sessions, pc[s] = "commit", done[s] = Len(ops[s])
  PROVE  /\ Inserted(s) \subseteq Rids /\ Deleted(s) \subseteq Rids
         /\ \A rid \in Inserted(s) : table[rid].begin = cid[s]
         /\ \A rid \in Inserted(s) \union Deleted(s) : cid[s] > 0 /\ cid[s] \in 1..MaxId
  <1>1. DOMAIN ops[s] = 1..done[s]
    <2>1. ops[s] \in Seq(Op)
      BY Zenon DEF IInv, TypeOK
    <2> QED BY <2>1
  <1>2. ASSUME NEW i \in 1..done[s]
        PROVE  ops[s][i].rid \in Rids /\ cid[s] > 0 /\ cid[s] \in 1..MaxId
    <2>1. ops[s][i].rid \in Rids /\ cid[s] > 0
      BY CommittedOp, Zenon
    <2>2. cid[s] \in 0..MaxId
      BY Zenon DEF IInv, TypeOK
    <2> QED BY <2>1, <2>2, MvccTrxAssumption
  <1>3. \A i \in 1..done[s] : ops[s][i].type = "INSERT" => table[ops[s][i].rid].begin = cid[s]
    BY Zenon DEF IInv, InsertsCommitted
  <1> QED BY <1>1, <1>2, <1>3, Zenon DEF Inserted, Deleted

(* No step of a session replaces a committed begin stamp. *)
LEMMA BeginKept ==
  ASSUME IInv, NEW t \in Sessions,
         CommitOp(t) \/ RollbackOp(t) \/ \E q \in Rids : Insert(t, q) \/ Delete(t, q),
         NEW rid \in Rids, table[rid].begin > 0
  PROVE  table'[rid].begin = table[rid].begin
  <1>1. CASE CommitOp(t)
    <2>1. pc[t] = "commit" /\ done[t] < Len(ops[t]) /\ table' = Committed(t, NextOp(t))
      BY <1>1, Zenon DEF CommitOp, NextOp, NextIndex
    <2> QED BY <2>1, HandledKeepsBegin, Zenon
  <1>2. CASE RollbackOp(t)
    <2>1. pc[t] = "rollback" /\ done[t] < Len(ops[t]) /\ table' = RolledBack(NextOp(t))
      BY <1>2, Zenon DEF RollbackOp, NextOp, NextIndex
    <2> QED BY <2>1, HandledKeepsBegin, Zenon
  <1>3. ASSUME NEW q \in Rids, Insert(t, q) PROVE table'[rid].begin = table[rid].begin
    <2>1. q # rid
      BY <1>3, StampFacts DEF Insert, NoRecord, IInv
    <2> QED BY <1>3, <2>1, RowChanged, Zenon
  <1>4. ASSUME NEW q \in Rids, Delete(t, q) PROVE table'[rid].begin = table[rid].begin
    BY <1>4 DEF Delete, IInv, TypeOK
  <1> QED BY <1>1, <1>2, <1>3, <1>4, Zenon

(* Only the commit that has the id writes it into the end stamp of a row. *)
LEMMA EndWritten ==
  ASSUME IInv, NEW t \in Sessions,
         CommitOp(t) \/ RollbackOp(t) \/ \E q \in Rids : Insert(t, q) \/ Delete(t, q),
         NEW s \in Sessions, s # t, pc[s] = "commit", cid[s] \in 1..MaxId,
         NEW rid \in Rids, table'[rid].end = cid[s]
  PROVE  table[rid].end = cid[s]
  <1>1. /\ cid[s] \in Nat /\ cid[s] > 0 /\ cid[s] # MaxTrxId /\ cid[s] # 0
        /\ pc[t] = "commit" => cid[s] # cid[t]
    <2>1. pc[t] = "commit" => cid[s] # cid[t]
      BY Zenon DEF IInv, IdsDistinct
    <2> QED BY <2>1, MvccTrxAssumption
  <1>2. table \in [Rids -> [begin : Stamps, end : Stamps]]
    BY Zenon DEF IInv, TypeOK
  <1>3. CASE CommitOp(t) \/ RollbackOp(t)
    <2>1. PICK op : /\ op.rid \in Rids
                    /\ \/ table' = Committed(t, op) /\ pc[t] = "commit"
                       \/ table' = RolledBack(op)
      <3>1. PICK r : \/ CommitOp(t) /\ r = ops[t][done[t] + 1].rid
                     \/ RollbackOp(t) /\ r = ops[t][Len(ops[t]) - done[t]].rid
        BY <1>3, Zenon
      <3>2. r \in Rids
        BY <3>1, RowHandled, Zenon
      <3> QED BY <3>1, <3>2, Zenon DEF CommitOp, RollbackOp
    <2>2. \/ table' = [table EXCEPT ![op.rid].begin = cid[t]]
          \/ table' = [table EXCEPT ![op.rid].end = cid[t]] /\ pc[t] = "commit"
          \/ table' = [table EXCEPT ![op.rid] = [begin |-> 0, end |-> 0]]
          \/ table' = [table EXCEPT ![op.rid].end = MaxTrxId]
      BY <2>1, Zenon DEF Committed, RolledBack, NoRecord
    <2> QED BY ONLY <1>1, <1>2, <2>1, <2>2, rid \in Rids, table'[rid].end = cid[s]
  <1>4. ASSUME NEW q \in Rids, Insert(t, q) \/ Delete(t, q) PROVE table[rid].end = cid[s]
    <2>1. pc[t] = "active" /\ id[t] \in 1..MaxId
      <3>1. pc[t] = "active"
        BY <1>4, Zenon DEF Insert, Delete
      <3>2. id[t] \in 1..current_trx_id /\ current_trx_id \in 0..MaxId
        BY <3>1, Zenon DEF IInv, SessionShape, IdsDistinct, TypeOK
      <3> QED BY <3>1, <3>2, MvccTrxAssumption
    <2>2. cid[s] # -id[t]
      BY <1>1, <2>1, MvccTrxAssumption
    <2>3. \/ table' = [table EXCEPT ![q] = [begin |-> -id[t], end |-> MaxTrxId]]
          \/ table' = [table EXCEPT ![q].end = -id[t]]
      BY <1>4, Zenon DEF Insert, Delete
    <2> QED BY ONLY <1>1, <1>2, <2>2, <2>3, rid \in Rids, q \in Rids, table'[rid].end = cid[s]
  <1> QED BY <1>3, <1>4, Zenon

(* What a step that logs leaves alone *)
LEMMA LoggingFrame ==
  ASSUME Base, Waiting, NEW t \in Sessions,
         \/ LogOp(t) \/ EndOp(t) \/ LogCommit(t) \/ EndRollback(t)
         \/ \E rid \in Rids : ChangeRow(t, rid)
  PROVE  /\ lsn[t] = 0 /\ (lsn' = lsn \/ LogCommit(t))
         /\ \A s \in Sessions : s # t => /\ pc'[s] = pc[s] /\ ops'[s] = ops[s] /\ cid'[s] = cid[s]
                                         /\ done'[s] = done[s] /\ lsn'[s] = lsn[s]
         /\ \/ UNCHANGED vars
            \/ UNCHANGED table
            \/ EndOp(t) /\ (CommitOp(t) \/ RollbackOp(t)) /\ keptEnd' = keptEnd
            \/ \E q \in Rids : (Insert(t, q) \/ Delete(t, q)) /\ keptEnd' = [keptEnd EXCEPT ![q] = 0]
  <1>0. /\ pc \in [Sessions -> {"idle", "active", "commit", "rollback"}] /\ lsn \in [Sessions -> Nat]
        /\ ops \in [Sessions -> Seq(Op)] /\ cid \in [Sessions -> 0..MaxId]
        /\ done \in [Sessions -> Nat] /\ \A s \in Sessions : done[s] \in Nat /\ Len(ops[s]) \in Nat
    BY DEF Base, IInv, TypeOK, LogShape
  <1>1. lsn[t] = 0
    <2>1. lsn[t] > 0 => pc[t] = "commit" /\ done[t] = Len(ops[t])
      BY Zenon DEF Waiting, Settled
    <2>2. CASE LogCommit(t)
      BY <2>2, Zenon DEF LogCommit
    <2>3. CASE EndOp(t)
      <3>1. done[t] < Len(ops[t])
        BY <2>3, Zenon DEF EndOp, CommitOp, RollbackOp
      <3> QED BY <1>0, <2>1, <3>1
    <2>4. CASE LogOp(t) \/ EndRollback(t) \/ \E rid \in Rids : ChangeRow(t, rid)
      <3>1. pc[t] # "commit"
        BY <2>4, Zenon DEF LogOp, EndRollback, RollbackEnd, ChangeRow, Insert, Delete, Base, TrxShape
      <3> QED BY <1>0, <2>1, <3>1
    <2> QED BY <2>2, <2>3, <2>4, Zenon
  <1>2. lsn' = lsn \/ (LogCommit(t) /\ lsn' = [lsn EXCEPT ![t] = Len(log) + 1])
    BY Zenon DEF LogOp, EndOp, LogCommit, EndRollback, ChangeRow
  <1>3. ASSUME NEW s \in Sessions, s # t
        PROVE  /\ pc'[s] = pc[s] /\ ops'[s] = ops[s] /\ cid'[s] = cid[s]
               /\ done'[s] = done[s] /\ lsn'[s] = lsn[s]
    <2>1. lsn'[s] = lsn[s]
      BY <1>0, <1>2, <1>3, Zenon
    <2>2. CASE LogOp(t) \/ LogCommit(t)
      BY <2>1, <2>2, Zenon DEF LogOp, LogCommit, vars, trxVars
    <2>3. CASE EndOp(t)
      BY <1>0, <1>3, <2>1, <2>3, Zenon DEF EndOp, CommitOp, RollbackOp
    <2>4. CASE EndRollback(t)
      BY <1>0, <1>3, <2>1, <2>4, Zenon DEF EndRollback, RollbackEnd, Destroyed
    <2>5. CASE \E rid \in Rids : ChangeRow(t, rid)
      BY <1>0, <1>3, <2>1, <2>5, Zenon DEF ChangeRow, Insert, Delete
    <2> QED BY <2>2, <2>3, <2>4, <2>5, Zenon
  <1>4. \/ UNCHANGED vars
        \/ UNCHANGED table
        \/ EndOp(t) /\ (CommitOp(t) \/ RollbackOp(t)) /\ keptEnd' = keptEnd
        \/ \E q \in Rids : (Insert(t, q) \/ Delete(t, q)) /\ keptEnd' = [keptEnd EXCEPT ![q] = 0]
    BY Zenon DEF LogOp, EndOp, LogCommit, EndRollback, ChangeRow, RollbackEnd, histVars
  <1> QED BY <1>1, <1>2, <1>3, <1>4, Zenon

(* The last state that the log describes is the one in memory. *)
LEMMA KeptNow ==
  ASSUME Base, RowsLogged, KeptLogged
  PROVE  AckedKept
  <1>1. Len(log) \in durable..Len(log)
    BY LogFacts
  <1> QED BY <1>1, Zenon DEF KeptLogged, RowsLogged, AckedKept

LEMMA LoggingKept ==
  ASSUME Acked, NEW e \in Entry, Logs(e), NEW t \in Sessions,
         \/ LogOp(t) \/ EndOp(t) \/ LogCommit(t) \/ EndRollback(t)
         \/ \E rid \in Rids : ChangeRow(t, rid)
  PROVE  KeptShape' /\ KeptLogged'
  <1>0. /\ Base /\ IInv /\ RowsLogged /\ Waiting /\ KeptLogged /\ KeptShape /\ EndsOwned
        /\ keptBegin' = keptBegin /\ durable' = durable
    BY Zenon DEF Acked, Redo, Base, LogOp, EndOp, LogCommit, EndRollback, ChangeRow, histVars
  <1>1. \/ UNCHANGED table /\ keptEnd' = keptEnd
        \/ (CommitOp(t) \/ RollbackOp(t)) /\ keptEnd' = keptEnd
        \/ \E q \in Rids : (Insert(t, q) \/ Delete(t, q)) /\ keptEnd' = [keptEnd EXCEPT ![q] = 0]
    BY Zenon DEF LogOp, EndOp, LogCommit, EndRollback, ChangeRow, RollbackEnd, histVars, vars
  <1>2. /\ KeptShape'
        /\ \A rid \in Rids : keptEnd'[rid] > 0 => keptEnd'[rid] = keptEnd[rid]
    <2>1. ASSUME NEW q \in Rids, keptEnd' = [keptEnd EXCEPT ![q] = 0]
          PROVE  /\ keptEnd' \in [Rids -> Nat]
                 /\ \A rid \in Rids : keptEnd'[rid] > 0 => keptEnd'[rid] = keptEnd[rid]
      BY <1>0, <2>1 DEF KeptShape
    <2> QED BY <1>0, <1>1, <2>1, Zenon DEF KeptShape
  <1>3. AckedKept
    BY <1>0, KeptNow, Zenon
  <1>4. ASSUME NEW rid \in Rids
        PROVE  /\ keptBegin[rid] > 0 => table'[rid].begin = keptBegin[rid]
               /\ keptEnd'[rid] > 0 => table'[rid].end = keptEnd'[rid]
    <2>1. keptBegin[rid] > 0 => table'[rid].begin = keptBegin[rid]
      <3>1. keptBegin[rid] > 0 => table[rid].begin = keptBegin[rid] /\ table[rid].begin > 0
        BY <1>3, Zenon DEF AckedKept
      <3>2. CASE CommitOp(t) \/ RollbackOp(t) \/ \E q \in Rids : Insert(t, q) \/ Delete(t, q)
        BY <1>0, <3>1, <3>2, BeginKept, Zenon
      <3>3. CASE table' = table
        BY <3>1, <3>3, Zenon
      <3>4. \/ table' = table
            \/ CommitOp(t) \/ RollbackOp(t) \/ \E q \in Rids : Insert(t, q) \/ Delete(t, q)
        BY <1>1, Zenon
      <3> QED BY <3>2, <3>3, <3>4, Zenon
    <2>2. keptEnd'[rid] > 0 => table'[rid] = table[rid]
      <3>1. ASSUME CommitOp(t) \/ RollbackOp(t), keptEnd' = keptEnd, keptEnd[rid] > 0
            PROVE  table'[rid] = table[rid]
        <4>1. PICK r : \/ CommitOp(t) /\ r = ops[t][done[t] + 1].rid
                       \/ RollbackOp(t) /\ r = ops[t][Len(ops[t]) - done[t]].rid
          BY <3>1, Zenon
        <4>2. /\ r = NextOp(t).rid /\ NextOp(t) \in Pending(t)
              /\ \A q \in Rids : q # r => table'[q] = table[q]
          BY <1>0, <4>1, RowHandled, Zenon
        <4>3. keptEnd[r] = 0
          BY <1>0, <4>2, Zenon DEF EndsOwned
        <4>4. r # rid
          BY <3>1, <4>3
        <4> QED BY <4>2, <4>4, Zenon
      <3>2. ASSUME NEW q \in Rids, Insert(t, q) \/ Delete(t, q), keptEnd' = [keptEnd EXCEPT ![q] = 0],
                   keptEnd'[rid] > 0
            PROVE  table'[rid] = table[rid]
        <4>1. q # rid
          BY <1>0, <3>2 DEF KeptShape
        <4> QED BY <1>0, <3>2, <4>1, RowChanged, Zenon
      <3> QED BY <1>1, <3>1, <3>2, Zenon
    <2>3. keptEnd'[rid] > 0 => table'[rid].end = keptEnd'[rid]
      BY <1>2, <1>3, <2>2, Zenon DEF AckedKept
    <2> QED BY <2>1, <2>3, Zenon
  <1>5. ASSUME NEW rid \in Rids, NEW k \in durable..Len(log')
        PROVE  /\ keptBegin[rid] > 0 => RowIn(log', rid, k).begin = keptBegin[rid]
               /\ keptEnd'[rid] > 0 => RowIn(log', rid, k).end = keptEnd'[rid]
    <2>1. Len(log') = Len(log) + 1 /\ RowIn(log', rid, Len(log) + 1) = table'[rid]
      BY <1>0, LoggedRows, Zenon
    <2>2. k = Len(log) + 1 \/ (k \in durable..Len(log) /\ k \in 0..Len(log))
      BY <1>0, <2>1, LogFacts
    <2>3. CASE k = Len(log) + 1
      BY <1>4, <2>1, <2>3, Zenon
    <2>4. CASE k \in durable..Len(log) /\ k \in 0..Len(log)
      <3>1. RowIn(log', rid, k) = RowIn(log, rid, k)
        BY <1>0, <2>4, LoggedRows, Zenon
      <3> QED BY <1>0, <1>2, <2>4, <3>1, Zenon DEF KeptLogged
    <2> QED BY <2>2, <2>3, <2>4, Zenon
  <1> QED BY <1>0, <1>2, <1>5, Zenon DEF KeptLogged

LEMMA LoggingWaits ==
  ASSUME Acked, NEW e \in Entry, Logs(e), NEW t \in Sessions,
         \/ LogOp(t) \/ EndOp(t) \/ LogCommit(t) \/ EndRollback(t)
         \/ \E rid \in Rids : ChangeRow(t, rid)
  PROVE  Waiting'
  <1>0. Base /\ IInv /\ RowsLogged /\ Waiting /\ LogShape
    BY Zenon DEF Acked, Redo, Base
  <1>l. /\ Len(log) \in Nat /\ Len(log') = Len(log) + 1
        /\ \A rid \in Rids : RowIn(log', rid, Len(log) + 1) = table'[rid]
        /\ \A rid \in Rids : \A k \in 0..Len(log) : RowIn(log', rid, k) = RowIn(log, rid, k)
    BY <1>0, LoggedRows, LogFacts, Zenon
  <1>1. ASSUME NEW s \in Sessions, s # t, lsn'[s] > 0 PROVE Settled(s)'
    <2>1. /\ pc'[s] = pc[s] /\ ops'[s] = ops[s] /\ cid'[s] = cid[s]
          /\ done'[s] = done[s] /\ lsn'[s] = lsn[s]
      BY <1>0, <1>1, LoggingFrame, Zenon
    <2>2. Settled(s) /\ lsn[s] \in Nat
      BY <1>0, <1>1, <2>1, Zenon DEF Waiting, LogShape
    <2>3. Inserted(s)' = Inserted(s) /\ Deleted(s)' = Deleted(s)
      BY <2>1, Zenon DEF Inserted, Deleted
    <2>4. /\ Inserted(s) \subseteq Rids /\ Deleted(s) \subseteq Rids
          /\ \A rid \in Inserted(s) : table[rid].begin = cid[s]
          /\ \A rid \in Inserted(s) \union Deleted(s) : cid[s] > 0 /\ cid[s] \in 1..MaxId
      BY <1>0, <2>2, CommittedRows, Zenon DEF Settled
    <2>5. \/ UNCHANGED table
          \/ CommitOp(t) \/ RollbackOp(t) \/ \E q \in Rids : Insert(t, q) \/ Delete(t, q)
      BY Zenon DEF LogOp, EndOp, LogCommit, EndRollback, ChangeRow, RollbackEnd, vars
    <2>6. \A rid \in Inserted(s) : table'[rid].begin = cid[s]
      <3>1. ASSUME NEW rid \in Inserted(s) PROVE table'[rid].begin = cid[s]
        <4>1. rid \in Rids /\ table[rid].begin = cid[s] /\ table[rid].begin > 0
          BY <2>4, Zenon
        <4>2. CASE CommitOp(t) \/ RollbackOp(t) \/ \E q \in Rids : Insert(t, q) \/ Delete(t, q)
          BY <1>0, <4>1, <4>2, BeginKept, Zenon
        <4> QED BY <2>5, <4>1, <4>2, Zenon
      <3> QED BY <3>1, Zenon
    <2>7. \A rid \in Deleted(s) : table'[rid].end = cid[s] => table[rid].end = cid[s]
      <3>1. ASSUME NEW rid \in Deleted(s), table'[rid].end = cid[s] PROVE table[rid].end = cid[s]
        <4>1. rid \in Rids /\ cid[s] \in 1..MaxId /\ pc[s] = "commit"
          BY <2>2, <2>4, Zenon DEF Settled
        <4>2. CASE CommitOp(t) \/ RollbackOp(t) \/ \E q \in Rids : Insert(t, q) \/ Delete(t, q)
          BY <1>0, <1>1, <3>1, <4>1, <4>2, EndWritten, Zenon
        <4> QED BY <2>5, <3>1, <4>2, Zenon
      <3> QED BY <3>1, Zenon
    <2>8. ASSUME NEW k \in lsn[s]..Len(log')
          PROVE  /\ \A rid \in Inserted(s) : RowIn(log', rid, k).begin = cid[s]
                 /\ \A rid \in Deleted(s) : table'[rid].end = cid[s] => RowIn(log', rid, k).end = cid[s]
      <3>1. k = Len(log) + 1 \/ (k \in lsn[s]..Len(log) /\ k \in 0..Len(log))
        BY <1>l, <2>2
      <3>2. CASE k = Len(log) + 1
        BY <1>l, <2>4, <2>6, <3>2, Zenon
      <3>3. CASE k \in lsn[s]..Len(log) /\ k \in 0..Len(log)
        BY <1>l, <2>2, <2>4, <2>7, <3>3, Zenon DEF Settled
      <3> QED BY <3>1, <3>2, <3>3, Zenon
    <2> QED BY <2>1, <2>2, <2>3, <2>8, Zenon DEF Settled
  <1>2. ASSUME lsn'[t] > 0 PROVE Settled(t)'
    <2>1. lsn[t] = 0 /\ (lsn' = lsn \/ LogCommit(t))
      BY <1>0, LoggingFrame, Zenon
    <2>2. LogCommit(t)
      BY <1>2, <2>1
    <2>3. /\ pc'[t] = "commit" /\ done'[t] = Len(ops'[t]) /\ UNCHANGED <<table, cid, ops>>
          /\ lsn'[t] = Len(log) + 1 /\ pc[t] = "commit" /\ done[t] = Len(ops[t])
      BY <1>0, <2>2, Zenon DEF LogCommit, vars, trxVars, LogShape
    <2>4. Inserted(t)' = Inserted(t) /\ Deleted(t)' = Deleted(t)
      BY <2>3, Zenon DEF Inserted, Deleted
    <2>5. /\ Inserted(t) \subseteq Rids /\ Deleted(t) \subseteq Rids
          /\ \A rid \in Inserted(t) : table[rid].begin = cid[t]
      BY <1>0, <2>3, CommittedRows, Zenon
    <2>6. \A k \in lsn'[t]..Len(log') : k = Len(log) + 1
      BY ONLY <1>l, <2>3
    <2>7. ASSUME NEW k \in lsn'[t]..Len(log')
          PROVE  /\ \A rid \in Inserted(t) : RowIn(log', rid, k).begin = cid[t]
                 /\ \A rid \in Deleted(t) : table'[rid].end = cid[t] => RowIn(log', rid, k).end = cid[t]
      <3>1. k = Len(log) + 1
        BY <2>6, Zenon
      <3> QED BY <1>l, <2>3, <2>5, <3>1, Zenon
    <2> QED BY <2>3, <2>4, <2>7, Zenon DEF Settled
  <1> QED BY <1>1, <1>2, Zenon DEF Waiting

(* Commit and rollback of one operation *)
LEMMA EndOpEnds ==
  ASSUME IInv, EndsOwned, NEW t \in Sessions, CommitOp(t) \/ RollbackOp(t), keptEnd' = keptEnd
  PROVE  EndsOwned'
  <1> DEFINE op == NextOp(t)
             r  == op.rid
  <1>1. /\ done[t] < Len(ops[t]) /\ pc[t] \in {"commit", "rollback"}
        /\ done' = [done EXCEPT ![t] = @ + 1] /\ ops' = ops /\ pc' = pc /\ id' = id
        /\ pc[t] = "rollback" => table' = RolledBack(op)
    BY Zenon DEF CommitOp, RollbackOp, NextOp, NextIndex
  <1>2. /\ op \in Op /\ op \in Pending(t)
        /\ \A s \in Sessions : s # t => Pending(s)' = Pending(s)
        /\ Pending(t)' \subseteq Pending(t)
        /\ pc[t] = "commit" /\ op.type = "DELETE" => \A p \in Pending(t)' : p.rid # r
        /\ \A p \in Pending(t)' : p.rid = r => p.type # op.type
    BY <1>1, OpHandled, Zenon
  <1>3. r \in Rids /\ \A q \in Rids : q # r => table'[q] = table[q]
    <2>1. PICK q : \/ CommitOp(t) /\ q = ops[t][done[t] + 1].rid
                   \/ RollbackOp(t) /\ q = ops[t][Len(ops[t]) - done[t]].rid
      BY Zenon
    <2> QED BY <2>1, RowHandled, Zenon
  <1>4. ASSUME NEW s \in Sessions, NEW p \in Pending(s)'
        PROVE  /\ keptEnd'[p.rid] = 0
               /\ p.type = "INSERT" => table'[p.rid].end = MaxTrxId \/ table'[p.rid].end = -id'[s]
    <2>1. p \in Pending(s)
      BY <1>2, Zenon
    <2>2. p.rid \in Rids /\ p.type \in {"INSERT", "DELETE"}
      BY <2>1, PendingFacts, Zenon DEF IInv, Op
    <2>3. /\ keptEnd[p.rid] = 0
          /\ p.type = "INSERT" => table[p.rid].end = MaxTrxId \/ table[p.rid].end = -id[s]
      BY <2>1, Zenon DEF EndsOwned
    <2>4. CASE p.rid # r
      BY <1>1, <1>3, <2>2, <2>3, <2>4, Zenon
    <2>5. CASE p.rid = r /\ p.type = "INSERT"
      <3>1. s = t
        BY <1>2, <2>1, <2>5, InvWriteExclusion, Zenon DEF WriteExclusion
      <3>2. op.type = "DELETE"
        BY <1>2, <2>5, <3>1, Zenon DEF Op
      <3>3. pc[t] = "rollback"
        BY <1>1, <1>2, <2>5, <3>1, <3>2, Zenon
      <3>4. table' = [table EXCEPT ![r].end = MaxTrxId]
        BY <1>1, <3>2, <3>3, Zenon DEF RolledBack
      <3>5. MaxTrxId \in Stamps
        BY Zenon DEF Stamps
      <3>6. table'[r].end = MaxTrxId
        BY <1>3, <3>4, <3>5, EndStamped, Zenon DEF IInv
      <3> QED BY <2>3, <2>5, <3>6, Zenon
    <2> QED BY <2>2, <2>3, <2>4, <2>5, Zenon
  <1> QED BY <1>4, Zenon DEF EndsOwned

LEMMA ChangeEnds ==
  ASSUME IInv, EndsOwned, KeptShape, ~SelfDeleteTwice, NEW t \in Sessions, NEW q \in Rids,
         Insert(t, q) \/ Delete(t, q), keptEnd' = [keptEnd EXCEPT ![q] = 0]
  PROVE  EndsOwned'
  <1>0. /\ keptEnd'[q] = 0
        /\ \A rid \in Rids : keptEnd[rid] = 0 => keptEnd'[rid] = 0
    BY Zenon DEF KeptShape
  <1>1. PICK type \in {"INSERT", "DELETE"} :
           /\ ops' = [ops EXCEPT ![t] = Append(@, [type |-> type, rid |-> q])]
           /\ pc[t] = "active" /\ pc' = pc /\ done' = done /\ id' = id
           /\ type = "INSERT" => Insert(t, q)
    BY Zenon DEF Insert, Delete
  <1> DEFINE op == [type |-> type, rid |-> q]
  <1>2. op \in Op /\ op.type = type /\ op.rid = q
    BY DEF Op
  <1> HIDE DEF op
  <1>3. /\ \A s \in Sessions : s # t => Pending(s)' = Pending(s)
        /\ Pending(t)' = Pending(t) \union {op}
    <2>1. ops' = [ops EXCEPT ![t] = Append(@, op)]
      BY <1>1, Zenon DEF op
    <2> QED BY <1>1, <1>2, <2>1, OpAppended, Zenon
  <1>4. /\ Insert(t, q) => table'[q].end = MaxTrxId
        /\ Delete(t, q) => table'[q].end = -id[t]
        /\ \A rid \in Rids : rid # q => table'[rid] = table[rid]
    BY RowChanged DEF Insert, Delete, IInv, TypeOK
  <1>5. ASSUME NEW s \in Sessions, NEW p \in Pending(s)
        PROVE  /\ keptEnd'[p.rid] = 0
               /\ p.type = "INSERT" => table'[p.rid].end = MaxTrxId \/ table'[p.rid].end = -id'[s]
    <2>1. p.rid \in Rids
      BY PendingFacts, Zenon DEF IInv, Op
    <2>2. /\ keptEnd[p.rid] = 0
          /\ p.type = "INSERT" => table[p.rid].end = MaxTrxId \/ table[p.rid].end = -id[s]
      BY Zenon DEF EndsOwned
    <2>3. p.rid = q => Delete(t, q) /\ s = t
      <3>1. CASE Insert(t, q)
        BY <3>1, InsertFree, Zenon
      <3>2. CASE Delete(t, q)
        <4>1. \A u \in Sessions : \A x \in Pending(u) : x \in Op /\ (x.rid = q => u = t /\ x.type = "INSERT")
          BY <3>2, DeleteFree, Zenon
        <4> QED BY <3>2, <4>1, Zenon
      <3> QED BY <3>1, <3>2, Zenon
    <2> QED BY <1>0, <1>1, <1>4, <2>1, <2>2, <2>3, Zenon
  <1>6. /\ keptEnd'[op.rid] = 0
        /\ op.type = "INSERT" => table'[op.rid].end = MaxTrxId \/ table'[op.rid].end = -id'[t]
    BY <1>0, <1>1, <1>2, <1>4, Zenon
  <1> QED BY <1>3, <1>5, <1>6, Zenon DEF EndsOwned

(* A step after which a session has no pending operation that it did not   *)
(* have before *)
LEMMA QuietEnds ==
  ASSUME EndsOwned, table' = table, keptEnd' = keptEnd,
         \A s \in Sessions : \A op \in Pending(s)' : op \in Pending(s) /\ id'[s] = id[s]
  PROVE  EndsOwned'
  BY Zenon DEF EndsOwned

(* A destroyed transaction has nothing pending. *)
LEMMA DestroyedPending ==
  ASSUME IInv, NEW t \in Sessions, Destroyed(t)
  PROVE  \A s \in Sessions : \A op \in Pending(s)' : s # t /\ op \in Pending(s) /\ id'[s] = id[s]
  <1>1. /\ pc'[t] = "idle" /\ ops'[t] = <<>> /\ done'[t] = 0
        /\ \A s \in Sessions : s # t => /\ pc'[s] = pc[s] /\ ops'[s] = ops[s] /\ done'[s] = done[s]
                                        /\ id'[s] = id[s]
    BY Zenon DEF Destroyed, IInv, TypeOK
  <1>2. Pending(t)' = {}
    BY <1>1 DEF Pending, Unhandled
  <1>3. ASSUME NEW s \in Sessions, s # t PROVE Pending(s)' = Pending(s)
    <2>1. Unhandled(s)' = Unhandled(s)
      BY <1>1, <1>3, Zenon DEF Unhandled
    <2> QED BY <1>1, <1>3, <2>1, Zenon DEF Pending
  <1> QED BY <1>1, <1>2, <1>3, Zenon

(* BEGIN, COMMIT and ROLLBACK change nothing that is pending. *)
LEMMA BegunPending ==
  ASSUME IInv, NEW t \in Sessions, Start(t) \/ (pc[t] = "active" /\ (CommitBegin(t) \/ RollbackBegin(t)))
  PROVE  \A s \in Sessions : \A op \in Pending(s)' : op \in Pending(s) /\ id'[s] = id[s]
  <1>1. /\ ops' = ops /\ done' = done /\ done[t] = 0 /\ pc[t] # "commit"
        /\ \A s \in Sessions : s # t => pc'[s] = pc[s] /\ id'[s] = id[s]
        /\ id'[t] = id[t] \/ ops[t] = <<>>
    BY Zenon DEF Start, CommitBegin, RollbackBegin, IInv, TypeOK, SessionShape
  <1>2. Unhandled(t)' = Unhandled(t)
    BY <1>1, PendingFacts DEF Unhandled, IInv
  <1>3. \A s \in Sessions : Pending(s)' = Pending(s)
    BY <1>1, <1>2, Zenon DEF Pending, Unhandled
  <1>4. ops[t] = <<>> => Pending(t) = {}
    BY <1>1 DEF Pending, Unhandled
  <1> QED BY <1>1, <1>3, <1>4, Zenon

LEMMA LoggingEnds ==
  ASSUME Acked, ~SelfDeleteTwice, NEW t \in Sessions,
         \/ LogOp(t) \/ EndOp(t) \/ LogCommit(t) \/ EndRollback(t)
         \/ \E rid \in Rids : ChangeRow(t, rid)
  PROVE  EndsOwned'
  <1>0. IInv /\ EndsOwned /\ KeptShape
    BY Zenon DEF Acked, Redo, Base
  <1>1. CASE LogOp(t) \/ LogCommit(t)
    <2>1. UNCHANGED <<table, pc, ops, done, id, keptEnd>>
      BY <1>1, Zenon DEF LogOp, LogCommit, vars, trxVars, histVars
    <2>2. \A s \in Sessions : Pending(s)' = Pending(s)
      BY <2>1, Zenon DEF Pending, Unhandled
    <2> QED BY <1>0, <2>1, <2>2, QuietEnds, Zenon
  <1>2. CASE EndOp(t)
    BY <1>0, <1>2, EndOpEnds, Zenon DEF EndOp, histVars
  <1>3. CASE EndRollback(t)
    <2>1. Destroyed(t) /\ table' = table /\ keptEnd' = keptEnd
      BY <1>3, Zenon DEF EndRollback, RollbackEnd, histVars
    <2> QED BY <1>0, <2>1, DestroyedPending, QuietEnds, Zenon
  <1>4. ASSUME NEW rid \in Rids, ChangeRow(t, rid) PROVE EndsOwned'
    BY <1>0, <1>4, ChangeEnds, Zenon DEF ChangeRow
  <1> QED BY <1>1, <1>2, <1>3, <1>4, Zenon

(* A step that changes neither the log nor the rows nor what was kept, and *)
(* no session that waits for the log *)
LEMMA QuietAcked ==
  ASSUME Acked, UNCHANGED <<log, table, lsn, keptBegin, keptEnd>>,
         durable' \in Nat, durable <= durable',
         \A s \in Sessions : lsn[s] > 0 => /\ pc'[s] = pc[s] /\ ops'[s] = ops[s]
                                           /\ cid'[s] = cid[s] /\ done'[s] = done[s]
  PROVE  Waiting' /\ KeptShape' /\ KeptLogged'
  <1>0. Base /\ Waiting /\ KeptShape /\ KeptLogged
    BY Zenon DEF Acked, Redo
  <1>1. ASSUME NEW s \in Sessions, lsn[s] > 0 PROVE Settled(s)'
    <2>1. pc'[s] = pc[s] /\ ops'[s] = ops[s] /\ cid'[s] = cid[s] /\ done'[s] = done[s]
      BY <1>1, Zenon
    <2>2. Inserted(s)' = Inserted(s) /\ Deleted(s)' = Deleted(s)
      BY <2>1, Zenon DEF Inserted, Deleted
    <2>3. Settled(s)
      BY <1>0, <1>1, Zenon DEF Waiting
    <2> QED BY <2>1, <2>2, <2>3, Zenon DEF Settled
  <1>2. \A k \in durable'..Len(log) : k \in durable..Len(log)
    BY <1>0, LogFacts
  <1> QED BY <1>0, <1>1, <1>2, Zenon DEF Waiting, KeptShape, KeptLogged

LEMMA AckAcked ==
  ASSUME Acked, NEW t \in Sessions, AckCommit(t)
  PROVE  Waiting' /\ KeptShape' /\ KeptLogged' /\ EndsOwned'
  <1>0. Base /\ IInv /\ LogShape /\ Waiting /\ KeptShape /\ KeptLogged /\ EndsOwned
    BY Zenon DEF Acked, Redo, Base
  <1>1. /\ lsn[t] > 0 /\ lsn[t] <= durable /\ Destroyed(t) /\ UNCHANGED <<log, durable, table>>
        /\ lsn' = [lsn EXCEPT ![t] = 0]
        /\ keptBegin' = [rid \in Rids |-> IF rid \in Inserted(t) THEN cid[t] ELSE keptBegin[rid]]
        /\ keptEnd' = [rid \in Rids |-> IF rid \in Deleted(t) /\ table[rid].end = cid[t]
                                        THEN cid[t] ELSE keptEnd[rid]]
    BY Zenon DEF AckCommit, CommitEnd, Acknowledge
  <1>2. Settled(t) /\ cid[t] \in Nat /\ lsn[t] \in Nat
    BY <1>0, <1>1 DEF Waiting, IInv, TypeOK, LogShape
  <1>3. /\ Inserted(t) \subseteq Rids /\ Deleted(t) \subseteq Rids
        /\ \A rid \in Inserted(t) \union Deleted(t) : cid[t] > 0 /\ cid[t] \in 1..MaxId
    BY <1>0, <1>2, CommittedRows, Zenon DEF Settled
  <1>4. KeptShape'
    BY <1>0, <1>1, <1>2, Zenon DEF KeptShape
  <1>5. ASSUME NEW rid \in Rids, NEW k \in durable..Len(log)
        PROVE  /\ keptBegin'[rid] > 0 => RowIn(log, rid, k).begin = keptBegin'[rid]
               /\ keptEnd'[rid] > 0 => RowIn(log, rid, k).end = keptEnd'[rid]
    <2>1. k \in lsn[t]..Len(log)
      <3>1. durable \in Nat /\ Len(log) \in Nat
        BY <1>0, LogFacts, Zenon
      <3> QED BY ONLY <1>1, <1>2, <3>1, k \in durable..Len(log)
    <2>2. /\ keptBegin[rid] > 0 => RowIn(log, rid, k).begin = keptBegin[rid]
          /\ keptEnd[rid] > 0 => RowIn(log, rid, k).end = keptEnd[rid]
      BY <1>0, Zenon DEF KeptLogged
    <2>3. /\ rid \in Inserted(t) => RowIn(log, rid, k).begin = cid[t]
          /\ rid \in Deleted(t) /\ table[rid].end = cid[t] => RowIn(log, rid, k).end = cid[t]
      BY <1>2, <2>1, Zenon DEF Settled
    <2> QED BY <1>1, <2>2, <2>3, Zenon
  <1>6. KeptLogged'
    BY <1>1, <1>5, Zenon DEF KeptLogged
  <1>7. ASSUME NEW s \in Sessions, lsn'[s] > 0 PROVE Settled(s)'
    <2>1. s # t /\ lsn'[s] = lsn[s]
      BY <1>0, <1>1, <1>7 DEF LogShape
    <2>2. pc'[s] = pc[s] /\ ops'[s] = ops[s] /\ cid'[s] = cid[s] /\ done'[s] = done[s]
      BY <1>0, <1>1, <2>1, Zenon DEF Destroyed, IInv, TypeOK
    <2>3. Inserted(s)' = Inserted(s) /\ Deleted(s)' = Deleted(s)
      BY <2>2, Zenon DEF Inserted, Deleted
    <2>4. Settled(s)
      BY <1>0, <1>7, <2>1, Zenon DEF Waiting
    <2> QED BY <1>1, <2>1, <2>2, <2>3, <2>4, Zenon DEF Settled
  <1>8. ASSUME NEW s \in Sessions, NEW op \in Pending(s)'
        PROVE  /\ keptEnd'[op.rid] = 0
               /\ op.type = "INSERT" => table'[op.rid].end = MaxTrxId \/ table'[op.rid].end = -id'[s]
    <2>1. s # t /\ op \in Pending(s) /\ id'[s] = id[s]
      BY <1>0, <1>1, DestroyedPending, Zenon
    <2>2. /\ keptEnd[op.rid] = 0
          /\ op.type = "INSERT" => table[op.rid].end = MaxTrxId \/ table[op.rid].end = -id[s]
      BY <1>0, <2>1, Zenon DEF EndsOwned
    <2>3. table[op.rid].end = MaxTrxId \/ table[op.rid].end = -id[s]
      BY <1>0, <2>1, <2>2, Zenon DEF IInv, PendingOwned
    <2>4. op.rid \in Rids /\ id[s] \in 1..current_trx_id /\ current_trx_id \in 0..MaxId
      BY <1>0, <2>1, PendingFacts, PendingStarted, Zenon DEF IInv, Op, TypeOK
    <2>5. op.rid \in Deleted(t) => table[op.rid].end # cid[t]
      <3>1. op.rid \in Deleted(t) => cid[t] \in 1..MaxId
        BY <1>3, Zenon
      <3> QED BY ONLY <2>3, <2>4, <3>1, MvccTrxAssumption
    <2> QED BY <1>1, <2>1, <2>2, <2>4, <2>5, Zenon
  <1> QED BY <1>4, <1>6, <1>7, <1>8, Zenon DEF Waiting, EndsOwned

LEMMA CrashAcked ==
  ASSUME Acked, Crash
  PROVE  Waiting' /\ KeptShape' /\ KeptLogged' /\ EndsOwned'
  <1>0. Base /\ LogShape /\ KeptShape /\ KeptLogged
    BY Zenon DEF Acked, Redo, Base
  <1>1. /\ durable \in Nat /\ Len(log') = durable /\ \A i \in 1..durable : log'[i] = log[i]
    BY <1>0, LogFacts DEF Crash, LogShape
  <1>2. \A rid \in Rids : RowIn(log', rid, durable) = RowIn(log, rid, durable)
    BY ONLY <1>1, SamePrefixRow
  <1>3. durable' = durable /\ keptBegin' = keptBegin /\ keptEnd' = keptEnd
    BY Zenon DEF Crash
  <1>4. durable \in durable..Len(log) /\ \A k \in durable..durable : k = durable
    BY <1>0, LogFacts
  <1>5. KeptLogged' /\ KeptShape'
    <2>1. ASSUME NEW rid \in Rids, NEW k \in durable..durable
          PROVE  /\ keptBegin[rid] > 0 => RowIn(log', rid, k).begin = keptBegin[rid]
                 /\ keptEnd[rid] > 0 => RowIn(log', rid, k).end = keptEnd[rid]
      <3>1. k = durable
        BY <1>4, Zenon
      <3> QED BY <1>0, <1>2, <1>4, <3>1, Zenon DEF KeptLogged
    <2> QED BY <1>0, <1>1, <1>3, <2>1, Zenon DEF KeptLogged, KeptShape
  <1>6. Waiting'
    BY DEF Crash, Waiting
  <1>7. \A s \in Sessions : Pending(s)' = {}
    BY DEF Crash, Pending, Unhandled
  <1> QED BY <1>5, <1>6, <1>7, Zenon DEF EndsOwned

LEMMA AckedInit == RInit => Acked
  <1> SUFFICES ASSUME RInit PROVE Acked
    OBVIOUS
  <1>1. Redo
    BY RedoInit, Zenon
  <1>2. Waiting /\ KeptShape /\ KeptLogged
    BY DEF RInit, Waiting, KeptShape, KeptLogged
  <1>3. \A s \in Sessions : Pending(s) = {}
    <2>1. \A s \in Sessions : pc[s] = "idle" /\ ops[s] = <<>> /\ done[s] = 0
      BY Zenon DEF RInit, Init
    <2>2. \A s \in Sessions : Unhandled(s) = {}
      <3>1. \A s \in Sessions : Unhandled(s) = 1..0 - 0
        BY <2>1, Zenon DEF Unhandled
      <3>2. (1..0 - 0) = {}
        OBVIOUS
      <3> QED BY <3>1, <3>2, Zenon
    <2> QED BY <2>2, Zenon DEF Pending
  <1> QED BY <1>1, <1>2, <1>3, Zenon DEF Acked, EndsOwned

LEMMA AckedNext ==
  ASSUME ~SelfDeleteTwice, QuietSync
  PROVE  Acked /\ [RNext]_rvars => Acked'
  <1> SUFFICES ASSUME Acked, [RNext]_rvars PROVE Acked'
    OBVIOUS
  <1>0. Redo /\ Base /\ IInv /\ LogShape /\ Waiting /\ EndsOwned /\ Redo'
    BY RedoNext, Zenon DEF Acked, Redo, Base
  <1>b. IInv'
    BY <1>0, Zenon DEF Redo, Base
  <1> SUFFICES Waiting' /\ KeptShape' /\ KeptLogged' /\ EndsOwned'
    BY <1>0, Zenon DEF Acked
  <1>1. ASSUME NEW s \in Sessions,
               \/ LogOp(s) \/ EndOp(s) \/ LogCommit(s) \/ EndRollback(s)
               \/ \E rid \in Rids : ChangeRow(s, rid)
        PROVE  Waiting' /\ KeptShape' /\ KeptLogged' /\ EndsOwned'
    <2>1. PICK e \in Entry : Logs(e)
      BY <1>0, <1>1, <1>b, LoggingSteps, Zenon
    <2>2. KeptShape' /\ KeptLogged'
      BY <1>1, <2>1, LoggingKept, Zenon
    <2>3. Waiting'
      BY <1>1, <2>1, LoggingWaits, Zenon
    <2>4. EndsOwned'
      BY <1>1, LoggingEnds, Zenon
    <2> QED BY <2>2, <2>3, <2>4, Zenon
  <1>2. ASSUME NEW s \in Sessions, StartTrx(s) \/ BeginEnd(s) \/ Disconnect(s)
        PROVE  Waiting' /\ KeptShape' /\ KeptLogged' /\ EndsOwned'
    <2>1. UNCHANGED <<log, durable, table, lsn, keptBegin, keptEnd>>
      BY <1>2, Zenon DEF StartTrx, BeginEnd, Disconnect, Start, CommitBegin, RollbackBegin, Abandon,
                         logVars, histVars
    <2>2. durable \in Nat /\ durable' \in Nat /\ durable <= durable'
      BY <1>0, <2>1, LogFacts
    <2>3. pc[s] # "commit"
      BY <1>2, Zenon DEF StartTrx, BeginEnd, Disconnect, Start, Abandon
    <2>4. \A t \in Sessions : lsn[t] > 0 => /\ pc'[t] = pc[t] /\ ops'[t] = ops[t]
                                            /\ cid'[t] = cid[t] /\ done'[t] = done[t]
      <3>1. \A t \in Sessions : lsn[t] > 0 => t # s
        BY <1>0, <2>3, Zenon DEF Waiting, Settled
      <3>2. \A t \in Sessions : t # s => /\ pc'[t] = pc[t] /\ ops'[t] = ops[t]
                                         /\ cid'[t] = cid[t] /\ done'[t] = done[t]
        BY <1>0, <1>2, Zenon DEF StartTrx, BeginEnd, Disconnect, Start, CommitBegin, RollbackBegin,
                                 Abandon, Destroyed, IInv, TypeOK
      <3> QED BY <3>1, <3>2, Zenon
    <2>5. \A t \in Sessions : \A op \in Pending(t)' : op \in Pending(t) /\ id'[t] = id[t]
      <3>1. CASE StartTrx(s) \/ BeginEnd(s)
        BY <1>0, <3>1, BegunPending, Zenon DEF StartTrx, BeginEnd
      <3>2. CASE Disconnect(s)
        BY <1>0, <3>2, DestroyedPending, Zenon DEF Disconnect, Abandon
      <3> QED BY <1>2, <3>1, <3>2, Zenon
    <2>6. Waiting' /\ KeptShape' /\ KeptLogged'
      BY <2>1, <2>2, <2>4, QuietAcked, Zenon
    <2>7. EndsOwned'
      BY <1>0, <2>1, <2>5, QuietEnds, Zenon
    <2> QED BY <2>6, <2>7, Zenon
  <1>3. CASE \/ FlushLog \/ (\E rid \in Rids : FlushPage(rid) \/ SyncPage(rid))
             \/ SyncBegin \/ SyncLsn \/ SyncMeta \/ UNCHANGED rvars
    <2>1. UNCHANGED <<log, table, pc, ops, cid, done, id, lsn, keptBegin, keptEnd>>
      BY <1>3, Zenon DEF FlushLog, FlushPage, SyncPage, SyncBegin, SyncLsn, SyncMeta, rvars, vars, trxVars,
                         logVars, histVars
    <2>2. durable' = durable \/ durable' = durable + 1
      BY <1>3, Zenon DEF FlushLog, FlushPage, SyncPage, SyncBegin, SyncLsn, SyncMeta, rvars, logVars
    <2>3. durable' \in Nat /\ durable <= durable'
      <3>1. durable \in Nat
        BY <1>0, LogFacts, Zenon
      <3> QED BY ONLY <2>2, <3>1
    <2>4. \A t \in Sessions : Pending(t)' = Pending(t)
      BY <2>1, Zenon DEF Pending, Unhandled
    <2>5. Waiting' /\ KeptShape' /\ KeptLogged'
      BY <2>1, <2>3, QuietAcked, Zenon
    <2>6. EndsOwned'
      BY <1>0, <2>1, <2>4, QuietEnds, Zenon
    <2> QED BY <2>5, <2>6, Zenon
  <1>4. ASSUME NEW s \in Sessions, AckCommit(s) PROVE Waiting' /\ KeptShape' /\ KeptLogged' /\ EndsOwned'
    BY <1>4, AckAcked, Zenon
  <1>5. CASE Crash
    BY <1>5, CrashAcked, Zenon
  <1> QED BY <1>1, <1>2, <1>3, <1>4, <1>5, Zenon DEF RNext

(* The stamps that an answered COMMIT left in its rows are there after any *)
(* number of crashes and recoveries; the stamp of a deletion until another *)
(* transaction deletes the row anew.                                       *)
THEOREM AckedCommitsKept ==
  ASSUME ~SelfDeleteTwice, QuietSync
  PROVE  RSpec => []AckedKept
  <1>1. Acked => AckedKept
    BY KeptNow, Zenon DEF Acked, Redo
  <1> QED BY <1>1, AckedInit, AckedNext, PTL DEF RSpec
=============================================================================
