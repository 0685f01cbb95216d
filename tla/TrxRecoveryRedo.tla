-------------------------- MODULE TrxRecoveryRedo ---------------------------
(***************************************************************************)
(* Redo: the rows that a log gives, the types of the state of TrxRecovery, *)
(* and that redo from the checkpoint onto the pages gives the rows back,   *)
(* for every set of sessions and slots, every bound and every number of    *)
(* crashes. The last entry that changes a row is found by Max, whose value *)
(* follows from the least number of a set.                                 *)
(***************************************************************************)
EXTENDS MvccTrxProofs, TrxRecovery, WellFoundedInduction

(* The largest member of a set *)

LEMMA LeastNat ==
  ASSUME NEW T, T \subseteq Nat, T # {}
  PROVE  \E x \in T : \A y \in T : x <= y
  <1>1. \E x \in T : \A y \in T : ~(<<y, x>> \in OpToRel(<, Nat))
    BY NatLessThanWellFounded, WFMin, Zenon
  <1>2. ASSUME NEW x \in Nat, NEW y \in Nat, ~(<<y, x>> \in OpToRel(<, Nat)) PROVE x <= y
    BY <1>2 DEF OpToRel
  <1> QED BY <1>1, <1>2, Zenon

LEMMA MaxOfBounded ==
  ASSUME NEW S, S \subseteq Nat, S # {}, NEW b \in Nat, \A x \in S : x <= b
  PROVE  Max(S) \in S /\ \A y \in S : y <= Max(S)
  <1> DEFINE T == {n \in Nat : \E x \in S : n = b - x}
  <1>1. T \subseteq Nat
    OBVIOUS
  <1>2. T # {}
    <2>1. PICK x : x \in S
      OBVIOUS
    <2>2. b - x \in Nat
      BY <2>1
    <2> QED BY <2>1, <2>2
  <1>3. PICK t \in T : \A y \in T : t <= y
    BY <1>1, <1>2, LeastNat, Zenon
  <1>4. PICK m \in S : t = b - m
    OBVIOUS
  <1>5. ASSUME NEW y \in S PROVE m >= y
    <2>1. b - y \in T
      OBVIOUS
    <2>2. b - m <= b - y /\ m \in Nat /\ y \in Nat
      BY <1>3, <1>4, <2>1, Zenon
    <2> QED BY ONLY <2>2, b \in Nat
  <1>6. Max(S) \in S /\ \A y \in S : Max(S) >= y
    BY <1>5, Zenon DEF Max
  <1> QED BY <1>6

LEMMA MaxIsUnique ==
  ASSUME NEW S, S \subseteq Nat, NEW m \in S, \A y \in S : y <= m
  PROVE  Max(S) = m
  <1> DEFINE x == Max(S)
  <1>1. x \in S /\ \A y \in S : x >= y
    <2>1. \A y \in S : m >= y
      OBVIOUS
    <2> QED BY <2>1, Zenon DEF Max
  <1>2. x >= m /\ x <= m /\ x \in Nat /\ m \in Nat
    BY <1>1, Zenon
  <1> HIDE DEF x
  <1>3. x = m
    BY ONLY <1>2
  <1> QED BY <1>3, Zenon DEF x

-----------------------------------------------------------------------------
(* The last change of a row in a log lg *)

Touches(e, rid)       == e.kind = "RECORD" /\ e.rid = rid
Hits(lg, rid, a, b)   == {i \in a..b : lg[i].kind = "RECORD" /\ lg[i].rid = rid}
LastIn(lg, rid, a, b) == Max({0} \union Hits(lg, rid, a, b))
RowIn(lg, rid, k)     == IF LastIn(lg, rid, 1, k) = 0 THEN NoRecord ELSE lg[LastIn(lg, rid, 1, k)].row

(* Redo of the entries a..k of lg onto a page *)
Redone(lg, rid, a, k, page) ==
  IF LastIn(lg, rid, a, k) = 0 THEN page ELSE lg[LastIn(lg, rid, a, k)].row

LEMMA HitFacts ==
  ASSUME NEW lg, NEW rid, NEW a \in Nat \ {0}, NEW b \in Nat
  PROVE  /\ {0} \union Hits(lg, rid, a, b) \subseteq Nat
         /\ \A i : i \in Hits(lg, rid, a, b) <=> i \in Nat /\ a <= i /\ i <= b /\ Touches(lg[i], rid)
  BY DEF Hits, Touches

LEMMA LastInIs ==
  ASSUME NEW lg, NEW rid, NEW a \in Nat \ {0}, NEW b \in Nat
  PROVE  /\ LastIn(lg, rid, a, b) \in Nat
         /\ LastIn(lg, rid, a, b) = 0 \/ LastIn(lg, rid, a, b) \in Hits(lg, rid, a, b)
         /\ \A i \in Hits(lg, rid, a, b) : i <= LastIn(lg, rid, a, b)
  <1> DEFINE S == {0} \union Hits(lg, rid, a, b)
  <1>1. S \subseteq Nat /\ S # {} /\ \A x \in S : x <= b
    BY HitFacts DEF Hits
  <1>2. Max(S) \in S /\ \A y \in S : y <= Max(S)
    BY <1>1, MaxOfBounded, Zenon
  <1> QED BY <1>1, <1>2, Zenon DEF LastIn

LEMMA LastInUnique ==
  ASSUME NEW lg, NEW rid, NEW a \in Nat \ {0}, NEW b \in Nat, NEW l,
         l = 0 \/ l \in Hits(lg, rid, a, b), \A i \in Hits(lg, rid, a, b) : i <= l
  PROVE  LastIn(lg, rid, a, b) = l
  <1> DEFINE S == {0} \union Hits(lg, rid, a, b)
  <1>1. S \subseteq Nat /\ l \in S
    BY HitFacts, Zenon
  <1>2. \A y \in S : y <= l
    BY <1>1
  <1> QED BY <1>1, <1>2, MaxIsUnique, Zenon DEF LastIn

(* It depends on the entries in the range only. *)
LEMMA SamePrefix ==
  ASSUME NEW lg, NEW lh, NEW rid, NEW a \in Nat \ {0}, NEW b \in Nat, \A i \in a..b : lh[i] = lg[i]
  PROVE  LastIn(lh, rid, a, b) = LastIn(lg, rid, a, b)
  <1>1. Hits(lh, rid, a, b) = Hits(lg, rid, a, b)
    BY Zenon DEF Hits
  <1> QED BY <1>1, Zenon DEF LastIn

LEMMA SamePrefixRow ==
  ASSUME NEW lg, NEW lh, NEW rid, NEW k \in Nat, \A i \in 1..k : lh[i] = lg[i]
  PROVE  RowIn(lh, rid, k) = RowIn(lg, rid, k)
  <1>1. LastIn(lh, rid, 1, k) = LastIn(lg, rid, 1, k)
    BY SamePrefix
  <1>2. LastIn(lg, rid, 1, k) = 0 \/ LastIn(lg, rid, 1, k) \in 1..k
    BY LastInIs DEF Hits
  <1> QED BY <1>1, <1>2, Zenon DEF RowIn

(* One entry more *)
LEMMA OneMore ==
  ASSUME NEW lg, NEW rid, NEW a \in Nat \ {0}, NEW b \in Nat, a <= b + 1
  PROVE  LastIn(lg, rid, a, b + 1) = IF Touches(lg[b + 1], rid) THEN b + 1 ELSE LastIn(lg, rid, a, b)
  <1>1. CASE Touches(lg[b + 1], rid)
    <2>1. b + 1 \in Hits(lg, rid, a, b + 1) /\ \A i \in Hits(lg, rid, a, b + 1) : i <= b + 1
      BY <1>1 DEF Hits, Touches
    <2> QED BY <1>1, <2>1, LastInUnique, b + 1 \in Nat, Zenon
  <1>2. CASE ~Touches(lg[b + 1], rid)
    <2>1. Hits(lg, rid, a, b + 1) = Hits(lg, rid, a, b)
      BY <1>2 DEF Hits, Touches
    <2> QED BY <1>2, <2>1, Zenon DEF LastIn
  <1> QED BY <1>1, <1>2, Zenon

LEMMA OneMoreRow ==
  ASSUME NEW lg, NEW rid, NEW b \in Nat
  PROVE  RowIn(lg, rid, b + 1) = IF Touches(lg[b + 1], rid) THEN lg[b + 1].row ELSE RowIn(lg, rid, b)
  BY OneMore DEF RowIn

(* Without a change after d the log may as well end there. *)
LEMMA NothingAfter ==
  ASSUME NEW lg, NEW rid, NEW n \in Nat, NEW d \in Nat, d <= n, LastIn(lg, rid, 1, n) <= d
  PROVE  RowIn(lg, rid, d) = RowIn(lg, rid, n)
  <1> DEFINE l == LastIn(lg, rid, 1, n)
  <1>1. l \in Nat /\ (l = 0 \/ l \in Hits(lg, rid, 1, n)) /\ \A i \in Hits(lg, rid, 1, n) : i <= l
    BY LastInIs
  <1>2. (l = 0 \/ l \in Hits(lg, rid, 1, d)) /\ \A i \in Hits(lg, rid, 1, d) : i <= l
    BY <1>1 DEF Hits
  <1>3. LastIn(lg, rid, 1, d) = l
    BY <1>2, LastInUnique, 1 \in Nat \ {0}
  <1> QED BY <1>3, Zenon DEF RowIn

(* Redo from entry a onto a page that is right up to d gives the row that  *)
(* redo from the start gives.                                              *)
LEMMA RedoFrom ==
  ASSUME NEW lg, NEW rid, NEW a \in Nat \ {0}, NEW d \in Nat, NEW k \in Nat, a <= d + 1, d <= k,
         NEW page, LastIn(lg, rid, a, d) = 0 => page = RowIn(lg, rid, d)
  PROVE  Redone(lg, rid, a, k, page) = RowIn(lg, rid, k)
  <1> DEFINE l == LastIn(lg, rid, a, k)
  <1>1. l \in Nat /\ (l = 0 \/ l \in Hits(lg, rid, a, k)) /\ \A i \in Hits(lg, rid, a, k) : i <= l
    BY LastInIs
  <1>2. CASE l = 0
    <2>1. Hits(lg, rid, a, k) = {}
      BY <1>1, <1>2, HitFacts
    <2>2. Hits(lg, rid, a, d) = {}
      BY <2>1 DEF Hits
    <2>3. LastIn(lg, rid, a, d) = 0
      BY <2>2, LastInIs
    <2>4. LastIn(lg, rid, 1, k) <= d
      <3>1. LastIn(lg, rid, 1, k) = 0 \/ LastIn(lg, rid, 1, k) \in Hits(lg, rid, 1, k)
        BY LastInIs
      <3> QED BY <2>1, <3>1 DEF Hits
    <2>5. page = RowIn(lg, rid, k)
      BY <2>3, <2>4, NothingAfter
    <2> QED BY <1>2, <2>5, Zenon DEF Redone
  <1>3. CASE l # 0
    <2>1. l \in Hits(lg, rid, 1, k) /\ \A i \in Hits(lg, rid, 1, k) : i <= l
      BY <1>1, <1>3 DEF Hits
    <2>2. LastIn(lg, rid, 1, k) = l
      BY <2>1, LastInUnique, 1 \in Nat \ {0}
    <2> QED BY <1>3, <2>2, Zenon DEF RowIn, Redone
  <1> QED BY <1>2, <1>3, Zenon

-----------------------------------------------------------------------------
(* The shape of the log and the pages *)

(* A row as the log and the pages may have it; compare RowShape. *)
ShapedRow ==
  {row \in [begin : Stamps, end : Stamps] : row.begin < 0 /\ row.end < 0 => row.begin = row.end}

Entry == [kind : {"RECORD"}, rid : Rids, row : ShapedRow] \union
         [kind : {"INSERT", "DELETE", "COMMIT", "ROLLBACK"}, trx : 1..MaxId]

LogShape ==
  /\ log \in Seq(Entry)
  /\ durable \in Nat /\ ckpt \in Nat /\ mark \in Nat
  /\ ckpt <= durable /\ durable <= Len(log) /\ mark <= Len(log)
  /\ lsn \in [Sessions -> Nat] /\ \A s \in Sessions : lsn[s] <= Len(log)

PageShape == pages \in [Rids -> ShapedRow] /\ todo \subseteq Rids

(* A transaction that is not idle has an id, and one that has a change to  *)
(* log has an operation.                                                   *)
TrxShape ==
  /\ \A s \in Sessions : pc[s] # "idle" => Started(s)
  /\ unlogged \subseteq Sessions
  /\ \A s \in unlogged : pc[s] = "active" /\ ops[s] # <<>>

Base == IInv /\ LogShape /\ PageShape /\ TrxShape

LEMMA EntryFacts ==
  /\ \A rid \in Rids, row \in ShapedRow : RecordEntry(rid, row) \in Entry
  /\ \A kind \in {"INSERT", "DELETE", "COMMIT", "ROLLBACK"}, trx \in 1..MaxId :
       TrxEntry(kind, trx) \in Entry /\ \A rid : ~Touches(TrxEntry(kind, trx), rid)
  /\ \A rid \in Rids : \A row, q : /\ Touches(RecordEntry(rid, row), q) <=> q = rid
                                   /\ RecordEntry(rid, row).row = row
  /\ \A e \in Entry : IF e.kind = "RECORD" THEN e.rid \in Rids /\ e.row \in ShapedRow
                                           ELSE e.trx \in 1..MaxId
  BY DEF RecordEntry, TrxEntry, Entry, Touches

(* The log after an entry was appended *)
LEMMA Appended ==
  ASSUME LogShape, NEW e \in Entry, log' = Append(log, e)
  PROVE  /\ log' \in Seq(Entry) /\ Len(log) \in Nat /\ Len(log') = Len(log) + 1
         /\ \A i \in 1..Len(log) : log'[i] = log[i]
         /\ log'[Len(log) + 1] = e
  BY DEF LogShape

LEMMA AppendShape ==
  ASSUME LogShape, NEW e \in Entry, log' = Append(log, e), UNCHANGED <<durable, ckpt, mark>>,
         lsn' \in [Sessions -> Nat], \A s \in Sessions : lsn'[s] <= Len(log) + 1
  PROVE  LogShape'
  <1>1. log' \in Seq(Entry) /\ Len(log) \in Nat /\ Len(log') = Len(log) + 1
    BY Appended, Zenon
  <1> QED BY <1>1 DEF LogShape

LEMMA LsnKept ==
  ASSUME LogShape, lsn' = lsn
  PROVE  lsn' \in [Sessions -> Nat] /\ \A s \in Sessions : lsn'[s] <= Len(log) + 1
  BY DEF LogShape

(* The steps of RSpec, other than a crash, are steps of MvccTrx. *)
LEMMA MvccStep == ASSUME [RNext]_rvars, ~Crash PROVE [Next]_vars
  <1>1. ASSUME NEW s \in Sessions,
               \/ StartTrx(s) \/ BeginEnd(s) \/ EndOp(s) \/ AckCommit(s) \/ EndRollback(s)
               \/ Disconnect(s) \/ \E rid \in Rids : ChangeRow(s, rid)
        PROVE  [Next]_vars
    BY <1>1, Zenon DEF StartTrx, BeginEnd, EndOp, AckCommit, EndRollback, Disconnect, ChangeRow,
                       Next, SessionStep
  <1>2. ASSUME NEW s \in Sessions, LogOp(s) \/ LogCommit(s) PROVE UNCHANGED vars
    BY <1>2, Zenon DEF LogOp, LogCommit
  <1>3. ASSUME \/ FlushLog \/ \E rid \in Rids : FlushPage(rid) \/ SyncPage(rid)
               \/ SyncBegin \/ SyncLsn \/ SyncMeta
        PROVE  UNCHANGED vars
    BY <1>3, Zenon DEF FlushLog, FlushPage, SyncPage, SyncBegin, SyncLsn, SyncMeta
  <1>4. UNCHANGED rvars => UNCHANGED vars
    BY Zenon DEF rvars
  <1> QED BY <1>1, <1>2, <1>3, <1>4, Zenon DEF RNext

(* Rows have their shape in memory too. *)
LEMMA TableShaped == IInv => table \in [Rids -> ShapedRow]
  <1> SUFFICES ASSUME IInv PROVE table \in [Rids -> ShapedRow]
    OBVIOUS
  <1>1. table \in [Rids -> [begin : Stamps, end : Stamps]]
    BY Zenon DEF IInv, TypeOK
  <1>2. \A rid \in Rids : table[rid] \in ShapedRow
    BY <1>1, Zenon DEF IInv, RowShape, ShapedRow
  <1> QED BY <1>1, <1>2, Zenon

LEMMA TrxIds ==
  ASSUME Base, NEW s \in Sessions, pc[s] # "idle"
  PROVE  id[s] \in 1..MaxId
  <1>1. id[s] \in 1..current_trx_id /\ current_trx_id \in 0..MaxId
    BY Zenon DEF Base, TrxShape, IInv, IdsDistinct, TypeOK
  <1> QED BY <1>1, MvccTrxAssumption

LEMMA TableShapedNext == IInv' => table' \in [Rids -> ShapedRow]
  <1>1. (IInv => table \in [Rids -> ShapedRow])'
    BY TableShaped, PTL
  <1> QED BY <1>1, Zenon

(* The row that a step of a commit or of a rollback changes *)
LEMMA RowHandled ==
  ASSUME IInv, NEW s \in Sessions, NEW r,
         \/ CommitOp(s) /\ r = ops[s][done[s] + 1].rid
         \/ RollbackOp(s) /\ r = ops[s][Len(ops[s]) - done[s]].rid
  PROVE  /\ r = NextOp(s).rid /\ r \in Rids
         /\ NextOp(s) \in Op /\ NextOp(s) \in Pending(s)
         /\ \A q \in Rids : q # r => table'[q] = table[q]
  <1>1. /\ pc[s] \in {"commit", "rollback"} /\ done[s] < Len(ops[s])
        /\ done' = [done EXCEPT ![s] = @ + 1] /\ ops' = ops /\ pc' = pc
        /\ table' = Committed(s, NextOp(s)) \/ table' = RolledBack(NextOp(s))
        /\ r = NextOp(s).rid
    BY Zenon DEF CommitOp, RollbackOp, NextOp, NextIndex
  <1>2. NextOp(s) \in Op /\ NextOp(s) \in Pending(s)
    BY <1>1, OpHandled, Zenon
  <1>3. r \in Rids
    BY <1>1, <1>2, Zenon DEF Op
  <1>4. \A q \in Rids : q # r => table'[q] = table[q]
    BY <1>1, <1>3, Zenon DEF Committed, RolledBack, IInv, TypeOK
  <1> QED BY <1>1, <1>2, <1>3, <1>4, Zenon

LEMMA RowChanged ==
  ASSUME IInv, NEW s \in Sessions, NEW r \in Rids, Insert(s, r) \/ Delete(s, r)
  PROVE  \A q \in Rids : q # r => table'[q] = table[q]
  BY Zenon DEF Insert, Delete, IInv, TypeOK

(* Every step that appends to the log logs what it does to the rows. *)
RowsFollow(e) == \A q \in Rids : table'[q] = IF Touches(e, q) THEN e.row ELSE table[q]

Logs(e) == log' = Append(log, e) /\ RowsFollow(e) /\ UNCHANGED <<durable, ckpt, mark, pages, sync, todo>>

LEMMA RowStepLogs ==
  ASSUME IInv', NEW r \in Rids, LogRow(r), \A q \in Rids : q # r => table'[q] = table[q],
         UNCHANGED <<durable, ckpt, mark, pages, sync, todo>>
  PROVE  \E e \in Entry : Logs(e)
  <1> DEFINE e == RecordEntry(r, table'[r])
  <1>1. table'[r] \in ShapedRow
    BY TableShapedNext, Zenon
  <1>2. e \in Entry /\ e.row = table'[r] /\ \A q : Touches(e, q) <=> q = r
    BY <1>1, EntryFacts, Zenon
  <1>3. log' = Append(log, e)
    BY Zenon DEF LogRow
  <1> HIDE DEF e
  <1>4. RowsFollow(e)
    BY <1>2, Zenon DEF RowsFollow
  <1> QED BY <1>2, <1>3, <1>4, Zenon DEF Logs

LEMMA TrxStepLogs ==
  ASSUME NEW kind \in {"INSERT", "DELETE", "COMMIT", "ROLLBACK"}, NEW trx \in 1..MaxId,
         log' = Append(log, TrxEntry(kind, trx)), table' = table,
         UNCHANGED <<durable, ckpt, mark, pages, sync, todo>>
  PROVE  \E e \in Entry : Logs(e)
  <1> DEFINE e == TrxEntry(kind, trx)
  <1>1. e \in Entry /\ \A q : ~Touches(e, q)
    BY EntryFacts, Zenon
  <1>2. log' = Append(log, e)
    BY Zenon
  <1> HIDE DEF e
  <1>3. RowsFollow(e)
    BY <1>1, Zenon DEF RowsFollow
  <1> QED BY <1>1, <1>2, <1>3, Zenon DEF Logs

LEMMA LoggingSteps ==
  ASSUME Base, IInv', NEW s \in Sessions,
         \/ LogOp(s) \/ EndOp(s) \/ LogCommit(s) \/ EndRollback(s)
         \/ \E rid \in Rids : ChangeRow(s, rid)
  PROVE  \E e \in Entry : Logs(e)
  <1> IInv
    BY Zenon DEF Base
  <1>1. CASE LogOp(s)
    <2>1. ops[s] # <<>> /\ pc[s] = "active" /\ ops[s] \in Seq(Op)
      BY <1>1, Zenon DEF Base, TrxShape, LogOp, IInv, TypeOK
    <2>2. ops[s][Len(ops[s])] \in Op
      BY <2>1
    <2>3. ops[s][Len(ops[s])].type \in {"INSERT", "DELETE", "COMMIT", "ROLLBACK"}
      BY <2>2, Zenon DEF Op
    <2>4. id[s] \in 1..MaxId
      BY <2>1, TrxIds
    <2> QED BY <1>1, <2>3, <2>4, TrxStepLogs, Zenon DEF LogOp, vars, syncVars
  <1>2. CASE EndOp(s)
    <2>1. PICK r : /\ \/ CommitOp(s) /\ r = ops[s][done[s] + 1].rid
                      \/ RollbackOp(s) /\ r = ops[s][Len(ops[s]) - done[s]].rid
                   /\ LogRow(r)
      BY <1>2, Zenon DEF EndOp
    <2>2. r \in Rids /\ \A q \in Rids : q # r => table'[q] = table[q]
      BY <2>1, RowHandled, Zenon
    <2> QED BY <1>2, <2>1, <2>2, RowStepLogs, Zenon DEF EndOp, syncVars
  <1>3. CASE LogCommit(s)
    <2>1. id[s] \in 1..MaxId
      BY <1>3, TrxIds DEF LogCommit
    <2> QED BY <1>3, <2>1, TrxStepLogs, Zenon DEF LogCommit, vars, syncVars
  <1>4. CASE EndRollback(s)
    <2>1. id[s] \in 1..MaxId
      BY <1>4, TrxIds DEF EndRollback, RollbackEnd
    <2> QED BY <1>4, <2>1, TrxStepLogs, Zenon DEF EndRollback, RollbackEnd, syncVars
  <1>5. ASSUME NEW rid \in Rids, ChangeRow(s, rid) PROVE \E e \in Entry : Logs(e)
    <2>1. \A q \in Rids : q # rid => table'[q] = table[q]
      BY <1>5, RowChanged, Zenon DEF ChangeRow
    <2> QED BY <1>5, <2>1, RowStepLogs, Zenon DEF ChangeRow, syncVars
  <1> QED BY <1>1, <1>2, <1>3, <1>4, <1>5, Zenon

-----------------------------------------------------------------------------
(* The steps keep the shape *)

LEMMA StartFacts ==
  ASSUME LogShape
  PROVE  Max({1, ckpt}) \in Nat \ {0} /\ Max({1, ckpt}) <= durable + 1
  <1>1. {1, ckpt} \subseteq Nat /\ \A x \in {1, ckpt} : x <= durable + 1
    BY DEF LogShape
  <1>2. durable + 1 \in Nat
    BY DEF LogShape
  <1>3. Max({1, ckpt}) \in {1, ckpt} /\ \A y \in {1, ckpt} : y <= Max({1, ckpt})
    BY <1>1, <1>2, MaxOfBounded, Zenon
  <1> HIDE DEF Max
  <1> QED BY <1>1, <1>3

LEMMA CrashTable ==
  ASSUME LogShape, PageShape, Crash
  PROVE  table' \in [Rids -> ShapedRow]
  <1> DEFINE a == Max({1, ckpt})
             l(rid) == LastChange(rid, a, durable)
  <1>1. a \in Nat \ {0}
    BY StartFacts, Zenon
  <1>2. ASSUME NEW rid \in Rids PROVE (IF l(rid) = 0 THEN pages[rid] ELSE log[l(rid)].row) \in ShapedRow
    <2>1. l(rid) = LastIn(log, rid, a, durable)
      BY Zenon DEF LastChange, LastIn, Hits
    <2>2. durable \in Nat /\ Len(log) \in Nat /\ durable <= Len(log) /\ \A i \in 1..Len(log) : log[i] \in Entry
      BY DEF LogShape
    <2>3. l(rid) = 0 \/ l(rid) \in Hits(log, rid, a, durable)
      BY <1>1, <2>1, <2>2, LastInIs, Zenon
    <2>4. CASE l(rid) = 0
      BY <2>4, Zenon DEF PageShape
    <2>5. CASE l(rid) # 0
      <3> HIDE DEF a, l
      <3>1. l(rid) \in 1..Len(log) /\ log[l(rid)].kind = "RECORD"
        BY <1>1, <2>2, <2>3, <2>5 DEF Hits
      <3>2. log[l(rid)].row \in ShapedRow
        BY <2>2, <3>1, EntryFacts, Zenon
      <3> QED BY <2>5, <3>2, Zenon
    <2> QED BY <2>4, <2>5, Zenon
  <1>3. table' = [rid \in Rids |-> IF l(rid) = 0 THEN pages[rid] ELSE log[l(rid)].row]
    BY Zenon DEF Crash, Recovered
  <1> HIDE DEF l
  <1> QED BY <1>2, <1>3, Zenon

LEMMA CrashTrxId ==
  ASSUME LogShape, Crash
  PROVE  current_trx_id' \in 0..MaxId
  <1> DEFINE a == Max({1, ckpt})
             J == {j \in a..durable : log[j].kind # "RECORD"}
             S == {0} \union {log[i].trx : i \in J}
  <1>1. a \in Nat \ {0}
    BY StartFacts, Zenon
  <1>2. durable \in Nat /\ Len(log) \in Nat /\ durable <= Len(log) /\ \A i \in 1..Len(log) : log[i] \in Entry
    BY DEF LogShape
  <1> HIDE DEF a
  <1>3. \A i \in J : i \in 1..Len(log) /\ log[i].kind # "RECORD"
    BY <1>1, <1>2
  <1>4. \A i \in J : log[i].trx \in 1..MaxId
    BY <1>2, <1>3, EntryFacts, Zenon
  <1> HIDE DEF J
  <1>5. S \subseteq 0..MaxId
    BY <1>4, MvccTrxAssumption
  <1>6. S \subseteq Nat /\ S # {} /\ MaxId \in Nat /\ \A x \in S : x <= MaxId
    BY <1>5, MvccTrxAssumption
  <1>7. Max(S) \in S
    BY <1>6, MaxOfBounded, Zenon
  <1>8. current_trx_id' = Max(S)
    BY Zenon DEF Crash, RecoveredTrxId, a, J
  <1> QED BY <1>5, <1>7, <1>8, Zenon

LEMMA CrashInv ==
  ASSUME Base, Crash
  PROVE  IInv'
  <1>1. /\ table' \in [Rids -> ShapedRow] /\ current_trx_id' \in 0..MaxId
    BY CrashTable, CrashTrxId, Zenon DEF Base
  <1>2. \A s \in Sessions : pc'[s] = "idle" /\ id'[s] = -1 /\ ops'[s] = <<>> /\ done'[s] = 0
    BY Zenon DEF Crash
  <1>3. table' \in [Rids -> [begin : Stamps, end : Stamps]] /\ RowShape'
    BY <1>1, Zenon DEF ShapedRow, RowShape
  <1>4. TypeOK'
    <2>1. ops' \in [Sessions -> Seq(Op)] /\ \A s \in Sessions : done'[s] <= Len(ops'[s])
      BY DEF Crash
    <2>2. pc' \in [Sessions -> {"idle", "active", "commit", "rollback"}] /\ abandoned' \subseteq 1..MaxId
      BY Zenon DEF Crash
    <2>3. /\ id' \in [Sessions -> -1..MaxId] /\ cid' \in [Sessions -> 0..MaxId]
          /\ done' \in [Sessions -> Nat]
      BY MvccTrxAssumption DEF Crash
    <2> QED BY <1>1, <1>3, <2>1, <2>2, <2>3, Zenon DEF TypeOK
  <1>5. \A s \in Sessions : Unhandled(s)' = {} /\ Pending(s)' = {}
    <2>1. \A s \in Sessions : Unhandled(s)' = 1..0 - 0
      BY <1>2, Zenon DEF Unhandled
    <2>2. (1..0 - 0) = {}
      OBVIOUS
    <2>3. \A s \in Sessions : Unhandled(s)' = {}
      BY <2>1, <2>2, Zenon
    <2> QED BY <2>3, Zenon DEF Pending
  <1>6. IdsDistinct' /\ SessionShape' /\ InsertsCommitted'
    BY <1>2, Zenon DEF IdsDistinct, SessionShape, InsertsCommitted, Started
  <1>7. OpsOrdered' /\ PendingOwned'
    BY <1>5, Zenon DEF OpsOrdered, PendingOwned
  <1> QED BY <1>3, <1>4, <1>6, <1>7, Zenon DEF IInv

LEMMA BaseInit == RInit => Base
  <1> SUFFICES ASSUME RInit PROVE Base
    OBVIOUS
  <1>1. IInv
    BY InitInv, Zenon DEF RInit
  <1>2. LogShape
    BY DEF RInit, LogShape
  <1>3. NoRecord \in ShapedRow
    BY MvccTrxAssumption DEF NoRecord, ShapedRow, Stamps
  <1>4. PageShape
    BY <1>3, Zenon DEF RInit, PageShape
  <1>5. TrxShape
    BY Zenon DEF RInit, Init, TrxShape
  <1> QED BY <1>1, <1>2, <1>4, <1>5, Zenon DEF Base

LEMMA StepIInv ==
  ASSUME ~SelfDeleteTwice, Base, [RNext]_rvars
  PROVE  IInv'
  BY MvccStep, NextInv, CrashInv, Zenon DEF Base

LEMMA LoggingShape ==
  ASSUME Base, IInv', NEW s \in Sessions,
         \/ LogOp(s) \/ EndOp(s) \/ LogCommit(s) \/ EndRollback(s)
         \/ \E rid \in Rids : ChangeRow(s, rid)
  PROVE  LogShape' /\ PageShape'
  <1>1. PICK e \in Entry : Logs(e)
    BY LoggingSteps, Zenon
  <1>2. LogShape /\ PageShape
    BY Zenon DEF Base
  <1>3. lsn' \in [Sessions -> Nat] /\ \A t \in Sessions : lsn'[t] <= Len(log) + 1
    <2>1. CASE lsn' = lsn
      BY <1>2, <2>1, LsnKept, Zenon
    <2>2. CASE lsn' # lsn
      <3>1. lsn' = [lsn EXCEPT ![s] = Len(log) + 1]
        BY <2>2, Zenon DEF LogOp, EndOp, LogCommit, EndRollback, ChangeRow
      <3> QED BY <1>2, <3>1 DEF LogShape
    <2> QED BY <2>1, <2>2, Zenon
  <1>4. LogShape'
    BY <1>1, <1>2, <1>3, AppendShape, Zenon DEF Logs
  <1>5. PageShape'
    BY <1>1, <1>2, Zenon DEF Logs, PageShape
  <1> QED BY <1>4, <1>5, Zenon

(* A page that is written back gets a row with the right shape. *)
LEMMA PageWritten ==
  ASSUME Base, NEW rid \in Rids, pages' = [pages EXCEPT ![rid] = table[rid]], todo' \subseteq todo
  PROVE  PageShape'
  BY TableShaped, Zenon DEF Base, PageShape

LEMMA QuietShape ==
  ASSUME Base, UNCHANGED <<log, durable>>,
         ckpt' = ckpt \/ (ckpt' = mark /\ mark <= durable),
         mark' = mark \/ mark' = 0 \/ mark' = Len(log),
         lsn' = lsn \/ \E s \in Sessions : lsn' = [lsn EXCEPT ![s] = 0]
  PROVE  LogShape'
  <1>1. LogShape /\ Len(log) \in Nat
    BY DEF Base, LogShape
  <1>2. lsn' \in [Sessions -> Nat] /\ \A t \in Sessions : lsn'[t] <= Len(log)
    BY <1>1 DEF LogShape
  <1> QED BY <1>1, <1>2 DEF LogShape

LEMMA StepLogShape ==
  ASSUME Base, IInv', [RNext]_rvars
  PROVE  LogShape' /\ PageShape'
  <1>0. LogShape /\ PageShape
    BY Zenon DEF Base
  <1>1. ASSUME NEW s \in Sessions,
               \/ LogOp(s) \/ EndOp(s) \/ LogCommit(s) \/ EndRollback(s)
               \/ \E rid \in Rids : ChangeRow(s, rid)
        PROVE  LogShape' /\ PageShape'
    BY <1>1, LoggingShape, Zenon
  <1>2. ASSUME NEW s \in Sessions, StartTrx(s) \/ BeginEnd(s) \/ AckCommit(s) \/ Disconnect(s)
        PROVE  LogShape' /\ PageShape'
    BY <1>0, <1>2, QuietShape, Zenon
       DEF StartTrx, BeginEnd, AckCommit, Acknowledge, Disconnect, logVars, syncVars, PageShape
  <1>3. CASE FlushLog
    BY <1>0, <1>3 DEF FlushLog, syncVars, LogShape, PageShape
  <1>4. ASSUME NEW rid \in Rids, FlushPage(rid) \/ SyncPage(rid)
        PROVE  LogShape' /\ PageShape'
    BY <1>0, <1>4, QuietShape, PageWritten, Zenon DEF FlushPage, SyncPage, logVars, syncVars
  <1>5. CASE SyncBegin \/ SyncLsn \/ SyncMeta
    BY <1>0, <1>5, QuietShape, Zenon DEF SyncBegin, SyncLsn, SyncMeta, logVars, PageShape
  <1>6. CASE Crash
    <2>1. log' \in Seq(Entry) /\ Len(log') = durable
      BY <1>0, <1>6 DEF LogShape, Crash
    <2> QED BY <1>0, <1>6, <2>1 DEF LogShape, PageShape, Crash
  <1>7. CASE UNCHANGED rvars
    BY <1>0, <1>7, Zenon DEF rvars, logVars, syncVars, LogShape, PageShape
  <1> QED BY <1>1, <1>2, <1>3, <1>4, <1>5, <1>6, <1>7, Zenon DEF RNext

LEMMA StepTrxShape ==
  ASSUME Base, [RNext]_rvars
  PROVE  TrxShape'
  <1> USE DEF Started
  <1>0. /\ TrxShape /\ current_trx_id \in Nat
        /\ pc \in [Sessions -> {"idle", "active", "commit", "rollback"}]
        /\ id \in [Sessions -> -1..MaxId] /\ ops \in [Sessions -> Seq(Op)]
    BY DEF Base, IInv, TypeOK
  <1>1. ASSUME NEW s \in Sessions, StartTrx(s) PROVE TrxShape'
    BY <1>0, <1>1 DEF StartTrx, Start, TrxShape
  <1>2. ASSUME NEW s \in Sessions, BeginEnd(s) PROVE TrxShape'
    BY <1>0, <1>2 DEF BeginEnd, Calm, CommitBegin, RollbackBegin, TrxShape
  <1>3. ASSUME NEW s \in Sessions, EndOp(s) PROVE TrxShape'
    BY <1>0, <1>3 DEF EndOp, CommitOp, RollbackOp, TrxShape
  <1>4. ASSUME NEW s \in Sessions, AckCommit(s) \/ EndRollback(s) \/ Disconnect(s) PROVE TrxShape'
    <2>1. Destroyed(s) /\ unlogged' = unlogged /\ s \notin unlogged
      BY <1>0, <1>4 DEF AckCommit, CommitEnd, EndRollback, RollbackEnd, Disconnect, Abandon, Calm,
                        TrxShape
    <2> QED BY <1>0, <2>1 DEF Destroyed, TrxShape
  <1>5. ASSUME NEW s \in Sessions, NEW rid \in Rids, ChangeRow(s, rid) PROVE TrxShape'
    <2>1. PICK op \in Op : /\ ops' = [ops EXCEPT ![s] = Append(@, op)] /\ pc[s] = "active"
                           /\ UNCHANGED <<pc, id>> /\ unlogged' = unlogged \union {s}
      <3>1. [type |-> "INSERT", rid |-> rid] \in Op /\ [type |-> "DELETE", rid |-> rid] \in Op
        BY Zenon DEF Op
      <3> QED BY <1>5, <3>1, Zenon DEF ChangeRow, Insert, Delete
    <2>2. Append(ops[s], op) # <<>>
      <3>1. Len(Append(ops[s], op)) = Len(ops[s]) + 1 /\ Len(ops[s]) \in Nat
        BY <1>0
      <3> QED BY <3>1
    <2> QED BY <1>0, <2>1, <2>2, Zenon DEF TrxShape
  <1>6. ASSUME NEW s \in Sessions, LogOp(s) \/ LogCommit(s) PROVE TrxShape'
    BY <1>0, <1>6, Zenon DEF LogOp, LogCommit, vars, trxVars, TrxShape
  <1>7. CASE \/ FlushLog \/ (\E rid \in Rids : FlushPage(rid) \/ SyncPage(rid))
             \/ SyncBegin \/ SyncLsn \/ SyncMeta \/ UNCHANGED rvars
    <2>1. UNCHANGED <<pc, id, ops, unlogged>>
      BY <1>7, Zenon DEF FlushLog, FlushPage, SyncPage, SyncBegin, SyncLsn, SyncMeta, rvars, vars, trxVars
    <2> QED BY <1>0, <2>1, Zenon DEF TrxShape
  <1>8. CASE Crash
    BY <1>8, Zenon DEF Crash, TrxShape
  <1> QED BY <1>1, <1>2, <1>3, <1>4, <1>5, <1>6, <1>7, <1>8, Zenon DEF RNext

LEMMA BaseNext == ASSUME ~SelfDeleteTwice PROVE Base /\ [RNext]_rvars => Base'
  BY StepIInv, StepLogShape, StepTrxShape, Zenon DEF Base

-----------------------------------------------------------------------------
(* Redo *)

(* The rows in memory are what redo of the whole log gives; compare        *)
(* TableLogged.                                                            *)
RowsLogged == \A rid \in Rids : table[rid] = RowIn(log, rid, Len(log))

(* A page that no durable entry from the checkpoint on changes is right. *)
PagesSound ==
  \A rid \in Rids : LastIn(log, rid, Max({1, ckpt}), durable) = 0 => pages[rid] = RowIn(log, rid, durable)

(* What Db::sync has done so far, when no transaction is open meanwhile. *)
SyncShape ==
  /\ sync # "idle" => \A s \in Sessions : pc[s] = "idle"
  /\ sync \in {"idle", "pages", "wait"}
  /\ sync = "pages" => \A rid \in Rids \ todo : pages[rid] = table[rid]
  /\ sync = "wait" => pages = table /\ mark = Len(log)

Redo == Base /\ RowsLogged /\ PagesSound /\ SyncShape

LEMMA LogFacts ==
  ASSUME Base
  PROVE  /\ LogShape /\ Len(log) \in Nat /\ durable \in Nat /\ durable <= Len(log)
         /\ Max({1, ckpt}) \in Nat \ {0} /\ Max({1, ckpt}) <= durable + 1
  <1>1. LogShape
    BY Zenon DEF Base
  <1> QED BY <1>1, StartFacts DEF LogShape

(* Redo of a prefix of the log is not affected by what is appended. *)
LEMMA LoggedRows ==
  ASSUME Base, RowsLogged, NEW e \in Entry, Logs(e)
  PROVE  /\ \A rid \in Rids : \A k \in 0..Len(log) : RowIn(log', rid, k) = RowIn(log, rid, k)
         /\ \A rid \in Rids : RowIn(log', rid, Len(log) + 1) = table'[rid]
         /\ Len(log') = Len(log) + 1
  <1>1. /\ Len(log) \in Nat /\ Len(log') = Len(log) + 1 /\ log'[Len(log) + 1] = e
        /\ \A i \in 1..Len(log) : log'[i] = log[i]
    BY LogFacts, Appended, Zenon DEF Logs
  <1>2. ASSUME NEW rid \in Rids, NEW k \in 0..Len(log) PROVE RowIn(log', rid, k) = RowIn(log, rid, k)
    <2>1. k \in Nat /\ \A i \in 1..k : log'[i] = log[i]
      BY <1>1
    <2> QED BY ONLY <2>1, SamePrefixRow
  <1>3. ASSUME NEW rid \in Rids PROVE RowIn(log', rid, Len(log) + 1) = table'[rid]
    <2>1. RowIn(log', rid, Len(log) + 1) = IF Touches(e, rid) THEN e.row ELSE RowIn(log', rid, Len(log))
      BY <1>1, OneMoreRow, Zenon
    <2>2. RowIn(log', rid, Len(log)) = table[rid]
      <3>1. Len(log) \in 0..Len(log)
        BY <1>1
      <3> QED BY <1>2, <3>1, Zenon DEF RowsLogged
    <2> QED BY <2>1, <2>2, Zenon DEF Logs, RowsFollow
  <1> QED BY <1>1, <1>2, <1>3, Zenon

LEMMA LoggingRedo ==
  ASSUME Redo, NEW e \in Entry, Logs(e)
  PROVE  RowsLogged' /\ PagesSound'
  <1>0. Base /\ RowsLogged /\ PagesSound
    BY Zenon DEF Redo
  <1>1. RowsLogged'
    BY <1>0, LoggedRows, Zenon DEF RowsLogged
  <1>2. ASSUME NEW rid \in Rids, LastIn(log', rid, Max({1, ckpt}), durable) = 0
        PROVE  pages[rid] = RowIn(log', rid, durable)
    <2>1. \A i \in Max({1, ckpt})..durable : log'[i] = log[i]
      <3>1. \A i \in 1..Len(log) : log'[i] = log[i]
        BY <1>0, LogFacts, Appended, Zenon DEF Logs
      <3> QED BY <1>0, <3>1, LogFacts
    <2>2. LastIn(log', rid, Max({1, ckpt}), durable) = LastIn(log, rid, Max({1, ckpt}), durable)
      <3>1. Max({1, ckpt}) \in Nat \ {0} /\ durable \in Nat
        BY <1>0, LogFacts, Zenon
      <3> QED BY ONLY <2>1, <3>1, SamePrefix
    <2>3. durable \in 0..Len(log)
      BY <1>0, LogFacts
    <2>4. RowIn(log', rid, durable) = RowIn(log, rid, durable)
      BY <1>0, <2>3, LoggedRows, Zenon
    <2> QED BY <1>0, <1>2, <2>2, <2>4, Zenon DEF PagesSound
  <1>3. PagesSound'
    BY <1>2, Zenon DEF PagesSound, Logs
  <1> QED BY <1>1, <1>3, Zenon

(* Whoever appends to the log has a transaction, so Db::sync is not        *)
(* running.                                                                *)
LEMMA BusySessions ==
  ASSUME Base, SyncShape, NEW s \in Sessions,
         \/ LogOp(s) \/ EndOp(s) \/ LogCommit(s) \/ EndRollback(s) \/ BeginEnd(s)
         \/ AckCommit(s) \/ Disconnect(s) \/ \E rid \in Rids : ChangeRow(s, rid)
  PROVE  sync = "idle" /\ sync' = "idle"
  <1>1. pc[s] # "idle"
    BY Zenon DEF LogOp, EndOp, LogCommit, EndRollback, BeginEnd, AckCommit, Disconnect, ChangeRow,
        Insert, Delete, CommitOp, RollbackOp, RollbackEnd, CommitEnd, Abandon, Base, TrxShape
  <1>2. sync = "idle"
    BY <1>1, Zenon DEF SyncShape
  <1>3. sync' = sync
    BY Zenon DEF LogOp, EndOp, LogCommit, EndRollback, BeginEnd, AckCommit, Disconnect, ChangeRow, syncVars
  <1> QED BY <1>2, <1>3, Zenon

LEMMA FlushRedo ==
  ASSUME Redo, FlushLog
  PROVE  PagesSound'
  <1>0. Base /\ PagesSound /\ durable' = durable + 1 /\ UNCHANGED <<log, pages, ckpt>>
    BY Zenon DEF Redo, FlushLog, syncVars
  <1> DEFINE a == Max({1, ckpt})
  <1>1. a \in Nat \ {0} /\ a <= durable + 1 /\ durable \in Nat
    BY <1>0, LogFacts, Zenon
  <1>2. ASSUME NEW rid \in Rids, LastIn(log, rid, a, durable + 1) = 0
        PROVE  pages[rid] = RowIn(log, rid, durable + 1)
    <2>1. LastIn(log, rid, a, durable + 1) = IF Touches(log[durable + 1], rid) THEN durable + 1 ELSE LastIn(log, rid, a, durable)
      BY <1>1, OneMore, Zenon
    <2>2. durable + 1 # 0
      BY <1>1
    <2>3. ~Touches(log[durable + 1], rid) /\ LastIn(log, rid, a, durable) = 0
      BY <1>2, <2>1, <2>2, Zenon
    <2>4. RowIn(log, rid, durable + 1) = RowIn(log, rid, durable)
      BY <1>1, <2>3, OneMoreRow, Zenon
    <2> QED BY <1>0, <2>3, <2>4, Zenon DEF PagesSound
  <1> QED BY <1>0, <1>2, Zenon DEF PagesSound

(* A page is written when the log is durable up to its last change. *)
LEMMA WriteRedo ==
  ASSUME Redo, NEW rid \in Rids, WritablePage(rid), pages' = [pages EXCEPT ![rid] = table[rid]],
         UNCHANGED <<log, durable, ckpt>>
  PROVE  PagesSound'
  <1>0. Base /\ PagesSound /\ RowsLogged
    BY Zenon DEF Redo
  <1>1. /\ pages'[rid] = table[rid]
        /\ \A q \in Rids : q # rid => pages'[q] = pages[q]
    BY <1>0, Zenon DEF Base, PageShape
  <1>2. table[rid] = RowIn(log, rid, durable)
    <2>1. LastIn(log, rid, 1, Len(log)) <= durable
      BY Zenon DEF WritablePage, LastChange, LastIn, Hits
    <2>2. RowIn(log, rid, durable) = RowIn(log, rid, Len(log))
      BY <1>0, <2>1, LogFacts, NothingAfter, Zenon
    <2> QED BY <1>0, <2>2, Zenon DEF RowsLogged
  <1> QED BY <1>0, <1>1, <1>2, Zenon DEF PagesSound

LEMMA CrashRedo ==
  ASSUME Redo, Crash
  PROVE  RowsLogged' /\ PagesSound'
  <1>0. Base /\ PagesSound
    BY Zenon DEF Redo
  <1> DEFINE a == Max({1, ckpt})
  <1>1. /\ durable \in Nat /\ Len(log') = durable /\ \A i \in 1..durable : log'[i] = log[i]
    BY <1>0, LogFacts DEF Crash, LogShape
  <1>2. a \in Nat \ {0} /\ a <= durable + 1
    BY <1>0, LogFacts, Zenon
  <1> HIDE DEF a
  <1>p. \A i \in a..durable : log'[i] = log[i]
    BY ONLY <1>1, <1>2
  <1>3. \A rid \in Rids : RowIn(log', rid, durable) = RowIn(log, rid, durable)
    BY ONLY <1>1, SamePrefixRow
  <1>4. ASSUME NEW rid \in Rids
        PROVE  table'[rid] = RowIn(log, rid, durable)
    <2>1. LastChange(rid, a, durable) = LastIn(log, rid, a, durable)
      BY Zenon DEF LastChange, LastIn, Hits
    <2>2. table'[rid] = Redone(log, rid, a, durable, pages[rid])
      BY <2>1, Zenon DEF Crash, Recovered, Redone, a
    <2>3. LastIn(log, rid, a, durable) = 0 => pages[rid] = RowIn(log, rid, durable)
      BY <1>0, Zenon DEF PagesSound, a
    <2>4. durable <= durable
      BY <1>1
    <2>5. Redone(log, rid, a, durable, pages[rid]) = RowIn(log, rid, durable)
      BY ONLY <1>1, <1>2, <2>3, <2>4, RedoFrom
    <2> QED BY <2>2, <2>5, Zenon
  <1>5. RowsLogged'
    BY <1>1, <1>3, <1>4, Zenon DEF RowsLogged
  <1>6. \A rid \in Rids : LastIn(log', rid, a, durable) = LastIn(log, rid, a, durable)
    BY ONLY <1>1, <1>2, <1>p, SamePrefix
  <1>7. PagesSound'
    <2>1. durable' = durable /\ ckpt' = ckpt /\ pages' = pages
      BY Zenon DEF Crash
    <2> QED BY <1>0, <1>3, <1>6, <2>1, Zenon DEF PagesSound, a
  <1> QED BY <1>5, <1>7, Zenon

LEMMA RedoInit == RInit => Redo
  <1> SUFFICES ASSUME RInit PROVE Redo
    OBVIOUS
  <1>1. Base
    BY BaseInit, Zenon
  <1>2. log = <<>> /\ Len(log) = 0 /\ durable = 0
    BY DEF RInit
  <1>3. ASSUME NEW rid \in Rids PROVE RowIn(log, rid, 0) = NoRecord
    <2>1. Hits(log, rid, 1, 0) = {}
      BY DEF Hits
    <2>2. LastIn(log, rid, 1, 0) = 0
      BY <2>1, LastInIs
    <2> QED BY <2>2, Zenon DEF RowIn
  <1>4. RowsLogged /\ PagesSound
    BY <1>2, <1>3, Zenon DEF RInit, Init, RowsLogged, PagesSound
  <1>5. SyncShape
    BY Zenon DEF RInit, SyncShape
  <1> QED BY <1>1, <1>4, <1>5, Zenon DEF Redo

(* A step that changes neither the log nor the rows nor the pages *)
LEMMA StillRedo ==
  ASSUME Redo, UNCHANGED <<log, durable, table, pages, ckpt>>
  PROVE  RowsLogged' /\ PagesSound'
  BY Zenon DEF Redo, RowsLogged, PagesSound

LEMMA RedoNext ==
  ASSUME ~SelfDeleteTwice, QuietSync
  PROVE  Redo /\ [RNext]_rvars => Redo'
  <1> SUFFICES ASSUME Redo, [RNext]_rvars PROVE Redo'
    OBVIOUS
  <1>0. Base /\ RowsLogged /\ PagesSound /\ SyncShape
    BY Zenon DEF Redo
  <1>b. Base' /\ IInv'
    BY <1>0, BaseNext, Zenon DEF Base
  <1> SUFFICES RowsLogged' /\ PagesSound' /\ SyncShape'
    BY <1>b, Zenon DEF Redo
  <1>1. ASSUME NEW s \in Sessions,
               \/ LogOp(s) \/ EndOp(s) \/ LogCommit(s) \/ EndRollback(s)
               \/ \E rid \in Rids : ChangeRow(s, rid)
        PROVE  RowsLogged' /\ PagesSound' /\ SyncShape'
    <2>1. PICK e \in Entry : Logs(e)
      BY <1>0, <1>1, <1>b, LoggingSteps, Zenon
    <2>2. sync' = "idle"
      BY <1>0, <1>1, BusySessions, Zenon
    <2>3. SyncShape'
      BY <2>2, Zenon DEF SyncShape
    <2> QED BY <2>1, <2>3, LoggingRedo, Zenon
  <1>2. ASSUME NEW s \in Sessions, StartTrx(s) \/ BeginEnd(s) \/ AckCommit(s) \/ Disconnect(s)
        PROVE  RowsLogged' /\ PagesSound' /\ SyncShape'
    <2>1. UNCHANGED <<log, durable, table, pages, ckpt>>
      BY <1>2, Zenon DEF StartTrx, BeginEnd, AckCommit, Disconnect, Start, CommitBegin, RollbackBegin,
                  CommitEnd, Abandon, logVars, syncVars
    <2>2. sync' = "idle"
      <3>1. CASE StartTrx(s)
        BY <3>1, Zenon DEF StartTrx, syncVars
      <3>2. CASE BeginEnd(s) \/ AckCommit(s) \/ Disconnect(s)
        BY <1>0, <3>2, BusySessions, Zenon
      <3> QED BY <1>2, <3>1, <3>2, Zenon
    <2>3. SyncShape'
      BY <2>2, Zenon DEF SyncShape
    <2> QED BY <2>1, <2>3, StillRedo, Zenon
  <1>3. CASE FlushLog
    <2>1. UNCHANGED <<log, table, pages, pc, sync, todo, mark>>
      BY <1>3, Zenon DEF FlushLog, vars, trxVars, syncVars
    <2> QED BY <1>0, <1>3, <2>1, FlushRedo, Zenon DEF RowsLogged, SyncShape
  <1>4. ASSUME NEW rid \in Rids, FlushPage(rid) \/ SyncPage(rid)
        PROVE  RowsLogged' /\ PagesSound' /\ SyncShape'
    <2>1. /\ WritablePage(rid) /\ pages' = [pages EXCEPT ![rid] = table[rid]]
          /\ UNCHANGED <<log, durable, ckpt, table, pc, sync, mark>>
          /\ todo' = todo \/ todo' = todo \ {rid}
      BY <1>4, Zenon DEF FlushPage, SyncPage, vars, trxVars, logVars, syncVars
    <2>2. RowsLogged' /\ PagesSound'
      BY <1>0, <2>1, WriteRedo, Zenon DEF RowsLogged
    <2>3. /\ pages'[rid] = table[rid] /\ \A q \in Rids : q # rid => pages'[q] = pages[q]
          /\ pages = table => pages' = table
      <3>1. pages \in [Rids -> ShapedRow]
        BY <1>0, Zenon DEF Base, PageShape
      <3> QED BY <2>1, <3>1, Zenon
    <2>4. SyncShape'
      BY <1>0, <2>1, <2>3, Zenon DEF SyncShape
    <2> QED BY <2>2, <2>4, Zenon
  <1>5. CASE SyncBegin
    <2>1. UNCHANGED <<log, durable, table, pages, ckpt>>
      BY <1>5, Zenon DEF SyncBegin, logVars, vars
    <2>2. SyncShape'
      BY <1>5, Zenon DEF SyncBegin, SyncShape, vars, trxVars
    <2> QED BY <2>1, <2>2, StillRedo, Zenon
  <1>6. CASE SyncLsn
    <2>1. UNCHANGED <<log, durable, table, pages, ckpt>>
      BY <1>6, Zenon DEF SyncLsn, logVars, vars
    <2>2. pages = table
      <3>1. \A rid \in Rids : pages[rid] = table[rid]
        BY <1>0, <1>6, Zenon DEF SyncLsn, SyncShape
      <3>2. pages \in [Rids -> ShapedRow] /\ table \in [Rids -> ShapedRow]
        BY <1>0, TableShaped, Zenon DEF Base, PageShape
      <3> QED BY ONLY <3>1, <3>2
    <2>3. SyncShape'
      BY <1>0, <1>6, <2>2, Zenon DEF SyncLsn, SyncShape, vars, trxVars, logVars
    <2> QED BY <2>1, <2>3, StillRedo, Zenon
  <1>7. CASE SyncMeta
    <2>1. UNCHANGED <<log, durable, table, pages>> /\ sync' = "idle" /\ sync = "wait" /\ mark <= durable
      BY <1>7, Zenon DEF SyncMeta, logVars, vars
    <2>2. durable = Len(log) /\ pages = table
      BY <1>0, <2>1, LogFacts DEF SyncShape
    <2>3. \A rid \in Rids : pages[rid] = RowIn(log, rid, durable)
      BY <1>0, <2>2, Zenon DEF RowsLogged
    <2> QED BY <1>0, <2>1, <2>3, Zenon DEF RowsLogged, PagesSound, SyncShape
  <1>8. CASE Crash
    BY <1>8, CrashRedo, Zenon DEF Crash, SyncShape
  <1>9. CASE UNCHANGED rvars
    BY <1>0, <1>9, StillRedo, Zenon DEF rvars, vars, trxVars, logVars, syncVars, SyncShape
  <1> QED BY <1>1, <1>2, <1>3, <1>4, <1>5, <1>6, <1>7, <1>8, <1>9, Zenon DEF RNext

LEMMA ImageRow == \A k, rid : rid \in Rids => Image(k)[rid] = RowIn(log, rid, k)
  BY Zenon DEF Image, RowIn, LastChange, LastIn, Hits

LEMMA RedoIsSound == Redo => CheckpointSound /\ TableLogged
  <1> SUFFICES ASSUME Redo PROVE CheckpointSound /\ TableLogged
    OBVIOUS
  <1>0. Base /\ RowsLogged /\ PagesSound
    BY Zenon DEF Redo
  <1>1. TableLogged
    <2>1. \A rid \in Rids : table[rid] = Image(Len(log))[rid]
      BY <1>0, ImageRow, Zenon DEF RowsLogged
    <2>2. table \in [Rids -> ShapedRow]
      BY <1>0, TableShaped, Zenon DEF Base
    <2>3. Image(Len(log)) = [rid \in Rids |-> Image(Len(log))[rid]]
      BY Zenon DEF Image
    <2> QED BY <2>1, <2>2, <2>3, Zenon DEF TableLogged
  <1>2. ASSUME NEW k \in durable..Len(log) PROVE Recovered(k) = Image(k)
    <2> DEFINE a == Max({1, ckpt})
    <2>1. a \in Nat \ {0} /\ a <= durable + 1 /\ durable \in Nat /\ k \in Nat /\ durable <= k
      <3>1. a \in Nat \ {0} /\ a <= durable + 1
        BY <1>0, LogFacts, Zenon
      <3>2. durable \in Nat /\ Len(log) \in Nat
        BY <1>0, LogFacts, Zenon
      <3>3. k \in Nat /\ durable <= k
        BY ONLY <3>2, k \in durable..Len(log)
      <3> QED BY <3>1, <3>2, <3>3, Zenon
    <2>2. ASSUME NEW rid \in Rids PROVE Recovered(k)[rid] = Image(k)[rid]
      <3>1. Recovered(k)[rid] = Redone(log, rid, a, k, pages[rid])
        BY Zenon DEF Recovered, Redone, LastChange, LastIn, Hits
      <3>2. LastIn(log, rid, a, durable) = 0 => pages[rid] = RowIn(log, rid, durable)
        BY <1>0, Zenon DEF PagesSound
      <3> HIDE DEF a
      <3>3. Redone(log, rid, a, k, pages[rid]) = RowIn(log, rid, k)
        BY ONLY <2>1, <3>2, RedoFrom
      <3> QED BY <3>1, <3>3, ImageRow, Zenon
    <2>3. /\ Recovered(k) = [rid \in Rids |-> Recovered(k)[rid]]
          /\ Image(k) = [rid \in Rids |-> Image(k)[rid]]
      BY Zenon DEF Recovered, Image
    <2> QED BY <2>2, <2>3, Zenon
  <1> QED BY <1>1, <1>2, Zenon DEF CheckpointSound

(* Wherever the log ends when the system crashes, redo from the checkpoint *)
(* onto the pages on disk gives the rows of that entry, when no            *)
(* transaction changes a row while Db::sync runs and no session deletes a  *)
(* row of its own twice.                                                   *)
THEOREM RedoSound ==
  ASSUME ~SelfDeleteTwice, QuietSync
  PROVE  RSpec => []CheckpointSound
  BY RedoInit, RedoNext, RedoIsSound, PTL DEF RSpec

(* The rows in memory are those that the whole log gives: every change of  *)
(* a row, the stamps of commit and rollback included, is logged in the     *)
(* order in which it happens, also by recovery.                            *)
THEOREM RowsAreLogged ==
  ASSUME ~SelfDeleteTwice, QuietSync
  PROVE  RSpec => []TableLogged
  BY RedoInit, RedoNext, RedoIsSound, PTL DEF RSpec

LEMMA BaseTypes == Base => RTypeOK
  <1> SUFFICES ASSUME Base PROVE RTypeOK
    OBVIOUS
  <1>1. ShapedRow \subseteq [begin : Stamps, end : Stamps]
    BY Zenon DEF ShapedRow
  <1>2. Entry \subseteq LogEntry
    <2>1. ShapedRow \subseteq Row
      BY <1>1, MvccTrxAssumption DEF Stamps, Row
    <2>2. 1..MaxId \subseteq Int
      BY MvccTrxAssumption
    <2> QED BY <2>1, <2>2 DEF Entry, LogEntry
  <1>3. DOMAIN log = 1..Len(log) /\ \A i \in 1..Len(log) : log[i] \in Entry
    BY DEF Base, LogShape
  <1>4. pages \in [Rids -> [begin : Stamps, end : Stamps]]
    BY <1>1, Zenon DEF Base, PageShape
  <1> QED BY <1>2, <1>3, <1>4, Zenon DEF RTypeOK, Base, IInv, LogShape, PageShape, TrxShape

(* The types of the state, and that the checkpoint in the meta file never  *)
(* passes the durable part of the log.                                     *)
THEOREM RecoveryTypes == ASSUME ~SelfDeleteTwice PROVE RSpec => []RTypeOK
  BY BaseInit, BaseNext, BaseTypes, PTL DEF RSpec

LEMMA WalStep ==
  ASSUME ~SelfDeleteTwice, Base, [RNext]_rvars
  PROVE  [LogAsWal!Next]_(LogAsWal!vars)
  <1>0. IInv'
    BY StepIInv, Zenon
  <1>1. ASSUME NEW s \in Sessions,
               \/ LogOp(s) \/ EndOp(s) \/ LogCommit(s) \/ EndRollback(s)
               \/ \E rid \in Rids : ChangeRow(s, rid)
        PROVE  LogAsWal!Append
    <2>1. PICK e \in Entry : Logs(e)
      BY <1>0, <1>1, LoggingSteps, Zenon
    <2>2. Len(log') = Len(log) + 1 /\ durable' = durable
      BY <2>1, LogFacts, Appended, Zenon DEF Logs
    <2>3. acked' = acked
      BY <1>1, Zenon DEF LogOp, EndOp, LogCommit, EndRollback, ChangeRow
    <2> QED BY <2>2, <2>3, Zenon DEF LogAsWal!Append
  <1>2. ASSUME NEW s \in Sessions, AckCommit(s) PROVE LogAsWal!Ack
    <2>1. lsn[s] \in 1..durable
      BY <1>2, LogFacts DEF AckCommit, LogShape
    <2>2. acked' = acked \union {lsn[s]} /\ UNCHANGED <<log, durable>>
      BY <1>2, Zenon DEF AckCommit, Acknowledge
    <2> QED BY <2>1, <2>2, Zenon DEF LogAsWal!Ack
  <1>3. CASE FlushLog
    BY <1>3 DEF FlushLog, LogAsWal!Flush, LogAsWal!Next
  <1>4. CASE Crash
    <2>1. Len(log') = durable
      BY <1>4, LogFacts DEF Crash, LogShape
    <2> QED BY <1>4, <2>1 DEF Crash, LogAsWal!Crash, LogAsWal!Next
  <1>5. CASE \/ \E s \in Sessions : StartTrx(s) \/ BeginEnd(s) \/ Disconnect(s)
             \/ \E rid \in Rids : FlushPage(rid) \/ SyncPage(rid)
             \/ SyncBegin \/ SyncLsn \/ SyncMeta \/ UNCHANGED rvars
    <2>1. UNCHANGED <<log, durable, acked>>
      BY <1>5, Zenon DEF StartTrx, BeginEnd, Disconnect, FlushPage, SyncPage, SyncBegin, SyncLsn, SyncMeta,
                         rvars, logVars
    <2> QED BY <2>1, Zenon DEF LogAsWal!vars
  <1> QED BY <1>1, <1>2, <1>3, <1>4, <1>5, Zenon DEF RNext, LogAsWal!Next

(* Transactions, page write-back, Db::sync and recovery use the log only   *)
(* as module Wal allows, which is what theorem ImplementsWalHolds shows    *)
(* the log's files and threads to implement.                               *)
THEOREM WalIsUsed == ASSUME ~SelfDeleteTwice PROVE RSpec => UsesWal
  <1>1. RInit => LogAsWal!Init
    BY DEF RInit, LogAsWal!Init
  <1>2. Base /\ [RNext]_rvars => [LogAsWal!Next]_(LogAsWal!vars)
    BY WalStep, Zenon
  <1> QED BY <1>1, <1>2, BaseInit, BaseNext, PTL DEF RSpec, UsesWal, LogAsWal!Spec
=============================================================================
