--------------------------- MODULE MvccTrxProofs ----------------------------
(***************************************************************************)
(* The inductive invariant of MvccTrx, that each step preserves it, and the*)
(* theorems about MvccTrx that follow, for every set of sessions and slots,*)
(* every bound and every interleaving, for clients that do not delete a row*)
(* of their own twice.                                                     *)
(***************************************************************************)
EXTENDS MvccTrx, TLAPS

(* What the state of a session says about its transaction. *)
SessionShape ==
  \A s \in Sessions :
    /\ pc[s] = "idle" => id[s] = -1 /\ ops[s] = <<>> /\ done[s] = 0
    /\ pc[s] = "active" => Started(s) /\ done[s] = 0
    /\ ops[s] # <<>> => Started(s)

(* Both stamps of a row are uncommitted only if one transaction set both. *)
RowShape ==
  \A rid \in Rids :
    table[rid].begin < 0 /\ table[rid].end < 0 => table[rid].begin = table[rid].end

(* A transaction has at most two unhandled operations on a row: its insert *)
(* and then its deletion.                                                  *)
OpsOrdered ==
  \A s \in Sessions : \A i, j \in Unhandled(s) :
    i < j /\ ops[s][i].rid = ops[s][j].rid =>
      ops[s][i].type = "INSERT" /\ ops[s][j].type = "DELETE"

(* The id of an abandoned transaction is not in use again. *)
AbandonedGone ==
  \A a \in abandoned : a <= current_trx_id /\ \A s \in Sessions : id[s] # a

IInv ==
  /\ TypeOK
  /\ IdsDistinct
  /\ SessionShape
  /\ RowShape
  /\ OpsOrdered
  /\ PendingOwned
  /\ InsertsCommitted

(* Who owns the uncommitted stamps is lost in a crash (module              *)
(* TrxRecovery), so it is no part of IInv but kept beside it.              *)
Owned == StampsOwned /\ AbandonedGone

StampsKept    == StampsOwned => StampsOwned'
AbandonedKept == AbandonedGone => AbandonedGone'
OwnedKept     == StampsKept /\ AbandonedKept

-----------------------------------------------------------------------------
(* Facts about operations and rows *)

LEMMA PendingFacts ==
  ASSUME TypeOK, NEW s \in Sessions
  PROVE  /\ Unhandled(s) \subseteq 1..Len(ops[s])
         /\ Len(ops[s]) \in Nat /\ done[s] \in Nat /\ done[s] <= Len(ops[s])
         /\ \A i \in 1..Len(ops[s]) : ops[s][i] \in Op
         /\ Pending(s) \subseteq Op
  <1>1. ops[s] \in Seq(Op) /\ done[s] \in Nat /\ done[s] <= Len(ops[s])
    BY Zenon DEF TypeOK
  <1>2. Len(ops[s]) \in Nat /\ \A i \in 1..Len(ops[s]) : ops[s][i] \in Op
    BY <1>1
  <1>3. Unhandled(s) \subseteq 1..Len(ops[s])
    BY <1>1, <1>2 DEF Unhandled
  <1> QED BY <1>1, <1>2, <1>3, Zenon DEF Pending

LEMMA PendingStarted ==
  ASSUME IInv, NEW s \in Sessions, Pending(s) # {}
  PROVE  Started(s) /\ id[s] \in 1..current_trx_id
  <1>1. Len(ops[s]) # 0
    BY PendingFacts DEF IInv, Pending
  <1>2. ops[s] # <<>>
    BY <1>1
  <1> QED BY <1>2, Zenon DEF IInv, SessionShape, IdsDistinct

LEMMA IdFacts ==
  ASSUME TypeOK, IdsDistinct, NEW s \in Sessions
  PROVE  id[s] \in Int /\ current_trx_id \in Nat /\ (id[s] = -1 \/ id[s] \in 1..current_trx_id)
  BY DEF TypeOK, IdsDistinct, Started

(* The stamps of a row are integers. *)
LEMMA StampFacts ==
  ASSUME TypeOK, NEW rid \in Rids
  PROVE  /\ table[rid] = [begin |-> table[rid].begin, end |-> table[rid].end]
         /\ table[rid].begin \in Int /\ table[rid].end \in Int
         /\ table[rid].begin \in Stamps /\ table[rid].end \in Stamps
  BY MvccTrxAssumption DEF TypeOK, Stamps

(* Stamping or removing one row leaves the other rows alone. *)
LEMMA EndStamped ==
  ASSUME TypeOK, NEW rid \in Rids, NEW v \in Stamps, table' = [table EXCEPT ![rid].end = v]
  PROVE  /\ table' \in [Rids -> [begin : Stamps, end : Stamps]]
         /\ table'[rid].begin = table[rid].begin /\ table'[rid].end = v
         /\ \A q \in Rids : q # rid => table'[q] = table[q]
  BY Zenon DEF TypeOK

LEMMA BeginStamped ==
  ASSUME TypeOK, NEW rid \in Rids, NEW v \in Stamps, table' = [table EXCEPT ![rid].begin = v]
  PROVE  /\ table' \in [Rids -> [begin : Stamps, end : Stamps]]
         /\ table'[rid].end = table[rid].end /\ table'[rid].begin = v
         /\ \A q \in Rids : q # rid => table'[q] = table[q]
  BY Zenon DEF TypeOK

LEMMA RowReplaced ==
  ASSUME TypeOK, NEW rid \in Rids, NEW b \in Stamps, NEW e \in Stamps,
         table' = [table EXCEPT ![rid] = [begin |-> b, end |-> e]]
  PROVE  /\ table' \in [Rids -> [begin : Stamps, end : Stamps]]
         /\ table'[rid].end = e /\ table'[rid].begin = b
         /\ \A q \in Rids : q # rid => table'[q] = table[q]
  BY Zenon DEF TypeOK

(* The first property that follows from the invariant. *)
LEMMA InvWriteExclusion == IInv => WriteExclusion
  <1> SUFFICES ASSUME IInv, NEW s \in Sessions, NEW t \in Sessions, s # t,
                      NEW o \in Pending(s), NEW p \in Pending(t), o.rid = p.rid
               PROVE  FALSE
    BY Zenon DEF WriteExclusion
  <1> DEFINE r == o.rid
  <1>1. o \in Op /\ p \in Op
    BY PendingFacts, Zenon DEF IInv
  <1>2. r \in Rids /\ o.type \in {"INSERT", "DELETE"} /\ p.type \in {"INSERT", "DELETE"}
    BY <1>1, Zenon DEF Op
  <1>3. id[s] \in Int /\ id[t] \in Int /\ id[s] > 0 /\ id[t] > 0 /\ id[s] # id[t]
    <2>1. Started(s) /\ id[s] \in 1..current_trx_id /\ id[t] \in 1..current_trx_id
      BY PendingStarted, Zenon
    <2>2. id[s] # id[t]
      BY <2>1, Zenon DEF IInv, IdsDistinct
    <2>3. current_trx_id \in Nat
      BY IdFacts, Zenon DEF IInv
    <2> QED BY <2>1, <2>2, <2>3
  <1>4. /\ IF o.type = "INSERT" THEN table[r].begin = -id[s] ELSE table[r].end = -id[s]
        /\ IF p.type = "INSERT" THEN table[r].begin = -id[t] ELSE table[r].end = -id[t]
    BY Zenon DEF IInv, PendingOwned
  <1>5. table[r].begin < 0 /\ table[r].end < 0 => table[r].begin = table[r].end
    BY <1>2, Zenon DEF IInv, RowShape
  <1> HIDE DEF r
  <1> QED BY <1>2, <1>3, <1>4, <1>5

-----------------------------------------------------------------------------
(* The steps that touch no row *)

LEMMA InitInv == Init => IInv /\ Owned
  <1> SUFFICES ASSUME Init PROVE IInv /\ Owned
    BY Zenon
  <1>1. TypeOK
    BY MvccTrxAssumption DEF Init, TypeOK, Stamps, NoRecord
  <1>2. \A s \in Sessions : pc[s] = "idle" /\ id[s] = -1 /\ ops[s] = <<>> /\ done[s] = 0
    BY Zenon DEF Init
  <1>3. \A s \in Sessions : Unhandled(s) = {} /\ Pending(s) = {}
    <2>1. \A s \in Sessions : Unhandled(s) = 1..0 - 0
      BY <1>2, Zenon DEF Unhandled
    <2>2. (1..0 - 0) = {}
      OBVIOUS
    <2>3. \A s \in Sessions : Unhandled(s) = {}
      BY <2>1, <2>2, Zenon
    <2> QED BY <2>3, Zenon DEF Pending
  <1>4. \A rid \in Rids : table[rid].begin = 0 /\ table[rid].end = 0
    BY Zenon DEF Init, NoRecord
  <1>5. IdsDistinct /\ SessionShape /\ AbandonedGone /\ InsertsCommitted
    BY <1>2, Zenon DEF Init, IdsDistinct, SessionShape, AbandonedGone, InsertsCommitted, Started
  <1>6. RowShape /\ OpsOrdered /\ PendingOwned /\ StampsOwned
    BY <1>3, <1>4 DEF RowShape, OpsOrdered, PendingOwned, StampsOwned
  <1> QED BY <1>1, <1>5, <1>6, Zenon DEF IInv, Owned

(* A step that changes neither the rows nor what is pending keeps the      *)
(* parts of the invariant that relate the two.                             *)
LEMMA RowsQuiet ==
  ASSUME IInv, table' = table, abandoned \subseteq abandoned',
         \A t \in Sessions : Unhandled(t)' = Unhandled(t) /\ Pending(t)' = Pending(t),
         \A t \in Sessions : \A i \in Unhandled(t) : ops'[t][i] = ops[t][i],
         \A t \in Sessions : Pending(t) # {} => id'[t] = id[t]
  PROVE  RowShape' /\ OpsOrdered' /\ PendingOwned' /\ StampsKept
  <1>1. RowShape'
    BY Zenon DEF IInv, RowShape
  <1>2. OpsOrdered'
    BY DEF IInv, OpsOrdered
  <1>3. PendingOwned'
    BY DEF IInv, PendingOwned
  <1>4. StampsKept
    BY DEF StampsKept, StampsOwned
  <1> QED BY <1>1, <1>2, <1>3, <1>4, Zenon

LEMMA StartInv == ASSUME IInv, NEW s \in Sessions, Start(s) PROVE IInv' /\ OwnedKept
  <1>0. ops' = ops /\ done' = done /\ cid' = cid /\ table' = table /\ abandoned' = abandoned
    BY Zenon DEF Start
  <1>1. /\ pc[s] = "idle" /\ ops[s] = <<>> /\ done[s] = 0
        /\ pc'[s] = "active" /\ id'[s] = current_trx_id + 1
        /\ \A t \in Sessions : t # s => pc'[t] = pc[t] /\ id'[t] = id[t]
        /\ current_trx_id' = current_trx_id + 1 /\ current_trx_id' <= MaxId
    BY MvccTrxAssumption DEF Start, IInv, TypeOK, SessionShape
  <1>2. TypeOK'
    BY <1>0, MvccTrxAssumption DEF Start, IInv, TypeOK
  <1>3. \A t \in Sessions : Unhandled(t)' = Unhandled(t)
    BY <1>0, <1>1, Zenon DEF Unhandled
  <1>4. \A t \in Sessions : Pending(t)' = Pending(t)
    BY <1>0, <1>3, Zenon DEF Pending
  <1>5. Pending(s) = {}
    BY <1>1 DEF Pending, Unhandled
  <1>6. RowShape' /\ OpsOrdered' /\ PendingOwned' /\ StampsKept
    BY <1>0, <1>1, <1>3, <1>4, <1>5, RowsQuiet, Zenon
  <1>7. IdsDistinct'
    <2>1. \A t \in Sessions : id[t] \in Int /\ (id[t] = -1 \/ id[t] \in 1..current_trx_id)
      BY IdFacts, Zenon DEF IInv
    <2>2. current_trx_id \in Nat /\ \A t \in Sessions : cid[t] \in Nat
      BY DEF IInv, TypeOK
    <2> QED BY <1>0, <1>1, <2>1, <2>2 DEF IInv, IdsDistinct, Started
  <1>8. SessionShape'
    BY <1>0, <1>1, SMTT(60) DEF IInv, SessionShape, Started, TypeOK
  <1>9. AbandonedKept
    BY <1>0, <1>1 DEF IInv, AbandonedGone, AbandonedKept, TypeOK
  <1>10. InsertsCommitted'
    BY <1>0, <1>1, Zenon DEF IInv, InsertsCommitted
  <1> QED BY <1>2, <1>6, <1>7, <1>8, <1>9, <1>10, Zenon DEF IInv, OwnedKept

LEMMA CommitBeginInv == ASSUME IInv, NEW s \in Sessions, CommitBegin(s) PROVE IInv' /\ OwnedKept
  <1>0. ops' = ops /\ done' = done /\ id' = id /\ table' = table /\ abandoned' = abandoned
    BY Zenon DEF CommitBegin
  <1>1. /\ pc[s] \in {"idle", "active"} /\ done[s] = 0
        /\ pc'[s] = "commit" /\ cid'[s] = current_trx_id + 1
        /\ \A t \in Sessions : t # s => pc'[t] = pc[t] /\ cid'[t] = cid[t]
        /\ current_trx_id' = current_trx_id + 1 /\ current_trx_id' <= MaxId
    BY MvccTrxAssumption DEF CommitBegin, IInv, TypeOK, SessionShape
  <1>2. TypeOK'
    BY <1>0, MvccTrxAssumption DEF CommitBegin, IInv, TypeOK
  <1>3. \A t \in Sessions : Unhandled(t)' = Unhandled(t)
    <2>1. Unhandled(s) = 1..Len(ops[s]) /\ Unhandled(s)' = 1..Len(ops[s])
      BY <1>0, <1>1, PendingFacts DEF Unhandled, IInv
    <2> QED BY <1>0, <1>1, <2>1, Zenon DEF Unhandled
  <1>4. \A t \in Sessions : Pending(t)' = Pending(t)
    BY <1>0, <1>3 DEF Pending
  <1>5. RowShape' /\ OpsOrdered' /\ PendingOwned' /\ StampsKept
    BY <1>0, <1>3, <1>4, RowsQuiet, Zenon
  <1>6. IdsDistinct'
    <2>1. \A t \in Sessions : id[t] \in Int /\ (id[t] = -1 \/ id[t] \in 1..current_trx_id)
      BY IdFacts DEF IInv
    <2>2. current_trx_id \in Nat /\ \A t \in Sessions : cid[t] \in Nat
      BY DEF IInv, TypeOK
    <2> QED BY <1>0, <1>1, <2>1, <2>2 DEF IInv, IdsDistinct, Started
  <1>7. SessionShape'
    BY <1>0, <1>1, SMTT(60) DEF IInv, SessionShape, Started, TypeOK
  <1>8. AbandonedKept
    BY <1>0, <1>1 DEF IInv, AbandonedGone, AbandonedKept, TypeOK
  <1>9. InsertsCommitted'
    <2> SUFFICES ASSUME NEW t \in Sessions, pc'[t] = "commit", NEW i \in 1..done[t],
                        ops[t][i].type = "INSERT"
                 PROVE  table[ops[t][i].rid].begin = cid'[t]
      BY <1>0, Zenon DEF InsertsCommitted
    <2>1. t # s
      BY <1>1
    <2> QED BY <1>1, <2>1, Zenon DEF IInv, InsertsCommitted
  <1> QED BY <1>2, <1>5, <1>6, <1>7, <1>8, <1>9 DEF IInv, OwnedKept

LEMMA RollbackBeginInv == ASSUME IInv, NEW s \in Sessions, RollbackBegin(s) PROVE IInv' /\ OwnedKept
  <1>0. /\ ops' = ops /\ done' = done /\ id' = id /\ cid' = cid /\ table' = table
        /\ abandoned' = abandoned /\ current_trx_id' = current_trx_id
    BY Zenon DEF RollbackBegin
  <1>1. /\ pc[s] \in {"idle", "active"} /\ pc'[s] = "rollback"
        /\ \A t \in Sessions : t # s => pc'[t] = pc[t]
    BY Zenon DEF RollbackBegin, IInv, TypeOK
  <1>2. TypeOK'
    BY <1>0, Zenon DEF RollbackBegin, IInv, TypeOK
  <1>3. \A t \in Sessions : Unhandled(t)' = Unhandled(t)
    BY <1>0, <1>1, Zenon DEF Unhandled
  <1>4. \A t \in Sessions : Pending(t)' = Pending(t)
    BY <1>0, <1>3, Zenon DEF Pending
  <1>5. RowShape' /\ OpsOrdered' /\ PendingOwned' /\ StampsKept
    BY <1>0, <1>3, <1>4, RowsQuiet, Zenon
  <1>6. IdsDistinct' /\ SessionShape' /\ AbandonedKept /\ InsertsCommitted'
    BY <1>0, <1>1 DEF IInv, IdsDistinct, Started, SessionShape, AbandonedGone, AbandonedKept, InsertsCommitted
  <1> QED BY <1>2, <1>5, <1>6, Zenon DEF IInv, OwnedKept

(* A transaction that has nothing pending any more, or that is abandoned,  *)
(* is destroyed.                                                           *)
LEMMA DestroyedInv ==
  ASSUME IInv, NEW s \in Sessions, Destroyed(s), table' = table, current_trx_id' = current_trx_id,
         \/ Pending(s) = {} /\ abandoned' = abandoned
         \/ pc[s] = "active" /\ abandoned' = abandoned \union {id[s]}
  PROVE  IInv' /\ OwnedKept
  <1>0. /\ pc'[s] = "idle" /\ id'[s] = -1 /\ ops'[s] = <<>> /\ done'[s] = 0
        /\ \A t \in Sessions : t # s => /\ pc'[t] = pc[t] /\ id'[t] = id[t] /\ ops'[t] = ops[t]
                                        /\ done'[t] = done[t] /\ cid'[t] = cid[t]
    BY Zenon DEF Destroyed, IInv, TypeOK
  <1>1. pc[s] = "active" => id[s] \in 1..current_trx_id
    BY Zenon DEF IInv, SessionShape, IdsDistinct
  <1>2. TypeOK'
    <2>1. ops' \in [Sessions -> Seq(Op)]
      BY DEF Destroyed, IInv, TypeOK
    <2>2. done' \in [Sessions -> Nat] /\ cid' \in [Sessions -> 0..MaxId] /\ id' \in [Sessions -> -1..MaxId]
      BY MvccTrxAssumption DEF Destroyed, IInv, TypeOK
    <2>3. pc' \in [Sessions -> {"idle", "active", "commit", "rollback"}]
      BY Zenon DEF Destroyed, IInv, TypeOK
    <2>4. \A t \in Sessions : done'[t] <= Len(ops'[t])
      <3>1. Len(<<>>) = 0
        BY Zenon
      <3>2. done'[s] <= Len(ops'[s])
        BY <1>0, <3>1
      <3>3. ASSUME NEW t \in Sessions, t # s PROVE done'[t] <= Len(ops'[t])
        BY <1>0, <3>3, Zenon DEF IInv, TypeOK
      <3> QED BY <3>2, <3>3, Zenon
    <2>5. abandoned' \subseteq 1..MaxId
      <3>1. abandoned \subseteq 1..MaxId /\ current_trx_id \in 0..MaxId
        BY Zenon DEF IInv, TypeOK
      <3>2. pc[s] = "active" => id[s] \in 1..MaxId
        BY <1>1, <3>1, MvccTrxAssumption
      <3> QED BY <3>1, <3>2, Zenon
    <2> QED BY <2>1, <2>2, <2>3, <2>4, <2>5, Zenon DEF IInv, TypeOK
  <1>3. \A t \in Sessions : t # s => Unhandled(t)' = Unhandled(t) /\ Pending(t)' = Pending(t)
    BY <1>0 DEF Unhandled, Pending
  <1>4. Unhandled(s)' = {} /\ Pending(s)' = {}
    <2>1. Unhandled(s)' = 1..0 - 0
      BY <1>0, Zenon DEF Unhandled
    <2> QED BY <2>1 DEF Pending
  <1>5. RowShape'
    BY Zenon DEF IInv, RowShape
  <1>6. OpsOrdered' /\ PendingOwned'
    BY <1>0, <1>3, <1>4, SMTT(60) DEF IInv, OpsOrdered, PendingOwned
  <1>7. StampsKept
    <2> SUFFICES ASSUME StampsOwned PROVE StampsOwned'
      BY Zenon DEF StampsKept
    <2>1. ASSUME NEW rid \in Rids, table[rid].begin < 0, -table[rid].begin \notin abandoned'
          PROVE  \E t \in Sessions : id'[t] = -table[rid].begin /\
                   [type |-> "INSERT", rid |-> rid] \in Pending(t)'
      <3>1. PICK t \in Sessions : id[t] = -table[rid].begin /\
                   [type |-> "INSERT", rid |-> rid] \in Pending(t)
        BY <2>1, Zenon DEF StampsOwned
      <3>2. t # s
        BY <2>1, <3>1, Zenon
      <3> QED BY <1>0, <1>3, <3>1, <3>2, Zenon
    <2>2. ASSUME NEW rid \in Rids, table[rid].end < 0, -table[rid].end \notin abandoned'
          PROVE  \E t \in Sessions : id'[t] = -table[rid].end /\
                   [type |-> "DELETE", rid |-> rid] \in Pending(t)'
      <3>1. PICK t \in Sessions : id[t] = -table[rid].end /\
                   [type |-> "DELETE", rid |-> rid] \in Pending(t)
        BY <2>2, Zenon DEF StampsOwned
      <3>2. t # s
        BY <2>2, <3>1, Zenon
      <3> QED BY <1>0, <1>3, <3>1, <3>2
    <2> QED BY <2>1, <2>2, Zenon DEF StampsOwned
  <1>8. IdsDistinct'
    BY <1>0 DEF IInv, IdsDistinct, Started
  <1>9. SessionShape' /\ InsertsCommitted'
    BY <1>0 DEF IInv, SessionShape, InsertsCommitted, Started
  <1>10. AbandonedKept
    <2>1. \A t \in Sessions : pc[s] = "active" /\ t # s => id[t] # id[s]
      BY Zenon DEF IInv, SessionShape, IdsDistinct
    <2>2. \A a \in abandoned' : a \in 1..MaxId /\ a # -1
      <3>1. abandoned' \subseteq 1..MaxId
        BY <1>2, Zenon DEF TypeOK
      <3> QED BY ONLY <3>1, MvccTrxAssumption
    <2> QED BY <1>0, <1>1, <2>1, <2>2 DEF IInv, AbandonedGone, AbandonedKept
  <1> QED BY <1>2, <1>5, <1>6, <1>7, <1>8, <1>9, <1>10, Zenon DEF IInv, OwnedKept

LEMMA EndInv ==
  ASSUME IInv, NEW s \in Sessions, CommitEnd(s) \/ RollbackEnd(s) \/ Abandon(s)
  PROVE  IInv' /\ OwnedKept
  <1>1. CASE CommitEnd(s) \/ RollbackEnd(s)
    <2>1. done[s] = Len(ops[s]) /\ Len(ops[s]) \in Nat
      BY <1>1, PendingFacts, Zenon DEF CommitEnd, RollbackEnd, IInv
    <2>2. Unhandled(s) = {}
      BY <2>1 DEF Unhandled
    <2>3. Pending(s) = {}
      BY <2>2, Zenon DEF Pending
    <2> QED BY <1>1, <2>3, DestroyedInv, Zenon DEF CommitEnd, RollbackEnd
  <1>2. CASE Abandon(s)
    BY <1>2, DestroyedInv, Zenon DEF Abandon
  <1> QED BY <1>1, <1>2, Zenon

-----------------------------------------------------------------------------
(* The steps of an open transaction *)

LEMMA OpAppended ==
  ASSUME IInv, NEW s \in Sessions, pc[s] = "active", NEW op \in Op,
         ops' = [ops EXCEPT ![s] = Append(@, op)], pc' = pc, done' = done
  PROVE  /\ ops' \in [Sessions -> Seq(Op)]
         /\ \A t \in Sessions : done'[t] <= Len(ops'[t])
         /\ \A t \in Sessions : t # s => /\ ops'[t] = ops[t] /\ Unhandled(t)' = Unhandled(t)
                                         /\ Pending(t)' = Pending(t)
         /\ Unhandled(s) = 1..Len(ops[s]) /\ Unhandled(s)' = 1..Len(ops[s]) + 1
         /\ \A i \in 1..Len(ops[s]) : ops'[s][i] = ops[s][i]
         /\ ops'[s][Len(ops[s]) + 1] = op
         /\ Pending(s)' = Pending(s) \union {op}
  <1> DEFINE n == Len(ops[s])
  <1>1. ops[s] \in Seq(Op) /\ n \in Nat /\ done[s] = 0
    BY PendingFacts, Zenon DEF IInv, TypeOK, SessionShape
  <1>2. ops'[s] = Append(ops[s], op) /\ \A t \in Sessions : t # s => ops'[t] = ops[t]
    BY Zenon DEF IInv, TypeOK
  <1>3. /\ Append(ops[s], op) \in Seq(Op) /\ Len(Append(ops[s], op)) = n + 1
        /\ \A i \in 1..n : Append(ops[s], op)[i] = ops[s][i]
        /\ Append(ops[s], op)[n + 1] = op
    BY <1>1
  <1>4. ops' \in [Sessions -> Seq(Op)]
    BY <1>3, Zenon DEF IInv, TypeOK
  <1>5. \A t \in Sessions : done'[t] <= Len(ops'[t])
    BY <1>1, <1>2, <1>3 DEF IInv, TypeOK
  <1>6. Unhandled(s) = 1..n /\ Unhandled(s)' = 1..n + 1
    BY <1>1, <1>2, <1>3 DEF Unhandled
  <1>7. \A t \in Sessions : t # s => Unhandled(t)' = Unhandled(t) /\ Pending(t)' = Pending(t)
    BY <1>2 DEF Unhandled, Pending
  <1>8. Pending(s)' = Pending(s) \union {op}
    <2>1. Pending(s)' = {ops'[s][i] : i \in 1..n + 1}
      BY <1>6, Zenon DEF Pending
    <2>2. Pending(s) = {ops[s][i] : i \in 1..n}
      BY <1>6, Zenon DEF Pending
    <2>3. 1..n + 1 = 1..n \union {n + 1}
      BY <1>1
    <2>4. (\A i \in 1..n : ops'[s][i] = ops[s][i]) /\ ops'[s][n + 1] = op
      BY <1>2, <1>3, Zenon
    <2> HIDE DEF n
    <2> QED BY <2>1, <2>2, <2>3, <2>4, ZenonT(60)
  <1> QED BY <1>2, <1>3, <1>4, <1>5, <1>6, <1>7, <1>8, Zenon

(* A commit that has an operation has an id above the transaction's. *)
LEMMA CommittedOp ==
  ASSUME IInv, NEW t \in Sessions, pc[t] = "commit", NEW i \in 1..done[t]
  PROVE  /\ cid[t] > 0 /\ i \in 1..Len(ops[t])
         /\ ops[t][i] \in Op /\ ops[t][i].rid \in Rids
  <1>1. i \in 1..Len(ops[t])
    BY PendingFacts DEF IInv
  <1>2. ops[t][i] \in Op
    BY <1>1, PendingFacts, Zenon DEF IInv
  <1>3. Started(t)
    <2>1. ops[t] # <<>>
      BY <1>1
    <2> QED BY <2>1, Zenon DEF IInv, SessionShape
  <1>4. id[t] \in 1..current_trx_id /\ id[t] < cid[t]
    BY <1>3, Zenon DEF IInv, IdsDistinct
  <1>5. cid[t] \in Nat /\ current_trx_id \in Nat
    BY DEF IInv, TypeOK
  <1> QED BY <1>1, <1>2, <1>4, <1>5 DEF Op

(* The parts of the invariant an appended operation cannot disturb. *)
LEMMA OpAppendedQuiet ==
  ASSUME IInv, NEW s \in Sessions, pc[s] = "active", NEW op \in Op,
         ops' = [ops EXCEPT ![s] = Append(@, op)],
         table' \in [Rids -> [begin : Stamps, end : Stamps]],
         \A rid \in Rids : table[rid].begin > 0 => table'[rid].begin = table[rid].begin,
         UNCHANGED <<current_trx_id, pc, id, cid, done, abandoned>>
  PROVE  TypeOK' /\ IdsDistinct' /\ SessionShape' /\ AbandonedKept /\ InsertsCommitted'
  <1>1. TypeOK'
    <2>1. ops' \in [Sessions -> Seq(Op)] /\ \A t \in Sessions : done'[t] <= Len(ops'[t])
      BY OpAppended, Zenon
    <2>2. TypeOK /\ table' \in [Rids -> [begin : Stamps, end : Stamps]]
          /\ UNCHANGED <<current_trx_id, pc, id, cid, done, abandoned>>
      BY Zenon DEF IInv
    <2> QED BY ONLY <2>1, <2>2, Zenon DEF TypeOK
  <1>2. IdsDistinct' /\ AbandonedKept
    BY Zenon DEF IInv, IdsDistinct, Started, AbandonedGone, AbandonedKept
  <1>3. SessionShape'
    BY OpAppended DEF IInv, SessionShape, Started
  <1>4. InsertsCommitted'
    <2> SUFFICES ASSUME NEW t \in Sessions, pc[t] = "commit", NEW i \in 1..done[t],
                        ops'[t][i].type = "INSERT"
                 PROVE  table'[ops'[t][i].rid].begin = cid[t]
      BY DEF InsertsCommitted
    <2>1. t # s /\ ops'[t] = ops[t]
      BY OpAppended, Zenon
    <2>2. table[ops[t][i].rid].begin = cid[t]
      BY <2>1, Zenon DEF IInv, InsertsCommitted
    <2>3. cid[t] > 0 /\ ops[t][i].rid \in Rids
      BY CommittedOp, Zenon
    <2> QED BY <2>1, <2>2, <2>3, Zenon
  <1> QED BY <1>1, <1>2, <1>3, <1>4, Zenon

(* Nobody has an unfinished operation on a slot that an insert takes, and  *)
(* only the inserter of a row has one on a row that it deletes.            *)
LEMMA InsertFree ==
  ASSUME IInv, NEW s \in Sessions, NEW r \in Rids, Insert(s, r),
         NEW t \in Sessions, NEW p \in Pending(t)
  PROVE  p \in Op /\ p.rid # r
  <1>1. table[r].begin = 0 /\ table[r].end = 0
    BY DEF Insert, NoRecord
  <1>2. id[t] \in 1..current_trx_id /\ current_trx_id \in Nat
    BY PendingStarted, IdFacts, Zenon DEF IInv
  <1>3. p \in Op
    BY PendingFacts, Zenon DEF IInv
  <1>4. IF p.type = "INSERT" THEN table[p.rid].begin = -id[t] ELSE table[p.rid].end = -id[t]
    BY Zenon DEF IInv, PendingOwned
  <1> QED BY <1>1, <1>2, <1>3, <1>4

LEMMA DeleteFree ==
  ASSUME IInv, ~SelfDeleteTwice, NEW s \in Sessions, NEW r \in Rids, Delete(s, r)
  PROVE  /\ (table[r].begin > 0 /\ table[r].end > 0) \/ table[r].begin = -id[s]
         /\ \A t \in Sessions : \A p \in Pending(t) :
              p \in Op /\ (p.rid = r => t = s /\ p.type = "INSERT")
  <1>1. pc[s] = "active" /\ table[r].end # -id[s]
    BY Zenon DEF Delete
  <1>2. id[s] \in 1..current_trx_id /\ id[s] \in Int /\ id[s] > 0
    <2>1. Started(s) /\ id[s] \in 1..current_trx_id /\ current_trx_id \in 0..MaxId
      BY <1>1, Zenon DEF IInv, SessionShape, IdsDistinct, TypeOK
    <2> QED BY <2>1, MvccTrxAssumption
  <1>3. (table[r].begin > 0 /\ table[r].end > 0) \/ table[r].begin = -id[s]
    <2>1. Visit(s, table[r], "READ_WRITE") = "SUCCESS"
      BY Zenon DEF Delete
    <2>2. table[r].begin \in Int /\ table[r].end \in Int
      BY StampFacts, Zenon DEF IInv
    <2> QED BY <1>2, <2>1, <2>2 DEF Visit
  <1>4. ASSUME NEW t \in Sessions, NEW p \in Pending(t)
        PROVE  p \in Op /\ (p.rid = r => t = s /\ p.type = "INSERT")
    <2>1. id[t] \in 1..current_trx_id /\ current_trx_id \in Nat /\ Started(t)
      BY PendingStarted, IdFacts, Zenon DEF IInv
    <2>2. p \in Op
      BY PendingFacts, Zenon DEF IInv
    <2>3. IF p.type = "INSERT" THEN table[p.rid].begin = -id[t] ELSE table[p.rid].end = -id[t]
      BY Zenon DEF IInv, PendingOwned
    <2>4. t # s => id[t] # id[s]
      BY <2>1, Zenon DEF IInv, IdsDistinct
    <2>5. table[r].begin < 0 /\ table[r].end < 0 => table[r].begin = table[r].end
      BY Zenon DEF IInv, RowShape
    <2> QED BY <1>1, <1>2, <1>3, <2>1, <2>2, <2>3, <2>4, <2>5
  <1> QED BY <1>3, <1>4, Zenon

LEMMA InsertInv ==
  ASSUME IInv, NEW s \in Sessions, NEW r \in Rids, Insert(s, r)
  PROVE  IInv' /\ OwnedKept
  <1> DEFINE op == [type |-> "INSERT", rid |-> r]
  <1>1. op \in Op
    BY Zenon DEF Op
  <1>2. /\ pc[s] = "active" /\ ops' = [ops EXCEPT ![s] = Append(@, op)]
        /\ UNCHANGED <<current_trx_id, pc, id, cid, done, abandoned>>
        /\ table' = [table EXCEPT ![r] = [begin |-> -id[s], end |-> MaxTrxId]]
        /\ table[r].begin = 0 /\ table[r].end = 0
    BY DEF Insert, NoRecord
  <1>3. id[s] \in 1..current_trx_id /\ id[s] \in Int /\ id[s] > 0 /\ -id[s] \in Stamps /\ MaxTrxId \in Stamps
    <2>1. Started(s) /\ id[s] \in 1..current_trx_id
      BY <1>2, Zenon DEF IInv, SessionShape, IdsDistinct
    <2>2. current_trx_id \in 0..MaxId
      BY Zenon DEF IInv, TypeOK
    <2> QED BY <2>1, <2>2, MvccTrxAssumption DEF Stamps
  <1>4. /\ table' \in [Rids -> [begin : Stamps, end : Stamps]]
        /\ table'[r].begin = -id[s] /\ table'[r].end = MaxTrxId
        /\ \A q \in Rids : q # r => table'[q] = table[q]
    BY <1>2, <1>3, RowReplaced, Zenon DEF IInv
  <1>5. TypeOK' /\ IdsDistinct' /\ SessionShape' /\ AbandonedKept /\ InsertsCommitted'
    <2>1. \A rid \in Rids : table[rid].begin > 0 => table'[rid].begin = table[rid].begin
      BY <1>2, <1>4
    <2> QED BY <1>1, <1>2, <1>4, <2>1, OpAppendedQuiet, Zenon
  <1>6. RowShape'
    BY <1>4, MvccTrxAssumption, SMTT(60) DEF IInv, RowShape
  <1>7. /\ \A t \in Sessions : t # s => /\ ops'[t] = ops[t] /\ Unhandled(t)' = Unhandled(t)
                                        /\ Pending(t)' = Pending(t)
        /\ Unhandled(s) = 1..Len(ops[s]) /\ Unhandled(s)' = 1..Len(ops[s]) + 1
        /\ \A i \in 1..Len(ops[s]) : ops'[s][i] = ops[s][i]
        /\ ops'[s][Len(ops[s]) + 1] = op
        /\ Pending(s)' = Pending(s) \union {op}
    BY <1>1, <1>2, OpAppended, Zenon
  <1>8. \A t \in Sessions : \A p \in Pending(t) : p \in Op /\ p.rid # r
    BY InsertFree, Zenon
  <1>9. OpsOrdered'
    <2> SUFFICES ASSUME NEW t \in Sessions, NEW i \in Unhandled(t)', NEW j \in Unhandled(t)',
                        i < j, ops'[t][i].rid = ops'[t][j].rid
                 PROVE  ops'[t][i].type = "INSERT" /\ ops'[t][j].type = "DELETE"
      BY Zenon DEF OpsOrdered
    <2>1. CASE t # s
      BY <1>7, <2>1 DEF IInv, OpsOrdered
    <2>2. CASE t = s
      <3>1. i \in 1..Len(ops[s]) /\ j \in 1..Len(ops[s]) + 1 /\ Len(ops[s]) \in Nat
        <4>1. Len(ops[s]) \in Nat
          BY PendingFacts, Zenon DEF IInv
        <4>2. i \in 1..Len(ops[s]) + 1 /\ j \in 1..Len(ops[s]) + 1 /\ i < j
          BY <1>7, <2>2, Zenon
        <4> QED BY ONLY <4>1, <4>2
      <3>2. ops[s][i] \in Pending(s)
        BY <1>7, <3>1, Zenon DEF Pending
      <3>3. ops[s][i].rid # r
        BY <1>8, <3>2, Zenon
      <3>4. j # Len(ops[s]) + 1
        BY <1>7, <2>2, <3>1, <3>3
      <3>5. j \in 1..Len(ops[s])
        BY <3>1, <3>4
      <3>6. /\ i \in Unhandled(s) /\ j \in Unhandled(s)
            /\ ops'[s][i] = ops[s][i] /\ ops'[s][j] = ops[s][j]
        BY <1>7, <3>1, <3>5, Zenon
      <3>7. i < j /\ ops[s][i].rid = ops[s][j].rid
        BY <2>2, <3>6, Zenon
      <3>8. ops[s][i].type = "INSERT" /\ ops[s][j].type = "DELETE"
        BY <3>6, <3>7, Zenon DEF IInv, OpsOrdered
      <3> QED BY <2>2, <3>6, <3>8, Zenon
    <2> QED BY <2>1, <2>2, Zenon
  <1>10. PendingOwned'
    <2> SUFFICES ASSUME NEW t \in Sessions, NEW p \in Pending(t)'
                 PROVE  IF p.type = "INSERT" THEN table'[p.rid].begin = -id[t]
                                             ELSE table'[p.rid].end = -id[t]
      BY <1>2, Zenon DEF PendingOwned
    <2>1. CASE p \in Pending(t)
      <3>1. p.rid \in Rids /\ p.rid # r
        BY <1>8, <2>1, Zenon DEF Op
      <3>2. IF p.type = "INSERT" THEN table[p.rid].begin = -id[t] ELSE table[p.rid].end = -id[t]
        BY <2>1, Zenon DEF IInv, PendingOwned
      <3> QED BY <1>4, <3>1, <3>2, Zenon
    <2>2. CASE p \notin Pending(t)
      <3>1. t = s /\ p = op
        BY <1>7, <2>2, SMTT(60)
      <3> QED BY <1>4, <3>1, Zenon
    <2> QED BY <2>1, <2>2, Zenon
  <1>11. StampsKept
    <2> SUFFICES ASSUME StampsOwned PROVE StampsOwned'
      BY Zenon DEF StampsKept
    <2>0. \A t \in Sessions : Pending(t) \subseteq Pending(t)'
      BY <1>7, Zenon
    <2>1. ASSUME NEW q \in Rids, q # r
          PROVE  /\ table'[q].begin < 0 =>
                      \/ -table'[q].begin \in abandoned
                      \/ \E t \in Sessions : id[t] = -table'[q].begin /\
                           [type |-> "INSERT", rid |-> q] \in Pending(t)'
                 /\ table'[q].end < 0 =>
                      \/ -table'[q].end \in abandoned
                      \/ \E t \in Sessions : id[t] = -table'[q].end /\
                           [type |-> "DELETE", rid |-> q] \in Pending(t)'
      <3>1. table'[q] = table[q]
        BY <1>4, <2>1, Zenon
      <3> QED BY <2>0, <3>1, Zenon DEF StampsOwned
    <2>2. id[s] = -table'[r].begin /\ op \in Pending(s)' /\ ~(table'[r].end < 0)
      BY <1>3, <1>4, <1>7, MvccTrxAssumption
    <2> QED BY <1>2, <2>1, <2>2, Zenon DEF StampsOwned
  <1> QED BY <1>5, <1>6, <1>9, <1>10, <1>11, Zenon DEF IInv, OwnedKept

LEMMA DeleteInv ==
  ASSUME IInv, ~SelfDeleteTwice, NEW s \in Sessions, NEW r \in Rids, Delete(s, r)
  PROVE  IInv' /\ OwnedKept
  <1> DEFINE op == [type |-> "DELETE", rid |-> r]
  <1>1. op \in Op
    BY Zenon DEF Op
  <1>2. /\ pc[s] = "active" /\ ops' = [ops EXCEPT ![s] = Append(@, op)]
        /\ UNCHANGED <<current_trx_id, pc, id, cid, done, abandoned>>
        /\ table' = [table EXCEPT ![r].end = -id[s]]
        /\ table[r].end # -id[s]
    BY Zenon DEF Delete
  <1>3. id[s] \in 1..current_trx_id /\ id[s] \in Int /\ id[s] > 0 /\ -id[s] \in Stamps
    <2>1. Started(s) /\ id[s] \in 1..current_trx_id
      BY <1>2, Zenon DEF IInv, SessionShape, IdsDistinct
    <2>2. current_trx_id \in 0..MaxId
      BY Zenon DEF IInv, TypeOK
    <2> QED BY <2>1, <2>2, MvccTrxAssumption DEF Stamps
  <1>4. /\ table' \in [Rids -> [begin : Stamps, end : Stamps]]
        /\ table'[r].begin = table[r].begin /\ table'[r].end = -id[s]
        /\ \A q \in Rids : q # r => table'[q] = table[q]
    BY <1>2, <1>3, EndStamped, Zenon DEF IInv
  <1>5. (table[r].begin > 0 /\ table[r].end > 0) \/ table[r].begin = -id[s]
    BY DeleteFree, Zenon
  <1>6. TypeOK' /\ IdsDistinct' /\ SessionShape' /\ AbandonedKept /\ InsertsCommitted'
    <2>1. \A rid \in Rids : table[rid].begin > 0 => table'[rid].begin = table[rid].begin
      BY <1>4, Zenon
    <2> QED BY <1>1, <1>2, <1>4, <2>1, OpAppendedQuiet, Zenon
  <1>7. RowShape'
    <2>1. table'[r].begin < 0 => table'[r].begin = table'[r].end
      <3>1. table[r].begin \in Int
        BY StampFacts, Zenon DEF IInv
      <3>2. table[r].begin < 0 => table[r].begin = -id[s]
        BY <1>5, <3>1
      <3> QED BY <1>4, <3>2, Zenon
    <2> QED BY <1>4, <2>1 DEF IInv, RowShape
  <1>8. /\ \A t \in Sessions : t # s => /\ ops'[t] = ops[t] /\ Unhandled(t)' = Unhandled(t)
                                        /\ Pending(t)' = Pending(t)
        /\ Unhandled(s) = 1..Len(ops[s]) /\ Unhandled(s)' = 1..Len(ops[s]) + 1
        /\ \A i \in 1..Len(ops[s]) : ops'[s][i] = ops[s][i]
        /\ ops'[s][Len(ops[s]) + 1] = op
        /\ Pending(s)' = Pending(s) \union {op}
    BY <1>1, <1>2, OpAppended, Zenon
  <1>9. \A t \in Sessions : \A p \in Pending(t) :
          p \in Op /\ (p.rid = r => t = s /\ p.type = "INSERT")
    BY DeleteFree, Zenon
  <1>10. OpsOrdered'
    <2> SUFFICES ASSUME NEW t \in Sessions, NEW i \in Unhandled(t)', NEW j \in Unhandled(t)',
                        i < j, ops'[t][i].rid = ops'[t][j].rid
                 PROVE  ops'[t][i].type = "INSERT" /\ ops'[t][j].type = "DELETE"
      BY Zenon DEF OpsOrdered
    <2>1. CASE t # s
      BY <1>8, <2>1 DEF IInv, OpsOrdered
    <2>2. CASE t = s
      <3>1. i \in 1..Len(ops[s]) /\ j \in 1..Len(ops[s]) + 1 /\ Len(ops[s]) \in Nat
        <4>1. Len(ops[s]) \in Nat
          BY PendingFacts, Zenon DEF IInv
        <4>2. i \in 1..Len(ops[s]) + 1 /\ j \in 1..Len(ops[s]) + 1 /\ i < j
          BY <1>8, <2>2, Zenon
        <4> QED BY ONLY <4>1, <4>2
      <3>2. ops[s][i] \in Pending(s)
        BY <1>8, <3>1, Zenon DEF Pending
      <3>3. CASE j = Len(ops[s]) + 1
        BY <1>8, <1>9, <2>2, <3>1, <3>2, <3>3
      <3>4. CASE j \in 1..Len(ops[s])
        <4>1. /\ i \in Unhandled(s) /\ j \in Unhandled(s)
              /\ ops'[s][i] = ops[s][i] /\ ops'[s][j] = ops[s][j]
          BY <1>8, <3>1, <3>4, Zenon
        <4>2. i < j /\ ops[s][i].rid = ops[s][j].rid
          BY <2>2, <4>1, Zenon
        <4>3. ops[s][i].type = "INSERT" /\ ops[s][j].type = "DELETE"
          BY <4>1, <4>2, Zenon DEF IInv, OpsOrdered
        <4> QED BY <2>2, <4>1, <4>3, Zenon
      <3> QED BY <3>1, <3>3, <3>4
    <2> QED BY <2>1, <2>2, Zenon
  <1>11. PendingOwned'
    <2> SUFFICES ASSUME NEW t \in Sessions, NEW p \in Pending(t)'
                 PROVE  IF p.type = "INSERT" THEN table'[p.rid].begin = -id[t]
                                             ELSE table'[p.rid].end = -id[t]
      BY <1>2 DEF PendingOwned
    <2>1. CASE p \in Pending(t)
      <3>1. p.rid \in Rids /\ (p.rid = r => p.type = "INSERT")
        BY <1>9, <2>1, Zenon DEF Op
      <3>2. IF p.type = "INSERT" THEN table[p.rid].begin = -id[t] ELSE table[p.rid].end = -id[t]
        BY <2>1, Zenon DEF IInv, PendingOwned
      <3> QED BY <1>4, <3>1, <3>2, Zenon
    <2>2. CASE p \notin Pending(t)
      <3>1. t = s /\ p = op
        BY <1>8, <2>2
      <3> QED BY <1>4, <3>1, Zenon
    <2> QED BY <2>1, <2>2, Zenon
  <1>12. StampsKept
    <2> SUFFICES ASSUME StampsOwned PROVE StampsOwned'
      BY Zenon DEF StampsKept
    <2>0. \A t \in Sessions : Pending(t) \subseteq Pending(t)'
      BY <1>8, Zenon
    <2>1. ASSUME NEW q \in Rids, table'[q].begin < 0
          PROVE  \/ -table'[q].begin \in abandoned
                 \/ \E t \in Sessions : id[t] = -table'[q].begin /\
                      [type |-> "INSERT", rid |-> q] \in Pending(t)'
      <3>1. table'[q].begin = table[q].begin
        BY <1>4, Zenon
      <3> QED BY <2>0, <2>1, <3>1, Zenon DEF StampsOwned
    <2>2. ASSUME NEW q \in Rids, q # r, table'[q].end < 0
          PROVE  \/ -table'[q].end \in abandoned
                 \/ \E t \in Sessions : id[t] = -table'[q].end /\
                      [type |-> "DELETE", rid |-> q] \in Pending(t)'
      BY <1>4, <2>0, <2>2, Zenon DEF StampsOwned
    <2>3. id[s] = -table'[r].end /\ op \in Pending(s)'
      BY <1>3, <1>4, <1>8
    <2> QED BY <1>2, <2>1, <2>2, <2>3, Zenon DEF StampsOwned
  <1> QED BY <1>6, <1>7, <1>10, <1>11, <1>12, Zenon DEF IInv, OwnedKept

(* The steps of a commit and of a rollback *)

(* The operation that a commit or a rollback handles next *)
NextIndex(s) == IF pc[s] = "commit" THEN done[s] + 1 ELSE Len(ops[s]) - done[s]
NextOp(s)    == ops[s][NextIndex(s)]

(* Handling an operation removes it from the pending ones. *)
LEMMA OpHandled ==
  ASSUME IInv, NEW s \in Sessions, done[s] < Len(ops[s]), pc[s] \in {"commit", "rollback"},
         done' = [done EXCEPT ![s] = @ + 1], ops' = ops, pc' = pc
  PROVE  /\ NextIndex(s) \in Unhandled(s) /\ NextOp(s) \in Op /\ NextOp(s) \in Pending(s)
         /\ Unhandled(s)' = Unhandled(s) \ {NextIndex(s)}
         /\ \A t \in Sessions : t # s => /\ Unhandled(t)' = Unhandled(t) /\ Pending(t)' = Pending(t)
         /\ Pending(s)' = Pending(s) \ {NextOp(s)}
         /\ pc[s] = "rollback" /\ NextOp(s).type = "INSERT" =>
              \A p \in Pending(s)' : p.rid # NextOp(s).rid
         /\ pc[s] = "commit" /\ NextOp(s).type = "DELETE" =>
              \A p \in Pending(s)' : p.rid # NextOp(s).rid
         /\ \A p \in Pending(s)' : p.rid = NextOp(s).rid => p.type # NextOp(s).type
         /\ done' \in [Sessions -> Nat] /\ \A t \in Sessions : done'[t] <= Len(ops[t])
  <1> DEFINE k == NextIndex(s)
  <1>0. k = NextIndex(s) /\ NextOp(s) = ops[s][k]
    BY Zenon DEF NextOp
  <1>1. /\ Unhandled(s) \subseteq 1..Len(ops[s])
        /\ Len(ops[s]) \in Nat /\ done[s] \in Nat
        /\ \A i \in 1..Len(ops[s]) : ops[s][i] \in Op
    BY PendingFacts, Zenon DEF IInv
  <1>2. done'[s] = done[s] + 1 /\ \A t \in Sessions : t # s => done'[t] = done[t]
    BY Zenon DEF IInv, TypeOK
  <1>3. k \in Unhandled(s) /\ ops[s][k] \in Op /\ ops[s][k] \in Pending(s)
    <2>1. k \in Unhandled(s)
      BY <1>1 DEF Unhandled, NextIndex
    <2> QED BY <1>1, <2>1, Zenon DEF Pending
  <1>4. Unhandled(s)' = Unhandled(s) \ {k}
    <2>1. pc' = pc /\ ops' = ops /\ done[s] < Len(ops[s]) /\ pc[s] \in {"commit", "rollback"}
      BY Zenon
    <2>2. CASE pc[s] = "commit"
      <3>1. /\ Unhandled(s) = done[s] + 1..Len(ops[s]) /\ k = done[s] + 1
            /\ Unhandled(s)' = done[s] + 1 + 1..Len(ops[s])
        BY <1>2, <2>1, <2>2, Zenon DEF Unhandled, NextIndex
      <3> HIDE DEF k
      <3> QED BY ONLY <1>1, <3>1
    <2>3. CASE pc[s] # "commit"
      <3>1. /\ Unhandled(s) = 1..Len(ops[s]) - done[s] /\ k = Len(ops[s]) - done[s]
            /\ Unhandled(s)' = 1..Len(ops[s]) - (done[s] + 1)
        BY <1>2, <2>1, <2>3, Zenon DEF Unhandled, NextIndex
      <3> HIDE DEF k
      <3> QED BY ONLY <1>1, <3>1
    <2> QED BY <2>2, <2>3, Zenon
  <1> HIDE DEF k
  <1>5. \A t \in Sessions : t # s => Unhandled(t)' = Unhandled(t) /\ Pending(t)' = Pending(t)
    BY <1>2 DEF Unhandled, Pending
  <1>6. ASSUME NEW i \in Unhandled(s), i # k, ops[s][i].rid = ops[s][k].rid
        PROVE  /\ ops[s][i].type # ops[s][k].type
               /\ pc[s] = "rollback" => ops[s][k].type # "INSERT"
               /\ pc[s] = "commit" => ops[s][k].type # "DELETE"
    <2>1. /\ i \in Int /\ k \in Int
          /\ pc[s] = "rollback" => i < k
          /\ pc[s] = "commit" => k < i
      BY <1>1, <1>3, <1>6 DEF Unhandled, NextIndex, k
    <2>2. i < k \/ k < i
      BY <1>6, <2>1
    <2>3. i < k => ops[s][i].type = "INSERT" /\ ops[s][k].type = "DELETE"
      BY <1>3, <1>6, Zenon DEF IInv, OpsOrdered
    <2>4. k < i => ops[s][k].type = "INSERT" /\ ops[s][i].type = "DELETE"
      BY <1>3, <1>6, Zenon DEF IInv, OpsOrdered
    <2> QED BY <2>1, <2>2, <2>3, <2>4, Zenon
  <1>7. Pending(s)' = {ops[s][i] : i \in Unhandled(s) \ {k}}
    BY <1>4, Zenon DEF Pending
  <1>8. Pending(s)' = Pending(s) \ {ops[s][k]}
    <2>1. Pending(s) = {ops[s][i] : i \in Unhandled(s)}
      BY Zenon DEF Pending
    <2>2. \A i \in Unhandled(s) \ {k} : ops[s][i] # ops[s][k]
      BY <1>6, Zenon
    <2> QED BY <1>3, <1>7, <2>1, <2>2, Zenon
  <1>9. /\ pc[s] = "rollback" /\ ops[s][k].type = "INSERT" =>
              \A p \in Pending(s)' : p.rid # ops[s][k].rid
        /\ pc[s] = "commit" /\ ops[s][k].type = "DELETE" =>
              \A p \in Pending(s)' : p.rid # ops[s][k].rid
        /\ \A p \in Pending(s)' : p.rid = ops[s][k].rid => p.type # ops[s][k].type
    <2> SUFFICES ASSUME NEW p \in Pending(s)', p.rid = ops[s][k].rid
                 PROVE  /\ pc[s] = "rollback" => ops[s][k].type # "INSERT"
                        /\ pc[s] = "commit" => ops[s][k].type # "DELETE"
                        /\ p.type # ops[s][k].type
      BY Zenon
    <2>1. PICK i \in Unhandled(s) \ {k} : p = ops[s][i]
      BY <1>7, Zenon
    <2> QED BY <1>6, <2>1, Zenon
  <1>10. done' \in [Sessions -> Nat] /\ \A t \in Sessions : done'[t] <= Len(ops[t])
    BY <1>1, <1>2 DEF IInv, TypeOK
  <1> QED BY <1>0, <1>3, <1>4, <1>5, <1>8, <1>9, <1>10, Zenon

(* The parts of the invariant that a handled operation can disturb only in *)
(* the row it is about.                                                    *)
LEMMA OpHandledQuiet ==
  ASSUME IInv, NEW s \in Sessions, done[s] < Len(ops[s]), pc[s] \in {"commit", "rollback"},
         done' = [done EXCEPT ![s] = @ + 1],
         UNCHANGED <<current_trx_id, pc, id, ops, cid, abandoned>>,
         table' \in [Rids -> [begin : Stamps, end : Stamps]],
         \A q \in Rids : q # NextOp(s).rid => table'[q] = table[q],
         \* the stamp the operation does not own is kept, unless the row goes
         NextOp(s).type = "INSERT" => /\ table'[NextOp(s).rid].begin >= 0
                                      /\ \/ table'[NextOp(s).rid].end = table[NextOp(s).rid].end
                                         \/ pc[s] = "rollback" /\ table'[NextOp(s).rid].end = 0,
         NextOp(s).type = "DELETE" => table'[NextOp(s).rid].end >= 0 /\ table'[NextOp(s).rid].begin = table[NextOp(s).rid].begin
  PROVE  /\ TypeOK' /\ IdsDistinct' /\ SessionShape' /\ AbandonedKept
         /\ RowShape' /\ OpsOrdered' /\ PendingOwned' /\ StampsKept
  <1> DEFINE op == NextOp(s)
             r == op.rid
             k == NextIndex(s)
  <1>1. /\ k \in Unhandled(s) /\ op \in Op /\ op \in Pending(s)
        /\ Unhandled(s)' = Unhandled(s) \ {k}
        /\ \A t \in Sessions : t # s => /\ Unhandled(t)' = Unhandled(t) /\ Pending(t)' = Pending(t)
        /\ Pending(s)' = Pending(s) \ {op}
        /\ pc[s] = "rollback" /\ op.type = "INSERT" => \A p \in Pending(s)' : p.rid # op.rid
        /\ \A p \in Pending(s)' : p.rid = op.rid => p.type # op.type
        /\ done' \in [Sessions -> Nat] /\ \A t \in Sessions : done'[t] <= Len(ops[t])
    BY OpHandled, Zenon
  <1>2. r \in Rids /\ op.rid = r /\ op.type \in {"INSERT", "DELETE"}
    BY <1>1, Zenon DEF Op
  <1>q. \A q \in Rids : q # r => table'[q] = table[q]
    BY Zenon
  <1> HIDE DEF op, r, k
  <1>3. ASSUME op.type = "INSERT"
        PROVE  table'[r].begin >= 0 /\ (table'[r].end = table[r].end \/ (pc[s] = "rollback" /\ table'[r].end = 0))
    BY <1>3, Zenon DEF op, r
  <1>4. ASSUME op.type = "DELETE"
        PROVE  table'[r].end >= 0 /\ table'[r].begin = table[r].begin
    BY <1>4, Zenon DEF op, r
  <1>5. TypeOK'
    BY <1>1, Zenon DEF IInv, TypeOK
  <1>6. IdsDistinct' /\ AbandonedKept
    BY DEF IInv, IdsDistinct, Started, AbandonedGone, AbandonedKept
  <1>7. SessionShape'
    <2>1. \A t \in Sessions : pc[t] \in {"idle", "active"} => t # s /\ done'[t] = done[t]
      BY Zenon DEF IInv, TypeOK
    <2> QED BY <2>1, Zenon DEF IInv, SessionShape, Started
  <1>8. table'[r].begin \in Int /\ table'[r].end \in Int
    BY <1>2, <1>5, StampFacts, MvccTrxAssumption DEF TypeOK, Stamps
  <1>9. ~(table'[r].begin < 0 /\ table'[r].end < 0)
    BY <1>2, <1>3, <1>4, <1>8
  <1>10. RowShape'
    BY <1>q, <1>9, Zenon DEF IInv, RowShape
  <1>11. OpsOrdered'
    <2>1. \A t \in Sessions : Unhandled(t)' \subseteq Unhandled(t)
      BY <1>1, Zenon
    <2> QED BY <2>1 DEF IInv, OpsOrdered
  <1>12. PendingOwned'
    <2> SUFFICES ASSUME NEW t \in Sessions, NEW p \in Pending(t)'
                 PROVE  IF p.type = "INSERT" THEN table'[p.rid].begin = -id[t]
                                             ELSE table'[p.rid].end = -id[t]
      BY Zenon DEF PendingOwned
    <2>1. p \in Pending(t)
      BY <1>1, Zenon
    <2>2. IF p.type = "INSERT" THEN table[p.rid].begin = -id[t] ELSE table[p.rid].end = -id[t]
      BY <2>1, Zenon DEF IInv, PendingOwned
    <2>3. p \in Op /\ p.rid \in Rids /\ p.type \in {"INSERT", "DELETE"}
      BY <2>1, PendingFacts DEF IInv, Op
    <2>4. CASE p.rid # r
      BY <1>q, <2>2, <2>3, <2>4, Zenon
    <2>5. CASE p.rid = r
      <3>1. t = s
        BY <1>1, <1>2, <2>1, <2>5, InvWriteExclusion, SMTT(60) DEF WriteExclusion
      <3>2. p.type # op.type /\ ~(pc[s] = "rollback" /\ op.type = "INSERT")
        BY <1>1, <1>2, <2>5, <3>1, Zenon
      <3>3. CASE op.type = "INSERT"
        BY <1>3, <2>2, <2>3, <2>5, <3>2, <3>3, Zenon
      <3>4. CASE op.type = "DELETE"
        BY <1>4, <2>2, <2>3, <2>5, <3>2, <3>4, Zenon
      <3> QED BY <1>2, <3>3, <3>4, Zenon
    <2> QED BY <2>4, <2>5, Zenon
  <1>13. ASSUME StampsOwned, NEW q \in Rids, table'[q].begin < 0
         PROVE  \/ -table'[q].begin \in abandoned
                \/ \E t \in Sessions : id[t] = -table'[q].begin /\
                     [type |-> "INSERT", rid |-> q] \in Pending(t)'
    <2>1. table'[q].begin = table[q].begin /\ (q = r => op.type # "INSERT")
      BY <1>q, <1>2, <1>3, <1>4, <1>8, <1>13, SMTT(60)
    <2>2. CASE -table[q].begin \in abandoned
      BY <2>1, <2>2, Zenon
    <2>3. CASE -table[q].begin \notin abandoned
      <3>1. PICK t \in Sessions : id[t] = -table[q].begin /\ [type |-> "INSERT", rid |-> q] \in Pending(t)
        BY <1>13, <2>1, <2>3, Zenon DEF StampsOwned
      <3>2. [type |-> "INSERT", rid |-> q] # op
        BY <1>2, <2>1
      <3>3. [type |-> "INSERT", rid |-> q] \in Pending(t)'
        BY <1>1, <3>1, <3>2, Zenon
      <3> QED BY <2>1, <3>1, <3>3, Zenon
    <2> QED BY <2>2, <2>3, Zenon
  <1>14. ASSUME StampsOwned, NEW q \in Rids, table'[q].end < 0
         PROVE  \/ -table'[q].end \in abandoned
                \/ \E t \in Sessions : id[t] = -table'[q].end /\
                     [type |-> "DELETE", rid |-> q] \in Pending(t)'
    <2>1. table'[q].end = table[q].end /\ (q = r => op.type # "DELETE")
      BY <1>q, <1>2, <1>3, <1>4, <1>8, <1>14, SMTT(60)
    <2>2. CASE -table[q].end \in abandoned
      BY <2>1, <2>2, Zenon
    <2>3. CASE -table[q].end \notin abandoned
      <3>1. PICK t \in Sessions : id[t] = -table[q].end /\ [type |-> "DELETE", rid |-> q] \in Pending(t)
        BY <1>14, <2>1, <2>3, Zenon DEF StampsOwned
      <3>2. [type |-> "DELETE", rid |-> q] # op
        BY <1>2, <2>1
      <3>3. [type |-> "DELETE", rid |-> q] \in Pending(t)'
        BY <1>1, <3>1, <3>2, Zenon
      <3> QED BY <2>1, <3>1, <3>3, Zenon
    <2> QED BY <2>2, <2>3, Zenon
  <1>15. StampsKept
    BY <1>13, <1>14, Zenon DEF StampsOwned, StampsKept
  <1> QED BY <1>5, <1>6, <1>7, <1>10, <1>11, <1>12, <1>15, Zenon

(* The rows that commits have stamped already are not stamped again. *)
LEMMA CommittedKept ==
  ASSUME IInv, NEW s \in Sessions, NEW op \in Pending(s),
         \A q \in Rids : table[q].begin > 0 /\ ~(op.type = "INSERT" /\ op.rid = q) =>
                           table'[q].begin = table[q].begin,
         NEW t \in Sessions, pc[t] = "commit", NEW i \in 1..done[t], ops[t][i].type = "INSERT"
  PROVE  table'[ops[t][i].rid].begin = cid[t]
  <1> DEFINE q == ops[t][i].rid
  <1>1. cid[t] > 0 /\ q \in Rids
    BY CommittedOp, Zenon
  <1>2. table[q].begin = cid[t]
    BY Zenon DEF IInv, InsertsCommitted
  <1>3. ~(op.type = "INSERT" /\ op.rid = q)
    <2> SUFFICES ASSUME op.type = "INSERT", op.rid = q PROVE FALSE
      BY Zenon
    <2>1. table[q].begin = -id[s]
      BY Zenon DEF IInv, PendingOwned
    <2>2. id[s] \in 1..current_trx_id /\ current_trx_id \in Nat
      BY PendingStarted, IdFacts, Zenon DEF IInv
    <2>3. cid[t] \in Nat
      BY DEF IInv, TypeOK
    <2> QED BY <1>1, <1>2, <2>1, <2>2, <2>3
  <1> QED BY <1>1, <1>2, <1>3, Zenon

LEMMA CommitOpInv == ASSUME IInv, NEW s \in Sessions, CommitOp(s) PROVE IInv' /\ OwnedKept
  <1> DEFINE k == done[s] + 1
             op == NextOp(s)
             r == op.rid
  <1>1. /\ pc[s] = "commit" /\ done[s] < Len(ops[s]) /\ done' = [done EXCEPT ![s] = @ + 1]
        /\ UNCHANGED <<current_trx_id, pc, id, ops, cid, abandoned>>
        /\ table' = Committed(s, op)
        /\ op = ops[s][k]
    BY Zenon DEF CommitOp, NextOp, NextIndex
  <1>2. op \in Op /\ op \in Pending(s) /\ r \in Rids /\ op.type \in {"INSERT", "DELETE"}
    BY <1>1, OpHandled, Zenon DEF Op
  <1>3. cid[s] \in Stamps /\ cid[s] \in Nat
    BY MvccTrxAssumption DEF IInv, TypeOK, Stamps
  <1>4. CASE op.type = "INSERT"
    <2>1. table' = [table EXCEPT ![r].begin = cid[s]]
      BY <1>1, <1>4, Zenon DEF Committed
    <2>2. /\ table' \in [Rids -> [begin : Stamps, end : Stamps]]
          /\ table'[r].end = table[r].end /\ table'[r].begin = cid[s]
          /\ \A q \in Rids : q # r => table'[q] = table[q]
      BY <1>2, <1>3, <2>1, BeginStamped, Zenon DEF IInv
    <2>3. /\ TypeOK' /\ IdsDistinct' /\ SessionShape' /\ AbandonedKept
          /\ RowShape' /\ OpsOrdered' /\ PendingOwned' /\ StampsKept
      <3>0. cid[s] >= 0
        BY <1>3
      <3>1. op.type = "INSERT" => /\ table'[r].begin >= 0
                                  /\ table'[r].end = table[r].end \/ (pc[s] = "rollback" /\ table'[r].end = 0)
        <4>1. table'[r].begin >= 0
          BY <2>2, <3>0, Zenon
        <4>2. table'[r].end = table[r].end
          BY ONLY <2>2, Zenon
        <4> QED BY ONLY <4>1, <4>2, Zenon
      <3>2. op.type = "DELETE" => table'[r].end >= 0 /\ table'[r].begin = table[r].begin
        BY <1>1, <1>3, <1>4, <2>2, Zenon
      <3>3. pc[s] \in {"commit", "rollback"}
        BY <1>1, Zenon
      <3> QED BY <1>1, <2>2, <3>1, <3>2, <3>3, OpHandledQuiet, Zenon
    <2>4. InsertsCommitted'
      <3> SUFFICES ASSUME NEW t \in Sessions, pc[t] = "commit", NEW i \in 1..done'[t],
                          ops[t][i].type = "INSERT"
                   PROVE  table'[ops[t][i].rid].begin = cid[t]
        BY <1>1, Zenon DEF InsertsCommitted
      <3>0. \A q \in Rids : table[q].begin > 0 /\ ~(op.type = "INSERT" /\ r = q) =>
                             table'[q].begin = table[q].begin
        BY <1>4, <2>2, Zenon
      <3>1. CASE i \in 1..done[t]
        BY <1>2, <3>0, <3>1, CommittedKept, Zenon
      <3>2. CASE i \notin 1..done[t]
        <4>1. t = s /\ i = k
          BY <1>1, <3>2 DEF IInv, TypeOK
        <4> QED BY <1>1, <2>2, <4>1, Zenon
      <3> QED BY <3>1, <3>2, Zenon
    <2> QED BY <2>3, <2>4, Zenon DEF IInv, OwnedKept
  <1>5. CASE op.type = "DELETE"
    <2>1. table' = [table EXCEPT ![r].end = cid[s]]
      BY <1>1, <1>5, Zenon DEF Committed
    <2>2. /\ table' \in [Rids -> [begin : Stamps, end : Stamps]]
          /\ table'[r].begin = table[r].begin /\ table'[r].end = cid[s]
          /\ \A q \in Rids : q # r => table'[q] = table[q]
      BY <1>2, <1>3, <2>1, EndStamped, Zenon DEF IInv
    <2>3. /\ TypeOK' /\ IdsDistinct' /\ SessionShape' /\ AbandonedKept
          /\ RowShape' /\ OpsOrdered' /\ PendingOwned' /\ StampsKept
      <3>1. op.type = "INSERT" => /\ table'[r].begin >= 0
                                  /\ table'[r].end = table[r].end \/ (pc[s] = "rollback" /\ table'[r].end = 0)
        BY <1>1, <1>3, <1>5, <2>2, Zenon
      <3>2. op.type = "DELETE" => table'[r].end >= 0 /\ table'[r].begin = table[r].begin
        BY <1>3, <2>2, SMTT(60)
      <3>3. pc[s] \in {"commit", "rollback"}
        BY <1>1
      <3> QED BY <1>1, <2>2, <3>1, <3>2, <3>3, OpHandledQuiet, Zenon
    <2>4. InsertsCommitted'
      <3> SUFFICES ASSUME NEW t \in Sessions, pc[t] = "commit", NEW i \in 1..done'[t],
                          ops[t][i].type = "INSERT"
                   PROVE  table'[ops[t][i].rid].begin = cid[t]
        BY <1>1 DEF InsertsCommitted
      <3>1. CASE i \in 1..done[t]
        <4>1. \A q \in Rids : table'[q].begin = table[q].begin
          BY ONLY <1>2, <2>2, Zenon
        <4> QED BY <1>2, <3>1, <4>1, CommittedKept, Zenon
      <3>2. CASE i \notin 1..done[t]
        <4>1. t = s /\ i = k
          BY <1>1, <3>2 DEF IInv, TypeOK
        <4> QED BY <1>1, <1>5, <4>1, Zenon
      <3> QED BY <3>1, <3>2
    <2> QED BY <2>3, <2>4 DEF IInv, OwnedKept
  <1> QED BY <1>2, <1>4, <1>5, Zenon

LEMMA RollbackOpInv == ASSUME IInv, NEW s \in Sessions, RollbackOp(s) PROVE IInv' /\ OwnedKept
  <1> DEFINE op == NextOp(s)
             r == op.rid
  <1>1. /\ pc[s] = "rollback" /\ done[s] < Len(ops[s]) /\ done' = [done EXCEPT ![s] = @ + 1]
        /\ UNCHANGED <<current_trx_id, pc, id, ops, cid, abandoned>>
        /\ table' = RolledBack(op)
    BY Zenon DEF RollbackOp, NextOp, NextIndex
  <1>2. op \in Op /\ op \in Pending(s) /\ r \in Rids /\ op.type \in {"INSERT", "DELETE"}
    BY <1>1, OpHandled, Zenon DEF Op
  <1>3. 0 \in Stamps /\ MaxTrxId \in Stamps /\ MaxTrxId \in Nat
    BY MvccTrxAssumption DEF Stamps
  <1>4. ASSUME TypeOK' /\ IdsDistinct' /\ SessionShape' /\ AbandonedKept,
               RowShape' /\ OpsOrdered' /\ PendingOwned' /\ StampsKept,
               \A q \in Rids : table[q].begin > 0 /\ ~(op.type = "INSERT" /\ r = q) =>
                                 table'[q].begin = table[q].begin
        PROVE  IInv' /\ OwnedKept
    <2>1. \A t \in Sessions : pc[t] = "commit" => done'[t] = done[t]
      BY <1>1, Zenon DEF IInv, TypeOK
    <2>2. InsertsCommitted'
      <3> SUFFICES ASSUME NEW t \in Sessions, pc[t] = "commit", NEW i \in 1..done[t],
                          ops[t][i].type = "INSERT"
                   PROVE  table'[ops[t][i].rid].begin = cid[t]
        BY <1>1, <2>1, Zenon DEF InsertsCommitted
      <3> QED BY <1>2, <1>4, CommittedKept, Zenon
    <2> QED BY <1>4, <2>2, Zenon DEF IInv, OwnedKept
  <1>5. CASE op.type = "INSERT"
    <2>1. table' = [table EXCEPT ![r] = [begin |-> 0, end |-> 0]]
      BY <1>1, <1>5, Zenon DEF RolledBack, NoRecord
    <2>2. /\ table' \in [Rids -> [begin : Stamps, end : Stamps]]
          /\ table'[r].begin = 0 /\ table'[r].end = 0
          /\ \A q \in Rids : q # r => table'[q] = table[q]
      BY <1>2, <1>3, <2>1, RowReplaced, Zenon DEF IInv
    <2>3. /\ TypeOK' /\ IdsDistinct' /\ SessionShape' /\ AbandonedKept
          /\ RowShape' /\ OpsOrdered' /\ PendingOwned' /\ StampsKept
      <3>1. op.type = "INSERT" => /\ table'[r].begin >= 0
                                  /\ table'[r].end = table[r].end \/ (pc[s] = "rollback" /\ table'[r].end = 0)
        BY <1>1, <1>5, <2>2, SMTT(60)
      <3>2. op.type = "DELETE" => table'[r].end >= 0 /\ table'[r].begin = table[r].begin
        BY <1>1, <1>5, <2>2, Zenon
      <3>3. pc[s] \in {"commit", "rollback"}
        BY <1>1, Zenon
      <3> QED BY <1>1, <2>2, <3>1, <3>2, <3>3, OpHandledQuiet, Zenon
    <2> QED BY <1>4, <1>5, <2>2, <2>3, Zenon
  <1>6. CASE op.type = "DELETE"
    <2>1. table' = [table EXCEPT ![r].end = MaxTrxId]
      BY <1>1, <1>6, Zenon DEF RolledBack
    <2>2. /\ table' \in [Rids -> [begin : Stamps, end : Stamps]]
          /\ table'[r].begin = table[r].begin /\ table'[r].end = MaxTrxId
          /\ \A q \in Rids : q # r => table'[q] = table[q]
      BY <1>2, <1>3, <2>1, EndStamped, Zenon DEF IInv
    <2>3. /\ TypeOK' /\ IdsDistinct' /\ SessionShape' /\ AbandonedKept
          /\ RowShape' /\ OpsOrdered' /\ PendingOwned' /\ StampsKept
      <3>1. op.type = "INSERT" => /\ table'[r].begin >= 0
                                  /\ table'[r].end = table[r].end \/ (pc[s] = "rollback" /\ table'[r].end = 0)
        BY <1>1, <1>3, <1>6, <2>2, Zenon
      <3>2. op.type = "DELETE" => table'[r].end >= 0 /\ table'[r].begin = table[r].begin
        BY <1>1, <1>3, <1>6, <2>2
      <3>3. pc[s] \in {"commit", "rollback"}
        BY <1>1
      <3> QED BY <1>1, <2>2, <3>1, <3>2, <3>3, OpHandledQuiet, Zenon
    <2> QED BY <1>4, <2>2, <2>3, Zenon
  <1> QED BY <1>2, <1>5, <1>6

-----------------------------------------------------------------------------
(* The invariant, and what follows from it *)

LEMMA NextInv == ASSUME ~SelfDeleteTwice PROVE IInv /\ [Next]_vars => IInv' /\ OwnedKept
  <1>1. ASSUME IInv, UNCHANGED vars PROVE IInv' /\ OwnedKept
    <2> USE <1>1 DEF vars, trxVars
    <2>0. \A t \in Sessions : Unhandled(t)' = Unhandled(t) /\ Pending(t)' = Pending(t)
      BY Zenon DEF Unhandled, Pending
    <2>1. RowShape' /\ OpsOrdered' /\ PendingOwned' /\ StampsKept
      BY <2>0, RowsQuiet, Zenon
    <2>2. TypeOK'
      BY Zenon DEF IInv, TypeOK
    <2>3. IdsDistinct' /\ SessionShape' /\ AbandonedKept /\ InsertsCommitted'
      BY DEF IInv, IdsDistinct, SessionShape, AbandonedGone, AbandonedKept, InsertsCommitted, Started
    <2> QED BY <2>1, <2>2, <2>3, Zenon DEF IInv, OwnedKept
  <1>2. ASSUME IInv, NEW s \in Sessions, SessionStep(s) PROVE IInv' /\ OwnedKept
    <2>1. CASE Start(s)
      BY <1>2, <2>1, StartInv, Zenon
    <2>2. CASE CommitBegin(s)
      BY <1>2, <2>2, CommitBeginInv, Zenon
    <2>3. CASE CommitOp(s)
      BY <1>2, <2>3, CommitOpInv
    <2>4. CASE CommitEnd(s) \/ RollbackEnd(s) \/ Abandon(s)
      BY <1>2, <2>4, EndInv
    <2>5. CASE RollbackBegin(s)
      BY <1>2, <2>5, RollbackBeginInv
    <2>6. CASE RollbackOp(s)
      BY <1>2, <2>6, RollbackOpInv
    <2>7. CASE \E rid \in Rids : Insert(s, rid) \/ Delete(s, rid)
      BY <1>2, <2>7, InsertInv, DeleteInv, Zenon
    <2> QED BY <1>2, <2>1, <2>2, <2>3, <2>4, <2>5, <2>6, <2>7, Zenon DEF SessionStep
  <1> QED BY <1>1, <1>2, Zenon DEF Next

LEMMA InvUncommittedPrivate == IInv /\ Owned => UncommittedPrivate
  <1> SUFFICES ASSUME IInv, StampsOwned, AbandonedGone, NEW s \in Sessions, NEW r \in Rids,
                      Started(s), Sees(s, r), table[r].begin < 0
               PROVE  [type |-> "INSERT", rid |-> r] \in Pending(s)
    BY Zenon DEF UncommittedPrivate, Owned
  <1>1. table[r].begin \in Int /\ table[r].end \in Int
    BY StampFacts, Zenon DEF IInv
  <1>2. -table[r].begin = id[s]
    BY <1>1 DEF Sees, Visit
  <1>3. id[s] \notin abandoned
    BY Zenon DEF AbandonedGone
  <1>4. PICK t \in Sessions : id[t] = id[s] /\ [type |-> "INSERT", rid |-> r] \in Pending(t)
    BY <1>2, <1>3, Zenon DEF StampsOwned
  <1>5. t = s
    BY <1>4, Zenon DEF IInv, IdsDistinct
  <1> QED BY <1>4, <1>5, Zenon

LEMMA InvParts == IInv /\ Owned => /\ TypeOK /\ IdsDistinct /\ PendingOwned /\ StampsOwned
                                  /\ InsertsCommitted
  BY Zenon DEF IInv, Owned

(* The invariant with the owners of the stamps holds in every state. *)
LEMMA SpecInv == ASSUME ~SelfDeleteTwice PROVE Spec => [](IInv /\ Owned)
  <1>1. (IInv /\ Owned) /\ [Next]_vars => (IInv /\ Owned)'
    BY NextInv, Zenon DEF Owned, OwnedKept, StampsKept, AbandonedKept
  <1> QED BY <1>1, InitInv, PTL DEF Spec

(* The members and the stamps keep their types. *)
THEOREM TypeCorrect == ASSUME ~SelfDeleteTwice PROVE Spec => []TypeOK
  BY SpecInv, InvParts, PTL

(* Ids are never shared: next_trx_id() numbers transactions and commits    *)
(* apart, and a commit id exceeds the id of its transaction.               *)
THEOREM IdsAreDistinct == ASSUME ~SelfDeleteTwice PROVE Spec => []IdsDistinct
  BY SpecInv, InvParts, PTL

(* The assertions of commit_with_trx_id and rollback hold: a row that is   *)
(* to be stamped or undone carries the transaction's own mark.             *)
THEOREM MarksHold == ASSUME ~SelfDeleteTwice PROVE Spec => []PendingOwned
  BY SpecInv, InvParts, PTL

(* visit_record keeps two open transactions from changing the same row. *)
THEOREM WritesExclusive == ASSUME ~SelfDeleteTwice PROVE Spec => []WriteExclusion
  BY SpecInv, InvWriteExclusion, PTL

(* An uncommitted stamp belongs to a transaction that still knows of it,   *)
(* or to one whose session dropped it without a rollback.                  *)
THEOREM StampsHaveOwners == ASSUME ~SelfDeleteTwice PROVE Spec => []StampsOwned
  BY SpecInv, InvParts, PTL

(* No session sees a row that another one inserted and did not commit. *)
THEOREM NoDirtyInsert == ASSUME ~SelfDeleteTwice PROVE Spec => []UncommittedPrivate
  BY SpecInv, InvUncommittedPrivate, PTL

(* A commit that has run through its operations has published every row    *)
(* it inserted, and nobody changed their begin stamps meanwhile.           *)
THEOREM CommitPublishes == ASSUME ~SelfDeleteTwice PROVE Spec => []InsertsCommitted
  BY SpecInv, InvParts, PTL

(* A row that is being changed has one owner, which is the transaction     *)
(* whose marks it carries.                                                 *)
THEOREM RowsOwned == ASSUME ~SelfDeleteTwice PROVE Spec => []RowsAreOwned
  <1>1. IdsDistinct /\ PendingOwned /\ StampsOwned /\ WriteExclusion => RowsAreOwned
    BY Zenon DEF RowsAreOwned
  <1> QED BY <1>1, IdsAreDistinct, MarksHold, StampsHaveOwners, WritesExclusive, PTL

(* An insertion is private until it is committed and published after it. *)
THEOREM InsertsPublished == ASSUME ~SelfDeleteTwice PROVE Spec => []InsertsSeenOnceCommitted
  <1>1. UncommittedPrivate /\ InsertsCommitted => InsertsSeenOnceCommitted
    BY Zenon DEF InsertsSeenOnceCommitted
  <1> QED BY <1>1, NoDirtyInsert, CommitPublishes, PTL

-----------------------------------------------------------------------------
(* Repeatable reads *)

(* A committed row of the snapshot is visible when its deletion is later   *)
(* than the reader, or another transaction's and not committed.            *)
LEMMA SeenRow ==
  ASSUME NEW s \in Sessions, NEW r \in Rids, table'[r].begin \in Int, table'[r].end \in Int,
         id'[s] \in Int, table'[r].begin > 0, table'[r].begin <= id'[s],
         id'[s] <= table'[r].end \/ (table'[r].end < 0 /\ -table'[r].end # id'[s])
  PROVE  Sees(s, r)'
  <1>1. table'[r] # NoRecord
    BY DEF NoRecord
  <1>2. Visit(s, table[r], "READ_ONLY")' = "SUCCESS"
    BY SMTT(60) DEF Visit
  <1> QED BY <1>1, <1>2, Zenon DEF Sees

(* A row that a commit or a rollback handles keeps its begin stamp, if     *)
(* that is a committed one.                                                *)
LEMMA HandledKeepsBegin ==
  ASSUME IInv, NEW u \in Sessions, done[u] < Len(ops[u]), pc[u] \in {"commit", "rollback"},
         table' = Committed(u, NextOp(u)) \/ table' = RolledBack(NextOp(u)),
         NEW r \in Rids, table[r].begin > 0
  PROVE  /\ table'[r].begin = table[r].begin
         /\ table'[r].end = table[r].end \/ NextOp(u).type = "DELETE"
         /\ table' = Committed(u, NextOp(u)) => table'[r].end = table[r].end \/ table'[r].end = cid[u]
         /\ table' = RolledBack(NextOp(u)) => table'[r].end = table[r].end \/ table'[r].end = MaxTrxId
  <1> DEFINE op == NextOp(u)
  <1>1. op \in Op /\ op \in Pending(u) /\ op.type \in {"INSERT", "DELETE"} /\ op.rid \in Rids
    <2>1. NextIndex(u) \in Unhandled(u)
      BY PendingFacts DEF IInv, NextIndex, Unhandled
    <2>2. op \in Pending(u)
      BY <2>1, Zenon DEF Pending, NextOp
    <2> QED BY <2>2, PendingFacts, Zenon DEF IInv, Op
  <1>2. op.type = "INSERT" => table[op.rid].begin < 0
    <2>1. id[u] \in 1..current_trx_id /\ current_trx_id \in Nat
      BY <1>1, PendingStarted, IdFacts, Zenon DEF IInv
    <2>2. op.type = "INSERT" => table[op.rid].begin = -id[u]
      BY <1>1, Zenon DEF IInv, PendingOwned
    <2> QED BY <2>1, <2>2, SMTT(60)
  <1>3. table[r].begin \in Int
    BY StampFacts, Zenon DEF IInv
  <1>4. op.type = "INSERT" => op.rid # r
    BY <1>2, <1>3
  <1> HIDE DEF op
  <1>5. /\ Committed(u, NextOp(u)) = IF op.type = "INSERT" THEN [table EXCEPT ![op.rid].begin = cid[u]]
                                                         ELSE [table EXCEPT ![op.rid].end = cid[u]]
        /\ RolledBack(NextOp(u)) = IF op.type = "INSERT" THEN [table EXCEPT ![op.rid] = NoRecord]
                                                       ELSE [table EXCEPT ![op.rid].end = MaxTrxId]
        /\ op = NextOp(u)
    BY Zenon DEF Committed, RolledBack, op
  <1>6. table \in [Rids -> [begin : Stamps, end : Stamps]]
    BY Zenon DEF IInv, TypeOK
  <1>7. CASE op.type = "INSERT"
    <2>1. table'[r] = table[r]
      BY <1>1, <1>4, <1>5, <1>6, <1>7
    <2> QED BY <2>1, Zenon
  <1>8. CASE op.type = "DELETE"
    <2>1. CASE table' = Committed(u, NextOp(u))
      <3>1. table' = [table EXCEPT ![op.rid].end = cid[u]]
        BY <1>5, <1>8, <2>1, Zenon
      <3>2. /\ table'[r].begin = table[r].begin
            /\ table'[r].end = table[r].end \/ table'[r].end = cid[u]
        BY <1>1, <1>6, <3>1
      <3>3. table' = RolledBack(NextOp(u)) => table'[r].end = table[r].end \/ table'[r].end = MaxTrxId
        BY <1>1, <1>5, <1>6, <1>8
      <3> QED BY <1>5, <1>8, <3>2, <3>3, Zenon
    <2>2. CASE table' = RolledBack(NextOp(u))
      <3>1. table' = [table EXCEPT ![op.rid].end = MaxTrxId]
        BY <1>5, <1>8, <2>2, Zenon
      <3>2. /\ table'[r].begin = table[r].begin
            /\ table'[r].end = table[r].end \/ table'[r].end = MaxTrxId
        BY <1>1, <1>6, <3>1, Zenon
      <3>3. table' = Committed(u, NextOp(u)) => table'[r].end = table[r].end \/ table'[r].end = cid[u]
        BY <1>1, <1>5, <1>6, <1>8, SMTT(60)
      <3> QED BY <1>5, <1>8, <3>2, <3>3, Zenon
    <2> QED BY <2>1, <2>2, Zenon
  <1> QED BY <1>1, <1>7, <1>8, Zenon

LEMMA StepKeepsRead ==
  ASSUME ~SelfDeleteTwice, IInv, IInv', NEW u \in Sessions, SessionStep(u),
         NEW s \in Sessions, NEW r \in Rids
  PROVE  ReadKept(s, r)
  <1> SUFFICES ASSUME pc[s] = "active", pc'[s] = "active", Sees(s, r),
                      table[r].begin > 0, table[r].begin <= id[s], ~CommitBefore(s)
               PROVE  Sees(s, r)' \/ table'[r].end = -id[s]
    BY Zenon DEF ReadKept
  <1>1. /\ table[r].begin \in Int /\ table[r].end \in Int
        /\ id[s] \in Int /\ id[s] > 0 /\ id[s] <= MaxTrxId
    <2>1. Started(s) /\ id[s] \in 1..current_trx_id /\ current_trx_id \in 0..MaxId
      BY Zenon DEF IInv, SessionShape, IdsDistinct, TypeOK
    <2>2. id[s] \in Int /\ id[s] > 0 /\ id[s] <= MaxTrxId
      BY ONLY <2>1, MvccTrxAssumption, SMT
    <2>3. table[r].begin \in Int /\ table[r].end \in Int
      BY StampFacts, Zenon DEF IInv
    <2> QED BY <2>2, <2>3, Zenon
  <1>2. table'[r].begin \in Int /\ table'[r].end \in Int
    <2>1. Stamps \subseteq Int
      BY MvccTrxAssumption DEF Stamps
    <2>2. table' \in [Rids -> [begin : Stamps, end : Stamps]]
      BY Zenon DEF IInv, TypeOK
    <2>3. table'[r].begin \in Stamps /\ table'[r].end \in Stamps
      BY <2>2, Zenon
    <2> QED BY <2>1, <2>3, Zenon
  <1>3. id[s] <= table[r].end \/ (table[r].end <= 0 /\ -table[r].end # id[s])
    <2>1. Visit(s, table[r], "READ_ONLY") = "SUCCESS"
      BY Zenon DEF Sees
    <2> QED BY <1>1, <2>1, SMTT(60) DEF Visit
  <1>4. ASSUME table' = table, id'[s] = id[s] PROVE Sees(s, r)'
    BY <1>4, Zenon DEF Sees, Visit
  <1>5. CASE Start(u) \/ CommitBegin(u) \/ RollbackBegin(u)
    <2>1. table' = table /\ id'[s] = id[s]
      BY <1>5, Zenon DEF Start, CommitBegin, RollbackBegin, IInv, TypeOK
    <2> QED BY <1>4, <2>1, Zenon
  <1>6. CASE CommitEnd(u) \/ RollbackEnd(u) \/ Abandon(u)
    <2>1. table' = table /\ Destroyed(u)
      BY <1>6, Zenon DEF CommitEnd, RollbackEnd, Abandon
    <2>2. u # s
      BY <2>1, Zenon DEF Destroyed, IInv, TypeOK
    <2>3. id'[s] = id[s]
      BY <2>1, <2>2, Zenon DEF Destroyed, IInv, TypeOK
    <2> QED BY <1>4, <2>1, <2>3, Zenon
  <1>7. ASSUME NEW q \in Rids, Insert(u, q) PROVE Sees(s, r)'
    <2>1. r # q
      BY <1>1, <1>7, SMTT(60) DEF Insert, NoRecord
    <2>2. table'[r] = table[r] /\ id' = id
      BY <1>7, <2>1, Zenon DEF Insert, IInv, TypeOK
    <2> QED BY <2>2, Zenon DEF Sees, Visit
  <1>8. ASSUME NEW q \in Rids, Delete(u, q) PROVE Sees(s, r)' \/ table'[r].end = -id[s]
    <2>1. /\ table' = [table EXCEPT ![q].end = -id[u]] /\ id' = id /\ pc[u] = "active"
          /\ table \in [Rids -> [begin : Stamps, end : Stamps]]
      BY <1>8, Zenon DEF Delete, IInv, TypeOK
    <2>2. CASE q # r
      <3>1. table'[r] = table[r]
        BY <2>1, <2>2, Zenon
      <3> QED BY <2>1, <3>1, Zenon DEF Sees, Visit
    <2>3. CASE q = r /\ u = s
      <3>1. table'[r].end = -id[s]
        BY <2>1, <2>3, Zenon
      <3> QED BY <3>1, Zenon
    <2>4. CASE q = r /\ u # s
      <3>1. table'[r].end = -id[u] /\ table'[r].begin = table[r].begin
        BY <2>1, <2>4, Zenon
      <3>2. Started(u) /\ id[u] \in Int /\ id[u] > 0 /\ id[u] # id[s]
        <4>1. Started(u) /\ id[u] \in 1..current_trx_id /\ current_trx_id \in Nat
          BY <2>1, SMTT(60) DEF IInv, SessionShape, IdsDistinct, TypeOK
        <4> QED BY <2>4, <4>1 DEF IInv, IdsDistinct
      <3>3. table'[r].end < 0 /\ -table'[r].end # id[s]
        BY <3>1, <3>2, SMTT(60)
      <3> QED BY <1>1, <1>2, <2>1, <3>1, <3>3, SeenRow, Zenon
    <2> QED BY <2>2, <2>3, <2>4, Zenon
  <1>9. ASSUME id' = id, table'[r].begin = table[r].begin,
               table'[r].end = table[r].end \/ id[s] <= table'[r].end
        PROVE  Sees(s, r)'
    <2>1. CASE table'[r].end = table[r].end /\ table[r].end = 0
      <3>1. table'[r] # NoRecord
        BY <1>1, <1>9, SMTT(60) DEF NoRecord
      <3>2. Visit(s, table[r], "READ_ONLY")' = "SUCCESS"
        BY <1>1, <1>9, <2>1, SMTT(60) DEF Visit
      <3> QED BY <3>1, <3>2, Zenon DEF Sees
    <2>2. CASE ~(table'[r].end = table[r].end /\ table[r].end = 0)
      <3>1. table'[r].begin > 0 /\ table'[r].begin <= id'[s] /\ id'[s] \in Int
        BY <1>1, <1>9, Zenon
      <3>2. id[s] <= table'[r].end \/ (table'[r].end < 0 /\ -table'[r].end # id[s])
        BY ONLY <1>1, <1>2, <1>3, <1>9, <2>2, SMTT(60)
      <3>3. id'[s] <= table'[r].end \/ (table'[r].end < 0 /\ -table'[r].end # id'[s])
        BY <1>9, <3>2, Zenon
      <3> QED BY <1>2, <3>1, <3>3, SeenRow, Zenon
    <2> QED BY <2>1, <2>2, Zenon
  <1>10. CASE CommitOp(u)
    <2>1. /\ pc[u] = "commit" /\ done[u] < Len(ops[u]) /\ table' = Committed(u, NextOp(u)) /\ id' = id
      BY <1>10, Zenon DEF CommitOp, NextOp, NextIndex
    <2>2. table'[r].begin = table[r].begin /\ (table'[r].end = table[r].end \/ table'[r].end = cid[u])
      BY <2>1, HandledKeepsBegin, Zenon
    <2>3. id[s] <= cid[u]
      <3>1. ~(cid[u] < id[s]) /\ cid[u] \in Nat
        BY <2>1, SMTT(60) DEF CommitBefore, IInv, TypeOK
      <3> QED BY <1>1, <3>1, SMTT(60)
    <2> QED BY <1>9, <2>1, <2>2, <2>3, Zenon
  <1>11. CASE RollbackOp(u)
    <2>1. /\ pc[u] = "rollback" /\ done[u] < Len(ops[u]) /\ table' = RolledBack(NextOp(u)) /\ id' = id
      BY <1>11, Zenon DEF RollbackOp, NextOp, NextIndex
    <2>2. table'[r].begin = table[r].begin /\ (table'[r].end = table[r].end \/ table'[r].end = MaxTrxId)
      BY <2>1, HandledKeepsBegin, Zenon
    <2> QED BY <1>1, <1>9, <2>1, <2>2, Zenon
  <1> QED BY <1>5, <1>6, <1>7, <1>8, <1>10, <1>11, Zenon DEF SessionStep

(* A transaction reads a committed row of its snapshot again and again     *)
(* until it deletes the row, whatever the other sessions do, as long as no *)
(* older commit is still stamping rows.                                    *)
THEOREM RepeatableReads == ASSUME ~SelfDeleteTwice PROVE Spec => ReadsRepeatable
  <1>1. IInv /\ IInv' /\ [Next]_vars => [\A s \in Sessions, rid \in Rids : ReadKept(s, rid)]_vars
    BY StepKeepsRead, Zenon DEF Next
  <1> QED BY <1>1, SpecInv, PTL DEF Spec, ReadsRepeatable
=============================================================================
