--------------------------- MODULE QueryExecution ---------------------------
(***************************************************************************)
(* A statement on its way through the server: created from the parsed tree, *)
(* turned into a logical plan, rewritten until no rule changes it, turned   *)
(* into physical operators, and executed by open, next until the end, and    *)
(* close on the root operator.                                               *)
(*                                                                          *)
(* A table is a sequence of records [rid, c] with c the value of each        *)
(* column.  A row that operators hand up is [rid, c] with c a tuple.  The    *)
(* operators of the tuple engine and of the vectorised one share open, next *)
(* and close; a chunk is read whole before its rows are handed on.           *)
(***************************************************************************)
EXTENDS QueryPlan

CONSTANTS Statements,   \* the statements a session may send
          Databases,    \* the contents of the tables when it does
          Modes,        \* subset of {"tuple", "chunk"}
          Big           \* larger than every key of an index

VARIABLES db,           \* table -> its records in the order of a scan
          before,       \* db when the statement arrived
          stmt, mode,   \* the statement and the session's execution mode
          stage,        \* how far the statement is
          plan, phys,   \* the logical and the physical plan
          passes,       \* rewrite passes made
          rows          \* what the result has returned

queryVars == <<db, before, stmt, mode, stage, plan, phys, passes, rows>>

-----------------------------------------------------------------------------
\* The scans.

Rids(records) == [i \in DOMAIN records |-> records[i].rid]
RecordOf(d, t, rid) ==
    CHOOSE r \in ToSet(d[t]) : r.rid = rid

RowTuple(t, used, record) ==
    LET cols == SelectSeq(Schema[t], LAMBDA c : c.f \in used)
    IN  [rid |-> record.rid,
         c |-> [i \in DOMAIN cols |-> [s |-> <<t, cols[i].f>>,
                                       v |-> record.c[cols[i].f]]]]

AllFields(t) == {c.f : c \in ToSet(Schema[t])}

\* The bytes of an integer column: a NULL is stored as zeroes.  The bytes of
\* a float constant, read as an integer, are a large number of its sign.
KeyOf(v) == IF v.t = "floats" THEN Big * Sign(v.n) ELSE v.n

IndexOrder(records, f) ==
    Rids(SortSeq(records, LAMBDA x, y : \/ KeyOf(x.c[f]) < KeyOf(y.c[f])
                                        \/ /\ KeyOf(x.c[f]) = KeyOf(y.c[f])
                                           /\ x.rid < y.rid))

\* create_scanner with the bounds the comparison gives.
IndexRange(d, t, by) ==
    SelectSeq(IndexOrder(d[t], by[1]),
              LAMBDA rid : Holds(by[2], Sign(KeyOf(RecordOf(d, t, rid).c[by[1]])
                                             - KeyOf(by[3]))))

\* filter: the predicates in order; a failure stops the scan.
Verdict(v) == IF IsFail(v) THEN "fail" ELSE IF GetBoolean(v) THEN "yes" ELSE "no"

RECURSIVE Filter(_, _)
Filter(preds, tuple) ==
    IF preds = <<>> THEN "yes"
    ELSE LET f == Verdict(GetValue(Head(preds), tuple))
         IN  IF f = "yes" THEN Filter(Tail(preds), tuple) ELSE f

Result(code, oper, tuple) == [rc |-> code, p |-> oper, row |-> tuple]
NoRow == [rid |-> 0, c |-> <<>>]

RECURSIVE ScanNext(_, _)

\* The record just read is returned, skipped or fails the scan.
Judged(f, q, row, d) ==
    CASE f = "yes" -> Result("ok", q, row)
      [] f = "no" -> ScanNext(q, d)
      [] f = "fail" -> Result("fail", q, NoRow)

\* The vectorised scan copies the columns' bytes: no NULL survives.  eval
\* compares columns of one type, on the raw numbers.
ChunkRow(t, record) ==
    RowTuple(t, AllFields(t),
             [record EXCEPT !.c = [f \in DOMAIN record.c |->
                 [t |-> Column(t, f).type, n |-> record.c[f].n]]])

ChunkEval(e, tuple) ==
    LET l == GetValue(e.l, tuple)
        r == GetValue(e.r, tuple)
    IN  IF IsFail(l) \/ IsFail(r) \/ l.t # r.t THEN "fail"
        ELSE IF e.op \in {"is null", "is not null"} THEN "yes"
        ELSE IF Holds(e.op, Sign(l.n - r.n)) THEN "yes" ELSE "no"

ChunkFilter(preds, tuple) ==
    LET res == {ChunkEval(e, tuple) : e \in ToSet(preds)}
    IN  IF "fail" \in res THEN "fail" ELSE IF "no" \in res THEN "no" ELSE "yes"

ScanFilter(p, tuple) ==
    IF p.op = "chunk scan" THEN ChunkFilter(p.preds, tuple)
    ELSE Filter(p.preds, tuple)

ScanRow(p, record) ==
    CASE p.op = "table scan" -> RowTuple(p.t, p.used, record)
      [] p.op = "index scan" -> RowTuple(p.t, AllFields(p.t), record)
      [] p.op = "chunk scan" -> ChunkRow(p.t, record)

ScanNext(p, d) ==
    IF p.todo = <<>> THEN Result("eof", p, NoRow)
    ELSE LET row == ScanRow(p, RecordOf(d, p.t, Head(p.todo)))
         IN  Judged(ScanFilter(p, row.c), [p EXCEPT !.todo = Tail(p.todo)], row, d)

-----------------------------------------------------------------------------
\* Open, next and close of every operator.

RECURSIVE Call(_, _, _)

Open(p, d) == Call("open", p, d)
Next(p, d) == Call("next", p, d)
Close(p) == Call("close", p, <<>>)

RECURSIVE Drain(_, _, _)
Drain(p, d, got) ==
    LET n == Next(p, d)
    IN  IF n.rc = "ok" THEN Drain(n.p, d, Append(got, n.row))
        ELSE [ok |-> n.rc = "eof", p |-> n.p, got |-> got]

Opened(code, oper, data) == [rc |-> code, p |-> oper, db |-> data]

\* The groups in the order of their first rows; a group is that row followed
\* by the aggregates.  find_group compares value by value.
GroupKey(by, row) == [i \in DOMAIN by |-> GetValue(by[i], row.c)]

SameKey(k, l) == \A i \in DOMAIN k : Compare(k[i], l[i]) = 0

AggregateRow(aggs, members) ==
    [members[1] EXCEPT !.c = @ \o [i \in DOMAIN aggs |->
        [s |-> <<"", aggs[i].name>>,
         v |-> Evaluate(aggs[i].fn,
                        FoldLeft(LAMBDA st, m : Accumulate(aggs[i].fn, st,
                                     GetValue(aggs[i].e, m.c)),
                                 NoAggregate, members))]]]

FindGroup(by, groups, row) ==
    LET same == {i \in DOMAIN groups :
                    SameKey(GroupKey(by, groups[i][1]), GroupKey(by, row))}
    IN  IF same = {} THEN Append(groups, <<row>>)
        ELSE LET i == CHOOSE j \in same : \A k \in same : j <= k
             IN  [groups EXCEPT ![i] = Append(@, row)]

GroupRows(p, got) ==
    LET groups == FoldLeft(LAMBDA gs, row : FindGroup(p.by, gs, row), <<>>, got)
    IN  [i \in DOMAIN groups |-> AggregateRow(p.aggs, groups[i])]

\* The stable sort on the values of the items, each in its direction.
SortKeys(order, row) == [i \in DOMAIN order |-> GetValue(order[i].e, row.c)]

RECURSIVE KeyPrecedes(_, _, _)
KeyPrecedes(order, k, l) ==
    /\ order # <<>>
    /\ LET c == Compare(k[1], l[1])
       IN  IF c = 0 THEN KeyPrecedes(Tail(order), Tail(k), Tail(l))
           ELSE IF order[1].asc THEN c < 0 ELSE c > 0

\* A mutant: only the first item counts.
SortRowsMut(order, got) ==
    LET pos == SortSeq([i \in DOMAIN got |-> i],
                       LAMBDA i, j :
                           LET k == SortKeys(<<order[1]>>, got[i])
                               l == SortKeys(<<order[1]>>, got[j])
                           IN  \/ KeyPrecedes(<<order[1]>>, k, l)
                               \/ ~KeyPrecedes(<<order[1]>>, l, k) /\ i < j)
    IN  [i \in DOMAIN pos |-> got[pos[i]]]

SortRows(order, got) ==
    LET pos == SortSeq([i \in DOMAIN got |-> i],
                       LAMBDA i, j :
                           LET k == SortKeys(order, got[i])
                               l == SortKeys(order, got[j])
                           IN  \/ KeyPrecedes(order, k, l)
                               \/ ~KeyPrecedes(order, l, k) /\ i < j)
    IN  [i \in DOMAIN pos |-> got[pos[i]]]

ChunkAggregateRow(aggs, got) ==
    [rid |-> 0,
     c |-> [i \in DOMAIN aggs |->
              [s |-> <<"", aggs[i].name>>,
               v |-> ChunkAggregate(aggs[i].fn,
                         [j \in DOMAIN got |-> GetValue(aggs[i].e, got[j].c)])]]]

\* What such an operator reads of each row, and the rows it reads of which
\* one of these cannot be evaluated.
ReadOf(p) ==
    CASE p.op = "sort" -> {u.e : u \in ToSet(p.order)}
      [] p.op = "group" -> ToSet(p.by) \cup {a.e : a \in ToSet(p.aggs)}
      [] p.op = "chunk aggregate" -> {a.e : a \in ToSet(p.aggs)}

AllReadable(p, got) ==
    \A row \in ToSet(got), e \in ReadOf(p) : ~IsFail(GetValue(e, row.c))

\* An operator that reads its whole input when it is opened.
Collect(p, d) ==
    LET o == Open(p.kids[1], d)
        all == Drain(o.p, d, <<>>)
        q == [p EXCEPT !.kids[1] = all.p]
    IN  CASE o.rc # "ok" -> Opened("fail", [p EXCEPT !.kids[1] = o.p], d)
          [] o.rc = "ok" /\ ~(all.ok /\ AllReadable(p, all.got)) ->
               Opened("fail", q, d)
          [] o.rc = "ok" /\ all.ok /\ AllReadable(p, all.got) ->
               Opened("ok",
                      [q EXCEPT !.todo =
                          CASE p.op = "sort" -> SortRows(p.order, all.got)
                            [] p.op = "group" -> GroupRows(p, all.got)
                            [] p.op = "chunk aggregate" ->
                                 <<ChunkAggregateRow(p.aggs, all.got)>>],
                      d)

\* UPDATE and DELETE read all their rows and close the scan before they
\* change the first record.
Written(x, d, rids) ==
    LET t == x.tables[1]
        hit(r) == r.rid \in rids
    IN  CASE x.verb = "delete" ->
               [d EXCEPT ![t] = SelectSeq(d[t], LAMBDA r : ~hit(r))]
          [] x.verb = "update" ->
               [d EXCEPT ![t] = [i \in DOMAIN d[t] |->
                   IF hit(d[t][i]) THEN [d[t][i] EXCEPT !.c[x.f] = x.v]
                   ELSE d[t][i]]]

OpenWrite(p, d) ==
    IF p.kids = <<>> THEN Opened("ok", p, d)
    ELSE LET o == Open(p.kids[1], d)
             all == Drain(o.p, d, <<>>)
             q == [p EXCEPT !.kids[1] = Close(all.p)]
         IN  IF o.rc # "ok" THEN Opened("fail", [p EXCEPT !.kids[1] = o.p], d)
             ELSE IF p.op = "update" /\ ~all.ok THEN Opened("fail", q, d)
             ELSE Opened("ok", q, Written(p.x, d, {r.rid : r \in ToSet(all.got)}))

OpenInsert(p, d) ==
    LET t == p.x.tables[1]
        rid == 1 + FoldLeft(LAMBDA m, r : IF r.rid > m THEN r.rid ELSE m, 0, d[t])
        c == [f \in AllFields(t) |->
                 p.x.vals[CHOOSE i \in DOMAIN Schema[t] : Schema[t][i].f = f]]
    IN  Opened("ok", p, [d EXCEPT ![t] = Append(@, [rid |-> rid, c |-> c])])

OpenOperator(p, d) ==
    CASE p.op \in {"table scan", "chunk scan"} ->
           Opened("ok", [p EXCEPT !.open = @ + 1, !.todo = Rids(d[p.t])], d)
      [] p.op = "index scan" ->
           Opened("ok", [p EXCEPT !.open = @ + 1,
                                  !.todo = IndexRange(d, p.t, p.by)], d)
      [] p.op \in {"predicate", "project", "chunk project"} ->
           IF p.kids = <<>> THEN Opened("ok", p, d)
           ELSE LET o == Open(p.kids[1], d)
                IN  Opened(o.rc, [p EXCEPT !.kids[1] = o.p], d)
      [] p.op = "join" ->
           LET o == Open(p.kids[1], d)
           IN  Opened(o.rc, [p EXCEPT !.kids[1] = o.p, !.roundDone = TRUE,
                                      !.rightClosed = TRUE], d)
      [] p.op \in {"sort", "group", "chunk aggregate"} -> Collect(p, d)
      [] p.op \in {"delete", "update"} -> OpenWrite(p, d)
      [] p.op = "insert" -> OpenInsert(p, d)

\* A nested loop: the right side is closed and opened again for every row of
\* the left one.
LeftNext(p, d) ==
    LET l == Next(p.kids[1], d)
    IN  Result(l.rc, [p EXCEPT !.kids[1] = l.p,
                               !.left = IF l.rc = "ok" THEN l.row ELSE @], NoRow)

RightNext(p0, d) ==
    LET again == p0.roundDone
        closed == IF again /\ ~p0.rightClosed THEN Close(p0.kids[2])
                  ELSE p0.kids[2]
        right == IF again THEN Open(closed, d).p ELSE closed
        n == Next(right, d)
        p == [p0 EXCEPT !.kids[2] = n.p, !.rightClosed = FALSE,
                        !.roundDone = n.rc = "eof"]
    IN  IF n.rc = "ok"
        THEN Result("ok", p, [rid |-> 0, c |-> p.left.c \o n.row.c])
        ELSE Result(n.rc, p, NoRow)

\* A mutant, next of the second file that defines this class: the loop goes
\* on after a row was found.
RECURSIVE JoinNextMut(_, _)
JoinNextMut(p, d) ==
    LET l == IF p.roundDone THEN LeftNext(p, d) ELSE Result("ok", p, NoRow)
        r == RightNext(l.p, d)
    IN  IF l.rc # "ok" THEN l
        ELSE IF r.rc = "fail" THEN r
        ELSE JoinNextMut(r.p, d)

JoinNext(p, d) ==
    LET step(q) == LET l == LeftNext(q, d)
                   IN  IF l.rc = "ok" THEN RightNext(l.p, d) ELSE l
        r == RightNext(p, d)
    IN  CASE p.roundDone -> step(p)
          [] ~p.roundDone /\ r.rc = "eof" -> step(r.p)
          [] OTHER -> r

RECURSIVE PredicateNext(_, _)
PredicateNext(p, d) ==
    LET n == Next(p.kids[1], d)
        q == [p EXCEPT !.kids[1] = n.p]
        v == GetValue(p.e, n.row.c)
    IN  CASE n.rc # "ok" -> Result(n.rc, q, NoRow)
          [] n.rc = "ok" /\ IsFail(v) -> Result("fail", q, NoRow)
          [] n.rc = "ok" /\ ~IsFail(v) ->
               IF GetBoolean(v) THEN Result("ok", q, n.row)
               ELSE PredicateNext(q, d)

\* The projection's cells are evaluated when the row is written out.
Project(exprs, row) ==
    [row EXCEPT !.c = [i \in DOMAIN exprs |->
        [s |-> <<"", "">>, v |-> GetValue(exprs[i], row.c)]]]

NextOfOperator(p, d) ==
    CASE p.op \in {"table scan", "index scan", "chunk scan"} -> ScanNext(p, d)
      [] p.op = "predicate" -> PredicateNext(p, d)
      [] p.op \in {"project", "chunk project"} ->
           IF p.kids = <<>> THEN Result("eof", p, NoRow)
           ELSE LET n == Next(p.kids[1], d)
                    q == [p EXCEPT !.kids[1] = n.p]
                    row == Project(p.exprs, n.row)
                IN  IF n.rc # "ok" THEN Result(n.rc, q, NoRow)
                    ELSE IF \E i \in DOMAIN row.c : IsFail(row.c[i].v)
                    THEN Result("fail", q, NoRow)
                    ELSE Result("ok", q, row)
      [] p.op = "join" -> JoinNext(p, d)
      [] p.op \in {"sort", "group", "chunk aggregate"} ->
           IF p.todo = <<>> THEN Result("eof", p, NoRow)
           ELSE Result("ok", [p EXCEPT !.todo = Tail(@)], Head(p.todo))
      [] p.op \in {"delete", "update", "insert"} -> Result("eof", p, NoRow)

\* A mutant: the right side is left open.
CloseJoinMut(p) == [p EXCEPT !.kids = <<Close(@[1]), @[2]>>]

CloseJoin(p) ==
    [p EXCEPT !.kids = <<Close(@[1]),
                         IF p.rightClosed THEN @[2] ELSE Close(@[2])>>,
              !.rightClosed = TRUE]

CloseOperator(p) ==
    CASE p.op \in {"table scan", "index scan", "chunk scan"} ->
           [p EXCEPT !.open = @ - 1, !.todo = <<>>]
      [] p.op \in {"predicate", "project", "chunk project", "group",
                   "chunk aggregate"} ->
           IF p.kids = <<>> THEN p ELSE [p EXCEPT !.kids[1] = Close(@)]
      [] p.op = "sort" -> [p EXCEPT !.kids[1] = Close(@), !.todo = <<>>]
      [] p.op = "join" -> CloseJoin(p)
      [] p.op \in {"delete", "update", "insert"} -> p

Call(method, p, d) ==
    CASE method = "open" -> OpenOperator(p, d)
      [] method = "next" -> NextOfOperator(p, d)
      [] method = "close" -> CloseOperator(p)

\* The operators' destructors: only the vectorised scan's closes it.
RECURSIVE Destroy(_)
Destroy(p) ==
    CASE p.op = "chunk scan" -> [p EXCEPT !.open = 0]
      [] p.op \in {"table scan", "index scan"} -> p
      [] OTHER -> [p EXCEPT !.kids = [i \in DOMAIN @ |-> Destroy(@[i])]]

-----------------------------------------------------------------------------
\* The statement's way through the stages.

QueryInit ==
    /\ db \in Databases
    /\ before = db
    /\ stmt \in Statements
    /\ mode \in Modes
    /\ stage = "parsed"
    /\ plan = NoPlan
    /\ phys = NoPlan
    /\ passes = 0
    /\ rows = <<>>

ResolveStage ==
    /\ stage = "parsed"
    /\ \E c \in {CreateStmt(stmt)} :
           IF c.ok THEN stmt' = c.s /\ stage' = "resolved"
           ELSE stage' = "refused" /\ UNCHANGED stmt
    /\ UNCHANGED <<db, before, mode, plan, phys, passes, rows>>

CreateLogicalPlan ==
    /\ stage = "resolved"
    /\ IF PlanRefused(stmt) THEN stage' = "refused" /\ UNCHANGED plan
       ELSE plan' = LogicalPlan(stmt) /\ stage' = "logical"
    /\ UNCHANGED <<db, before, stmt, mode, phys, passes, rows>>

RewritePass ==
    /\ stage = "logical"
    /\ \E r \in {Rewrite(plan)} :
           /\ plan' = r.e
           /\ stage' = IF r.ch THEN "logical" ELSE "rewritten"
    /\ passes' = passes + 1
    /\ UNCHANGED <<db, before, stmt, mode, phys, rows>>

\* A mutant: the generator's failure is not looked at.
CreatePhysicalPlanMut ==
    /\ stage = "rewritten"
    /\ phys' = GeneratePhysicalPlan(plan, mode)
    /\ stage' = "planned"
    /\ UNCHANGED <<db, before, stmt, mode, plan, passes, rows>>

CreatePhysicalPlan ==
    /\ stage = "rewritten"
    /\ phys' = GeneratePhysicalPlan(plan, mode)
    /\ stage' = IF phys' = NoPlan THEN "no plan" ELSE "planned"
    /\ UNCHANGED <<db, before, stmt, mode, plan, passes, rows>>

\* write_result_internal: a result that cannot be opened is closed.
OpenResult ==
    /\ stage = "planned"
    /\ \E o \in {Open(phys, db)} :
           /\ phys' = o.p
           /\ db' = o.db
           /\ stage' = IF o.rc = "ok" THEN "open" ELSE "not open"
    /\ UNCHANGED <<before, stmt, mode, plan, passes, rows>>

\* A failing next_tuple ends the statement without a close.
NextTuple ==
    /\ stage = "open"
    /\ \E n \in {Next(phys, db)} :
           /\ phys' = n.p
           /\ stage' = CASE n.rc = "ok" -> "open"
                         [] n.rc = "eof" -> "ending"
                         [] n.rc = "fail" -> "failed"
           /\ rows' = IF n.rc = "ok"
                      THEN Append(rows, [i \in DOMAIN n.row.c |-> n.row.c[i].v])
                      ELSE rows
    /\ UNCHANGED <<db, before, stmt, mode, plan, passes>>

CloseResult ==
    /\ stage \in {"ending", "not open"}
    /\ phys' = Close(phys)
    /\ stage' = "closed"
    /\ UNCHANGED <<db, before, stmt, mode, plan, passes, rows>>

DestroyResult ==
    /\ stage = "failed"
    /\ phys' = Destroy(phys)
    /\ stage' = "destroyed"
    /\ UNCHANGED <<db, before, stmt, mode, plan, passes, rows>>

QueryNext ==
    \/ ResolveStage \/ CreateLogicalPlan \/ RewritePass \/ CreatePhysicalPlan
    \/ OpenResult \/ NextTuple \/ CloseResult \/ DestroyResult

-----------------------------------------------------------------------------
\* What a statement means, from the bound statement alone.

FullRow(t, record) == RowTuple(t, AllFields(t), record)

RECURSIVE Product(_)
Product(tables) ==
    IF tables = <<>> THEN <<NoRow>>
    ELSE LET left == Product(Front(tables))
             right == before[Last(tables)]
         IN  FlattenSeq([i \in DOMAIN left |->
                 [j \in DOMAIN right |->
                     [rid |-> right[j].rid,
                      c |-> left[i].c \o FullRow(Last(tables), right[j]).c]]])

Satisfies(conds, row) == \A e \in ToSet(conds) : GetBoolean(GetValue(e, row.c))

\* An aggregate over the rows at the positions of a set, NULLs left out.
MeantAggregate(a, in, members) ==
    LET vals == [i \in members |-> GetValue(a.e, in[i].c)]
        some == {i \in members : ~IsNull(vals[i])}
        total == FoldSet(LAMBDA i, n : n + Halves(vals[i]), 0, some)
    IN  CASE a.fn = "count" -> Integer(Cardinality(some))
          [] a.fn # "count" /\ some = {} -> Null
          [] a.fn = "sum" /\ some # {} ->
               IF ValueType(a.e) = "ints" THEN Integer(total \div 2) ELSE Float(total)
          [] a.fn = "avg" /\ some # {} -> Float(total \div Cardinality(some))
          [] a.fn = "min" /\ some # {} ->
               vals[CHOOSE i \in some : \A j \in some : Halves(vals[i]) <= Halves(vals[j])]
          [] a.fn = "max" /\ some # {} ->
               vals[CHOOSE i \in some : \A j \in some : Halves(vals[i]) >= Halves(vals[j])]

MeantGroups(s, in) ==
    LET key(i) == [k \in DOMAIN s.group |-> GetValue(s.group[k], in[i].c)]
        groups == SetToSeq({{j \in DOMAIN in : key(j) = key(i)} : i \in DOMAIN in})
        aggs == FlattenSeq([i \in DOMAIN s.exprs |-> Aggregations(s.exprs[i])])
        some(g) == CHOOSE i \in g : TRUE
    IN  [g \in DOMAIN groups |->
            [rid |-> 0,
             c |-> in[some(groups[g])].c \o
                   [a \in DOMAIN aggs |->
                       [s |-> <<"", aggs[a].name>>,
                        v |-> MeantAggregate(aggs[a], in, groups[g])]]]]

Grouped(s) ==
    \/ s.group # <<>>
    \/ \E e \in ToSet(s.exprs) : Aggregations(e) # <<>>

Meaning(s) ==
    LET in == SelectSeq(Product(s.tables), LAMBDA r : Satisfies(s.where, r))
        out == IF Grouped(s) THEN MeantGroups(s, in) ELSE in
    IN  [i \in DOMAIN out |->
            [e \in DOMAIN s.exprs |-> GetValue(s.exprs[e], out[i].c)]]

SameBag(a, b) ==
    \A x \in ToSet(a) \cup ToSet(b) :
        Cardinality({i \in DOMAIN a : a[i] = x})
            = Cardinality({i \in DOMAIN b : b[i] = x})

\* What a logical plan would return, operator by operator.
RECURSIVE PlanRows(_)
PlanRows(o) ==
    CASE o.op = "get" ->
           SelectSeq([i \in DOMAIN before[o.x.t] |->
                         FullRow(o.x.t, before[o.x.t][i])],
                     LAMBDA r : Satisfies(o.x.preds, r))
      [] o.op = "join" ->
           LET l == PlanRows(o.kids[1])
               r == PlanRows(o.kids[2])
           IN  FlattenSeq([i \in DOMAIN l |-> [j \in DOMAIN r |->
                   [rid |-> 0, c |-> l[i].c \o r[j].c]]])
      [] o.kids = <<>> -> <<>>
      [] o.op = "predicate" /\ o.kids # <<>> ->
           SelectSeq(PlanRows(o.kids[1]), LAMBDA r : Satisfies(o.exprs, r))
      [] o.op = "group" /\ o.kids # <<>> ->
           MeantGroups(stmt, PlanRows(o.kids[1]))
      [] o.op \in {"sort", "update", "delete"} /\ o.kids # <<>> ->
           PlanRows(o.kids[1])
      [] o.op = "project" /\ o.kids # <<>> ->
           LET in == PlanRows(o.kids[1])
           IN  [i \in DOMAIN in |->
                   [e \in DOMAIN o.exprs |-> GetValue(o.exprs[e], in[i].c)]]

RECURSIVE Scans(_)
Scans(p) ==
    IF p.op \in {"table scan", "index scan", "chunk scan"} THEN {p}
    ELSE UNION {Scans(k) : k \in ToSet(p.kids)}

RECURSIVE ExprSize(_)
ExprSize(e) == FoldLeft(LAMBDA n, c : n + ExprSize(c), 1, ChildExprs(e))

\* The vectorised engine reads the bytes of a NULL as zero and aggregates no
\* rows to a row; the tuple engine returns no row then.
NullsInChunks ==
    /\ mode = "chunk"
    /\ \/ \E t \in DOMAIN before : \E r \in ToSet(before[t]) :
              \E f \in DOMAIN r.c : IsNull(r.c[f])
       \/ Grouped(stmt) /\ Meaning(stmt) = <<>>

-----------------------------------------------------------------------------

\* A plan is there when the stage says so, and a statement that was refused
\* or got no plan has returned and changed nothing.
TypeOK ==
    /\ stage \in {"parsed", "resolved", "refused", "logical", "rewritten",
                  "no plan", "planned", "open", "ending", "closed", "failed",
                  "not open", "destroyed"}
    /\ stage \in {"logical", "rewritten"} => plan # NoPlan
    /\ stage \in {"planned", "open", "ending", "closed"} => phys # NoPlan
    /\ stage \in {"refused", "no plan"} => rows = <<>> /\ db = before

\* Simplifying expressions, removing and pushing down predicates and pruning
\* columns never changes the rows a SELECT returns, after any number of
\* rewrite passes (OptimizeStage::rewrite).
RewritingKeepsTheAnswer ==
    stage \in {"logical", "rewritten"} /\ stmt.verb = "select" =>
        SameBag(PlanRows(plan), Meaning(stmt))

\* The rewrite rules keep the rows an UPDATE or DELETE works on.
RewritingKeepsTheTargets ==
    stage \in {"logical", "rewritten"} /\ stmt.verb \in {"update", "delete"} =>
        {r.rid : r \in ToSet(PlanRows(plan))}
            = {r.rid : r \in {x \in ToSet(Product(stmt.tables)) :
                                  Satisfies(stmt.conds, x)}}

\* A SELECT that ran to its end returned the rows it means, each as often as
\* it should: whichever scan was chosen, however often a join reopened its
\* right side, in either engine.
AnswerIsRight ==
    stage = "closed" /\ stmt.verb = "select" /\ ~NullsInChunks =>
        SameBag(rows, Meaning(stmt))

\* The rows of a SELECT with ORDER BY come in that order, NULLs first when it
\* ascends (SortPhysicalOperator::open), where the items are selected.
AnswerIsOrdered ==
    LET at(e) == CHOOSE i \in DOMAIN stmt.exprs : stmt.exprs[i] = e
        keys(r) == [i \in DOMAIN stmt.order |-> r[at(stmt.order[i].e)]]
    IN  /\ stage \in {"open", "ending", "closed"}
        /\ {u.e : u \in ToSet(stmt.order)} \subseteq ToSet(stmt.exprs)
        => \A i \in DOMAIN rows, j \in DOMAIN rows :
             i < j => ~KeyPrecedes(stmt.order, keys(rows[j]), keys(rows[i]))

\* UPDATE and DELETE change the records that satisfied the conditions before
\* they began, and no other; SELECT changes none.
WritesAreExact ==
    stage = "closed" =>
        LET t == stmt.tables[1]
            hit == {r.rid : r \in {x \in ToSet(Product(stmt.tables)) :
                                      Satisfies(stmt.conds, x)}}
            cell(r) == [r.c EXCEPT ![stmt.f] = stmt.v]
        IN  CASE stmt.verb = "select" -> db = before
              [] stmt.verb = "delete" ->
                   ToSet(db[t]) = {r \in ToSet(before[t]) : r.rid \notin hit}
              [] stmt.verb = "update" ->
                   ToSet(db[t]) = {IF r.rid \in hit THEN [r EXCEPT !.c = cell(r)]
                                   ELSE r : r \in ToSet(before[t])}
              [] stmt.verb = "insert" ->
                   Cardinality(ToSet(db[t])) = Cardinality(ToSet(before[t])) + 1

\* A scan holds a latch and a pinned page while it is open: none is opened
\* twice, none is closed twice, and a statement that has ended holds none.
ScansAreClosed ==
    phys # NoPlan =>
        \A p \in Scans(phys) :
            /\ p.open \in 0 .. 1
            /\ stage \in {"closed", "destroyed"} => p.open = 0

\* Pruning leaves every column that some operator still reads: no row fails
\* for a missing cell.
NoCellIsMissing == mode = "tuple" => stage \notin {"failed", "not open"}

\* The rules reach a plan none of them changes: OptimizeStage::rewrite loops
\* until then, and needs no more passes than the statement has expressions
\* and its plan has operators.
RewritingEnds ==
    passes <= 4 + Len(stmt.tables)
              + FoldLeft(LAMBDA n, e : n + ExprSize(e), 0, stmt.where \o stmt.conds)

QuerySpec == QueryInit /\ [][QueryNext]_queryVars

\* From the bound statement to its last row: the rewrite rules keep its
\* meaning and end, the answer is the rows it means in their order, writes
\* touch the records they should, and every scan that was opened is closed.
StatementsAreRight ==
    /\ TypeOK
    /\ RewritingKeepsTheAnswer /\ RewritingKeepsTheTargets /\ RewritingEnds
    /\ AnswerIsRight /\ AnswerIsOrdered /\ WritesAreExact
    /\ ScansAreClosed /\ NoCellIsMissing
=============================================================================
