------------------------------ MODULE QueryPlan ------------------------------
(***************************************************************************)
(* From a bound statement to a physical plan: the logical plan generator,   *)
(* the four rewrite rules the optimizer applies until none changes the      *)
(* plan, and the physical plan generator with its choice of an index.        *)
(*                                                                          *)
(* A logical operator is [op, exprs, kids, x]: its expressions, its          *)
(* children and what only this kind of operator has.                         *)
(***************************************************************************)
EXTENDS SqlExpressions, FiniteSets

CONSTANTS Indexes     \* the indexed columns, <<table, field>> each

Oper(op, exprs, kids, x) == [op |-> op, exprs |-> exprs, kids |-> kids, x |-> x]

TableGet(t, mode) ==
    Oper("get", <<>>, <<>>,
         [t |-> t, mode |-> mode, preds |-> <<>>, used |-> {}, valid |-> FALSE])

\* An operator over the last one built, which may be missing.
Over(op, exprs, x, below) ==
    Oper(op, exprs, IF below = <<>> THEN <<>> ELSE below, x)

\* The tables are joined from the left, without a condition.
RECURSIVE JoinAll(_)
JoinAll(tables) ==
    IF Len(tables) = 1 THEN TableGet(tables[1], "read")
    ELSE Oper("join", <<>>,
              <<JoinAll(Front(tables)), TableGet(Last(tables), "read")>>, <<>>)

\* The statements.  A SELECT's WHERE and ON conditions become one
\* conjunction; an item of ORDER BY keeps its direction.
Statement(verb, tables) ==
    [verb |-> verb, tables |-> tables, exprs |-> <<>>, where |-> <<>>,
     on |-> <<>>, group |-> <<>>, order |-> <<>>, conds |-> <<>>,
     f |-> "", v |-> Null, vals |-> <<>>]

\* SelectStmt::create: the WHERE condition and the ON conditions become one
\* conjunction.
FinalWhere(conds) ==
    CASE Len(conds) = 0 -> <<>>
      [] Len(conds) = 1 -> conds
      [] OTHER -> <<Conjunction("and", conds)>>

BindAll(es, tables) ==
    LET bs == [i \in DOMAIN es |-> Bind(es[i], tables)]
    IN  [ok |-> \A i \in DOMAIN bs : bs[i].ok,
         es |-> FlattenSeq([i \in DOMAIN bs |-> bs[i].es])]

CreateSelect(s) ==
    LET exprs == BindAll(s.exprs, s.tables)
        group == BindAll(s.group, s.tables)
        order == [i \in DOMAIN s.order |-> Bind(s.order[i].e, s.tables)]
        conds == BindAll(s.where \o s.on, s.tables)
    IN  [ok |-> /\ \A t \in ToSet(s.tables) : t \in DOMAIN Schema
                /\ exprs.ok /\ group.ok /\ conds.ok
                /\ \A i \in DOMAIN order : order[i].ok,
         s |-> [s EXCEPT !.exprs = exprs.es, !.group = group.es,
                  !.where = FinalWhere(conds.es), !.on = <<>>,
                  !.order = FlattenSeq([i \in DOMAIN order |->
                      [j \in DOMAIN order[i].es |->
                          [e |-> order[i].es[j], asc |-> s.order[i].asc]]])]]

\* DELETE, UPDATE and INSERT: the field exists, the values fit its column or
\* are cast to it, and the conditions name fields of the table.
Fits(v, type) ==
    \/ v.t = type
    \/ Numerical(v.t) /\ Numerical(type)

CreateWrite(s) ==
    LET t == s.tables[1]
        conds == BindAll(s.conds, s.tables)
        type(i) == Schema[t][i].type
    IN  [ok |-> /\ conds.ok
                /\ s.verb = "update" =>
                     /\ HasColumn(t, s.f)
                     /\ Fits(s.v, Column(t, s.f).type)
                     /\ ~IsFail(Cast(s.v, Column(t, s.f).type))
                /\ s.verb = "insert" =>
                     /\ Len(s.vals) = Len(Schema[t])
                     /\ \A i \in DOMAIN s.vals :
                          \/ IsNull(s.vals[i])
                          \/ ~IsFail(Cast(s.vals[i], type(i))),
         s |-> [s EXCEPT
                  !.conds = conds.es,
                  !.v = IF s.verb = "update" /\ HasColumn(t, s.f)
                        THEN Cast(s.v, Column(t, s.f).type) ELSE s.v,
                  !.vals = [i \in DOMAIN s.vals |->
                               IF i \in DOMAIN Schema[t]
                               THEN Cast(s.vals[i], type(i)) ELSE Null]]]

CreateStmt(s) == IF s.verb = "select" THEN CreateSelect(s) ELSE CreateWrite(s)

\* create_group_by_plan refuses a column that is neither grouped by nor
\* inside an aggregate.
RECURSIVE HasUnboundColumn(_, _)
HasUnboundColumn(e, by) ==
    /\ e.k # "aggregation"
    /\ e \notin ToSet(by)
    /\ \/ e.k = "field"
       \/ \E c \in ToSet(ChildExprs(e)) : HasUnboundColumn(c, by)

Ungrouped(s) ==
    LET grouped == \/ s.group # <<>>
                   \/ \E e \in ToSet(s.exprs) : Aggregations(e) # <<>>
    IN  grouped /\ \E e \in ToSet(s.exprs) : HasUnboundColumn(e, s.group)

SelectPlan(s) ==
    LET from == <<JoinAll(s.tables)>>
        where == IF s.where = <<>> THEN from
                 ELSE <<Over("predicate", s.where, <<>>, from)>>
        aggs == FlattenSeq([i \in DOMAIN s.exprs |-> Aggregations(s.exprs[i])])
        group == IF s.group = <<>> /\ aggs = <<>> THEN where
                 ELSE <<Over("group", <<>>, [by |-> s.group, aggs |-> aggs], where)>>
        sort == IF s.order = <<>> THEN group
                ELSE <<Over("sort", <<>>, s.order, group)>>
    IN  Over("project", s.exprs, <<>>, sort)

\* A FilterStmt casts the cheaper side when the types differ; only integers
\* can become floats.
CastSides(c) ==
    LET to(e, type) == IF e.k = "value" THEN Value(Cast(e.v, type))
                       ELSE CastTo(e, type)
    IN  CASE ValueType(c.l) = ValueType(c.r) -> c
          [] ValueType(c.l) = "ints" /\ ValueType(c.r) = "floats" ->
               [c EXCEPT !.l = to(c.l, "floats")]
          [] ValueType(c.l) = "floats" /\ ValueType(c.r) = "ints" ->
               [c EXCEPT !.r = to(c.r, "floats")]

\* DELETE and UPDATE: a conjunction over the table's scan.
WritePlan(s) ==
    LET get == <<TableGet(s.tables[1], "write")>>
        conds == [i \in DOMAIN s.conds |-> CastSides(s.conds[i])]
        where == IF conds = <<>> THEN get
                 ELSE <<Over("predicate", <<Conjunction("and", conds)>>, <<>>, get)>>
    IN  Over(s.verb, <<>>, s, where)

LogicalPlan(s) ==
    CASE s.verb = "select" -> SelectPlan(s)
      [] s.verb = "insert" -> Oper("insert", <<>>, <<>>, s)
      [] OTHER -> WritePlan(s)

\* A FilterStmt whose sides cannot be cast to each other, and a SELECT with
\* a column that is not grouped by, get no plan.
Castable(c) ==
    LET l == ValueType(c.l)
        r == ValueType(c.r)
    IN  l = r \/ (Numerical(l) /\ Numerical(r))

PlanRefused(s) ==
    IF s.verb = "select" THEN Ungrouped(s)
    ELSE \E c \in ToSet(s.conds) : ~Castable(c)

-----------------------------------------------------------------------------

\* The expression rewriter: three rules in order, then the children when no
\* rule changed anything.  A result is the expression and change_made.
Kept(e) == [e |-> e, ch |-> FALSE]
Changed(e) == [e |-> e, ch |-> TRUE]

\* now, with the changes made before it.
Noting(was, now) == [e |-> now.e, ch |-> was.ch \/ now.ch]

Fold(e) == Changed(Value(GetValue(e, <<>>)))

SimplifyArithmetic(e) ==
    IF e.k = "arithmetic" /\ e.l.k = "value" /\ e.r.k = "value"
    THEN Fold(e) ELSE Kept(e)

SimplifyComparison(e) ==
    IF e.k = "comparison" /\ e.l.k = "value" /\ e.r.k = "value"
    THEN Fold(e) ELSE Kept(e)

IsConstant(e, b) == e.k = "value" /\ e.v = Bool(b)

\* The constants that change nothing are erased.  At the first constant that
\* decides the whole the loop returns child_exprs.front(): the first child
\* still there, which is that constant only when nothing was kept before it.
SimplifyConjunction(e) ==
    IF e.k # "conjunction" THEN Kept(e)
    ELSE LET neutral == e.type = "and"
             deciding == {i \in DOMAIN e.kids : IsConstant(e.kids[i], ~neutral)}
             upto == IF deciding = {} THEN Len(e.kids)
                     ELSE CHOOSE i \in deciding : \A j \in deciding : i <= j
             kept == SelectSeq(SubSeq(e.kids, 1, upto),
                               LAMBDA c : ~IsConstant(c, neutral))
         IN  CASE deciding # {} -> Kept(kept[1])
               [] deciding = {} /\ Len(kept) = 1 -> Changed(kept[1])
               [] OTHER -> Kept([e EXCEPT !.kids = kept])

RECURSIVE RewriteExpression(_)

Together(e, rs) ==
    [e |-> CASE e.k = "cast" -> [e EXCEPT !.e = rs[1].e]
             [] e.k = "comparison" -> [e EXCEPT !.l = rs[1].e, !.r = rs[2].e]
             [] e.k = "conjunction" ->
                  [e EXCEPT !.kids = [i \in DOMAIN rs |-> rs[i].e]],
     ch |-> \E i \in DOMAIN rs : rs[i].ch]

RewriteChildExprs(r) ==
    IF r.ch \/ r.e.k \notin {"cast", "comparison", "conjunction"} THEN r
    ELSE Together(r.e, [i \in DOMAIN ChildExprs(r.e) |->
                           RewriteExpression(ChildExprs(r.e)[i])])

ThenComparison(r) == Noting(r, SimplifyComparison(r.e))
ThenConjunction(r) == Noting(r, SimplifyConjunction(r.e))

RewriteExpression(e) ==
    RewriteChildExprs(ThenConjunction(ThenComparison(SimplifyArithmetic(e))))

\* Rule 1, over the operator and everything below it.
RECURSIVE RewriteExpressions(_)

Rebuilt(o, es, ks) ==
    [e |-> [o EXCEPT !.exprs = [i \in DOMAIN es |-> es[i].e],
                     !.kids = [i \in DOMAIN ks |-> ks[i].e]],
     ch |-> \/ \E i \in DOMAIN es : es[i].ch
            \/ \E i \in DOMAIN ks : ks[i].ch]

RewriteExpressions(o) ==
    Rebuilt(o, [i \in DOMAIN o.exprs |-> RewriteExpression(o.exprs[i])],
               [i \in DOMAIN o.kids |-> RewriteExpressions(o.kids[i])])

\* Rule 2: a predicate that is constant goes; when it is false, everything
\* below it goes too.
RewritePredicate(o) ==
    IF /\ Len(o.kids) = 1
       /\ o.kids[1].op = "predicate"
       /\ o.kids[1].exprs[1].k = "value"
    THEN Changed([o EXCEPT !.kids = IF GetBoolean(o.kids[1].exprs[1].v)
                                    THEN o.kids[1].kids ELSE <<>>])
    ELSE Kept(o)

\* Rule 3: the comparisons that conjunctions join move into the table's
\* scan.
RECURSIVE Pushable(_)

\* A mutant: the comparisons of a disjunction move too.
PushableMut(e) ==
    CASE e.k = "comparison" -> <<e>>
      [] e.k = "conjunction" ->
           FlattenSeq([i \in DOMAIN e.kids |-> Pushable(e.kids[i])])
      [] OTHER -> <<>>

Pushable(e) ==
    CASE e.k = "comparison" -> <<e>>
      [] e.k = "conjunction" /\ e.type = "and" ->
           FlattenSeq([i \in DOMAIN e.kids |-> Pushable(e.kids[i])])
      [] OTHER -> <<>>

RECURSIVE WithoutPushed(_)
WithoutPushed(e) ==
    CASE e.k = "comparison" -> No
      [] e.k = "conjunction" /\ e.type = "and" ->
           [e EXCEPT !.kids =
               SelectSeq([i \in DOMAIN e.kids |-> WithoutPushed(e.kids[i])],
                         LAMBDA c : c # No)]
      [] OTHER -> e

Emptied(rest) == rest = No \/ (rest.k = "conjunction" /\ rest.kids = <<>>)

\* A mutant: only the last of the predicates reaches the scan.
PushMut(o, pushed, rest) ==
    [e |-> [o EXCEPT !.exprs = <<IF Emptied(rest) THEN Value(Bool(TRUE)) ELSE rest>>,
                     !.kids[1].x.preds = IF pushed = <<>> THEN @
                                         ELSE <<Last(pushed)>>],
     ch |-> pushed # <<>>]

Push(o, pushed, rest) ==
    [e |-> [o EXCEPT !.exprs = <<IF Emptied(rest) THEN Value(Bool(TRUE)) ELSE rest>>,
                     !.kids[1].x.preds = IF pushed = <<>> THEN @ ELSE pushed],
     ch |-> pushed # <<>>]

PushdownPredicate(o) ==
    IF /\ o.op = "predicate"
       /\ Len(o.kids) = 1
       /\ o.kids[1].op = "get"
    THEN Push(o, Pushable(o.exprs[1]), WithoutPushed(o.exprs[1])) ELSE Kept(o)

\* Rule 4, at the projection: a scan that only reads keeps the columns some
\* operator of the plan names.
\* A mutant: the items of ORDER BY are forgotten.
OperFieldsMut(o) ==
    LET es == CASE o.op = "get" -> ToSet(o.x.preds)
                [] o.op = "group" -> ToSet(o.x.by) \cup ToSet(o.x.aggs)
                [] OTHER -> {}
    IN  UNION {Fields(e) : e \in ToSet(o.exprs) \cup es}

OperFields(o) ==
    LET es == CASE o.op = "get" -> ToSet(o.x.preds)
                [] o.op = "sort" -> {u.e : u \in ToSet(o.x)}
                [] o.op = "group" -> ToSet(o.x.by) \cup ToSet(o.x.aggs)
                [] OTHER -> {}
    IN  UNION {Fields(e) : e \in ToSet(o.exprs) \cup es}

RECURSIVE PlanFields(_)
PlanFields(o) ==
    OperFields(o) \cup UNION {PlanFields(k) : k \in ToSet(o.kids)}

RECURSIVE ApplyUsedFields(_, _)
ApplyUsedFields(o, fields) ==
    LET used == {c.f : c \in {d \in ToSet(Schema[o.x.t]) :
                                 <<o.x.t, d.f>> \in fields}}
        ks == [i \in DOMAIN o.kids |-> ApplyUsedFields(o.kids[i], fields)]
        below == [o EXCEPT !.kids = [i \in DOMAIN ks |-> ks[i].e]]
    IN  IF o.op = "get" /\ o.x.mode = "read"
        THEN [e |-> [o EXCEPT !.x.used = used, !.x.valid = TRUE],
              ch |-> ~o.x.valid \/ o.x.used # used]
        ELSE [e |-> below, ch |-> \E i \in DOMAIN ks : ks[i].ch]

\* A mutant: the rule always says it changed the plan.
PruneProjectionMut(o) ==
    IF o.op = "project" THEN Changed(ApplyUsedFields(o, PlanFields(o)).e)
    ELSE Kept(o)

PruneProjection(o) ==
    IF o.op = "project" THEN ApplyUsedFields(o, PlanFields(o)) ELSE Kept(o)

\* Rewriter::rewrite: the rules on this operator, then on its children.
RECURSIVE Rewrite(_)

ThenPredicate(r) == Noting(r, RewritePredicate(r.e))
ThenPushdown(r) == Noting(r, PushdownPredicate(r.e))
ThenPruning(r) == Noting(r, PruneProjection(r.e))
ThenChildren(r) ==
    Noting(r, Rebuilt(r.e, [i \in DOMAIN r.e.exprs |-> Kept(r.e.exprs[i])],
                           [i \in DOMAIN r.e.kids |-> Rewrite(r.e.kids[i])]))

Rewrite(o) ==
    ThenChildren(ThenPruning(ThenPushdown(ThenPredicate(RewriteExpressions(o)))))

-----------------------------------------------------------------------------

\* The physical plan.  An operator has its run-time state from the start:
\* closed, nothing read.  NoPlan is a generator that gives up, or an
\* assertion of it that fails.
NoPlan == [op |-> "none"]

\* A mutant: a constant on the left is read as if it were on the right.
FlipMut(op) == op

Flip(op) == CASE op = "<" -> ">" [] op = "<=" -> ">=" [] op = ">" -> "<"
              [] op = ">=" -> "<=" [] OTHER -> op

\* The first predicate that compares an indexed column with a constant, as
\* <<field, comparison, constant>>.
IndexPredicates(t, preds) ==
    LET side(c) ==
            CASE c.op \notin {"=", "<", "<=", ">", ">="} -> <<>>
              [] c.l.k = "field" /\ c.r.k = "value" -> <<c.l.f, c.op, c.r.v>>
              [] c.l.k = "value" /\ c.r.k = "field" ->
                   <<c.r.f, Flip(c.op), c.l.v>>
              [] OTHER -> <<>>
    IN  SelectSeq([i \in DOMAIN preds |-> side(preds[i])],
                  LAMBDA s : s # <<>> /\ <<t, s[1]>> \in Indexes)

ScanPlan(x) ==
    LET by == IndexPredicates(x.t, x.preds)
    IN  IF by # <<>>
        THEN [op |-> "index scan", t |-> x.t, preds |-> x.preds, by |-> by[1],
              open |-> 0, todo |-> <<>>]
        ELSE [op |-> "table scan", t |-> x.t, preds |-> x.preds,
              used |-> IF x.used = {} THEN {c.f : c \in ToSet(Schema[x.t])}
                       ELSE x.used,
              open |-> 0, todo |-> <<>>]

RECURSIVE PhysicalPlan(_)
PhysicalPlan(o) ==
    LET kids == [i \in DOMAIN o.kids |-> PhysicalPlan(o.kids[i])]
        one == Len(kids) = 1
    IN  IF \E i \in DOMAIN kids : kids[i] = NoPlan THEN NoPlan
        ELSE CASE o.op = "get" -> ScanPlan(o.x)
               [] o.op = "predicate" ->
                    IF one THEN [op |-> "predicate", e |-> o.exprs[1],
                                 kids |-> kids]
                    ELSE NoPlan
               [] o.op = "project" ->
                    [op |-> "project", exprs |-> o.exprs, kids |-> kids]
               [] o.op = "join" ->
                    [op |-> "join", kids |-> kids, roundDone |-> TRUE,
                     rightClosed |-> TRUE, left |-> <<>>]
               [] o.op = "group" ->
                    IF one THEN [op |-> "group", by |-> o.x.by,
                                 aggs |-> o.x.aggs, kids |-> kids,
                                 todo |-> <<>>]
                    ELSE NoPlan
               [] o.op = "sort" ->
                    IF one THEN [op |-> "sort", order |-> o.x, kids |-> kids,
                                 todo |-> <<>>]
                    ELSE NoPlan
               [] o.op \in {"delete", "update", "insert"} ->
                    [op |-> o.op, x |-> o.x, kids |-> kids]

\* The plan of the vectorised engine; it has no predicate, join or sort.
RECURSIVE ChunkPlan(_)
ChunkPlan(o) ==
    LET kids == [i \in DOMAIN o.kids |-> ChunkPlan(o.kids[i])]
    IN  IF \E i \in DOMAIN kids : kids[i] = NoPlan THEN NoPlan
        ELSE CASE o.op = "get" ->
                    [op |-> "chunk scan", t |-> o.x.t, preds |-> o.x.preds,
                     open |-> 0, todo |-> <<>>]
               [] o.op = "project" ->
                    [op |-> "chunk project", exprs |-> o.exprs, kids |-> kids]
               [] o.op = "group" ->
                    IF /\ o.x.by = <<>> /\ Len(kids) = 1
                       /\ \A a \in ToSet(o.x.aggs) :
                            a.fn \in {"sum", "count", "avg"}
                    THEN [op |-> "chunk aggregate", aggs |-> o.x.aggs,
                          kids |-> kids, todo |-> <<>>]
                    ELSE NoPlan
               [] OTHER -> NoPlan

\* OptimizeStage::generate_physical_plan.
GeneratePhysicalPlan(o, mode) ==
    IF mode = "chunk" /\ o.op \notin {"delete", "insert"}
    THEN ChunkPlan(o) ELSE PhysicalPlan(o)
=============================================================================
