--------------------------- MODULE SqlExpressions ---------------------------
(***************************************************************************)
(* Values, expressions and aggregators of the SQL layer: what the          *)
(* get_value, try_get_value, eval and compare functions compute, and how    *)
(* the binder turns the names of a statement into fields.                   *)
(*                                                                          *)
(* A value is a type and a number: an integer, a float counted in halves,   *)
(* a Boolean, or NULL, which the code stores as an undefined type over       *)
(* zeroed bytes.  A tuple is a sequence of cells, each with the             *)
(* specification <<table, field>> it is found by; an aggregate's cell has    *)
(* no table.  Fail stands for every return code but SUCCESS.                *)
(***************************************************************************)
EXTENDS Integers, Sequences, SequencesExt

CONSTANTS Schema,     \* table name -> its columns in order, [f, type] each
          FloatMax    \* what a division by zero yields, in halves

Integer(n) == [t |-> "ints", n |-> n]
Float(h) == [t |-> "floats", n |-> h]
Bool(b) == [t |-> "booleans", n |-> IF b THEN 1 ELSE 0]
Null == [t |-> "undefined", n |-> 0]
Fail == [t |-> "error", n |-> 0]

IsNull(v) == v.t = "undefined"
IsFail(v) == v.t = "error"
Numerical(type) == type \in {"ints", "floats"}

\* get_float and get_boolean: an undefined value counts as zero.
Halves(v) == IF v.t = "floats" THEN v.n ELSE 2 * v.n
GetBoolean(v) == v.n # 0

Sign(d) == IF d < 0 THEN -1 ELSE IF d > 0 THEN 1 ELSE 0

\* NULL equals NULL and precedes every other value.
Compare(l, r) ==
    IF IsNull(l) \/ IsNull(r)
    THEN IF IsNull(l) /\ IsNull(r) THEN 0 ELSE IF IsNull(l) THEN -1 ELSE 1
    ELSE Sign(Halves(l) - Halves(r))

Holds(op, c) ==
    CASE op = "=" -> c = 0
      [] op = "<=" -> c <= 0
      [] op = "<>" -> c # 0
      [] op = "<" -> c < 0
      [] op = ">=" -> c >= 0
      [] op = ">" -> c > 0

\* A comparison is never unknown: with a NULL on either side it is false.
CompareValue(op, l, r) ==
    CASE op = "is null" -> IsNull(l)
      [] op = "is not null" -> ~IsNull(l)
      [] OTHER -> /\ ~IsNull(l)
                  /\ ~IsNull(r)
                  /\ Holds(op, Compare(l, r))

\* Value::cast_to: NULL stays NULL, integers become floats, nothing else.
Cast(v, type) ==
    CASE IsFail(v) \/ IsNull(v) \/ v.t = type -> v
      [] v.t = "ints" /\ type = "floats" -> Float(2 * v.n)
      [] OTHER -> Fail

\* The operators of IntegerType and FloatType on the raw numbers: a NULL
\* operand counts as zero and the result is not NULL.
Calculate(op, l, r, type) ==
    LET a == Halves(l)
        b == Halves(r)
        half == CASE op = "+" -> a + b
                  [] op = "-" -> a - b
                  [] op = "*" -> (a * b) \div 2
                  [] op = "/" -> IF b = 0 THEN FloatMax ELSE (2 * a) \div b
    IN  IF type = "ints" THEN Integer(half \div 2) ELSE Float(half)

Column(t, f) == CHOOSE c \in ToSet(Schema[t]) : c.f = f
HasColumn(t, f) == \E c \in ToSet(Schema[t]) : c.f = f

Value(v) == [k |-> "value", v |-> v]
Field(t, f) == [k |-> "field", t |-> t, f |-> f]
Comparison(op, l, r) == [k |-> "comparison", op |-> op, l |-> l, r |-> r]
Conjunction(type, kids) == [k |-> "conjunction", type |-> type, kids |-> kids]
Arithmetic(op, l, r) == [k |-> "arithmetic", op |-> op, l |-> l, r |-> r]
CastTo(e, type) == [k |-> "cast", e |-> e, type |-> type]
Aggregation(fn, e, name) ==
    [k |-> "aggregation", fn |-> fn, e |-> e, name |-> name]

\* What the parser hands over: a name without a table has the table "".
UnboundField(t, f) == [k |-> "unbound field", t |-> t, f |-> f]
UnboundAggregation(fn, e, name) ==
    [k |-> "unbound aggregation", fn |-> fn, e |-> e, name |-> name]
Star == [k |-> "star"]
Not(e) == Comparison("=", e, Value(Bool(FALSE)))
No == [k |-> "none"]

RECURSIVE ValueType(_)
ValueType(e) ==
    CASE e.k = "value" -> e.v.t
      [] e.k = "field" -> Column(e.t, e.f).type
      [] e.k = "cast" -> e.type
      [] e.k \in {"comparison", "conjunction"} -> "booleans"
      [] e.k = "aggregation" -> ValueType(e.e)
      [] e.k = "arithmetic" ->
           IF /\ ValueType(e.l) = "ints"
              /\ ValueType(e.r) = "ints"
              /\ e.op # "/"
           THEN "ints" ELSE "floats"

\* ExpressionIterator::iterate_child_expr.
ChildExprs(e) ==
    CASE e.k \in {"cast", "aggregation"} -> <<e.e>>
      [] e.k \in {"comparison", "arithmetic"} -> <<e.l, e.r>>
      [] e.k = "conjunction" -> e.kids
      [] OTHER -> <<>>

RECURSIVE Fields(_)
Fields(e) ==
    (IF e.k = "field" THEN {<<e.t, e.f>>} ELSE {})
        \cup UNION {Fields(c) : c \in ToSet(ChildExprs(e))}

RECURSIVE Aggregations(_)
Aggregations(e) ==
    (IF e.k = "aggregation" THEN <<e>> ELSE <<>>)
        \o FlattenSeq([i \in DOMAIN ChildExprs(e) |->
                          Aggregations(ChildExprs(e)[i])])

\* A tuple's find_cell: the first cell with this specification.
FindCell(tuple, spec) ==
    LET hits == {i \in DOMAIN tuple : tuple[i].s = spec}
    IN  IF hits = {} THEN Fail
        ELSE tuple[CHOOSE i \in hits : \A j \in hits : i <= j].v

RECURSIVE GetValue(_, _)
GetValue(e, tuple) ==
    CASE e.k = "value" -> e.v
      [] e.k = "field" -> FindCell(tuple, <<e.t, e.f>>)
      [] e.k = "aggregation" -> FindCell(tuple, <<"", e.name>>)
      [] e.k = "cast" -> Cast(GetValue(e.e, tuple), e.type)
      [] e.k = "comparison" ->
           LET l == GetValue(e.l, tuple)
               r == GetValue(e.r, tuple)
           IN  IF IsFail(l) \/ IsFail(r) THEN Fail
               ELSE Bool(CompareValue(e.op, l, r))
      [] e.k = "arithmetic" ->
           LET l == GetValue(e.l, tuple)
               r == GetValue(e.r, tuple)
           IN  IF IsFail(l) \/ IsFail(r) THEN Fail
               ELSE Calculate(e.op, l, r, ValueType(e))
      [] e.k = "conjunction" ->
           LET vals == [i \in DOMAIN e.kids |-> GetValue(e.kids[i], tuple)]
               stop == {i \in DOMAIN vals :
                           \/ IsFail(vals[i])
                           \/ GetBoolean(vals[i]) = (e.type = "or")}
               first == CHOOSE i \in stop : \A j \in stop : i <= j
           IN  IF vals = <<>> THEN Bool(TRUE)
               ELSE IF stop = {} THEN Bool(e.type = "and")
               ELSE IF IsFail(vals[first]) THEN Fail
               ELSE Bool(e.type = "or")

-----------------------------------------------------------------------------

\* The aggregators of the tuple engine.  None of them counts a NULL.
NoAggregate == [has |-> FALSE, v |-> Null, n |-> 0]

Accumulate(fn, state, v) ==
    IF IsNull(v) THEN state
    ELSE [has |-> TRUE,
          n |-> state.n + 1,
          v |-> CASE ~state.has -> v
                  [] fn \in {"sum", "avg"} ->
                       Calculate("+", v, state.v, state.v.t)
                  [] fn = "min" /\ Compare(v, state.v) < 0 -> v
                  [] fn = "max" /\ Compare(v, state.v) > 0 -> v
                  [] OTHER -> state.v]

Evaluate(fn, state) ==
    CASE fn = "count" -> Integer(state.n)
      [] ~state.has -> Null
      [] fn = "avg" -> Float(Halves(state.v) \div state.n)
      [] OTHER -> state.v

\* The states of the vectorised engine see raw column data: a NULL is the
\* zero stored for it, and counts.
ChunkAggregate(fn, vals) ==
    LET total == FoldLeft(LAMBDA x, v : x + Halves(v), 0, vals)
    IN  CASE fn = "count" -> Integer(Len(vals))
          [] fn = "sum" -> IF vals # <<>> /\ vals[1].t = "floats"
                           THEN Float(total) ELSE Integer(total \div 2)
          [] fn = "avg" -> IF vals = <<>> THEN Float(-FloatMax)  \* 0/0
                           ELSE Float(total \div Len(vals))

-----------------------------------------------------------------------------

\* ExpressionBinder: the bound expressions of e over the query's tables, or
\* a failure.  A star stands for several expressions.
Bound(es) == [ok |-> TRUE, es |-> es]
Unbindable == [ok |-> FALSE, es |-> <<>>]

WildcardFields(t) == [i \in DOMAIN Schema[t] |-> Field(t, Schema[t][i].f)]

BindField(e, tables) ==
    LET t == IF e.t = "" THEN tables[1] ELSE e.t
    IN  IF \/ e.t = "" /\ Len(tables) # 1
           \/ t \notin ToSet(tables)
        THEN Unbindable
        ELSE IF ~HasColumn(t, e.f) THEN Unbindable
        ELSE Bound(<<Field(t, e.f)>>)

\* check_aggregate_expression: sums and averages are over numbers, and no
\* aggregate is inside another.
AggregateIsValid(fn, e) ==
    /\ fn \in {"sum", "avg"} => Numerical(ValueType(e))
    /\ Aggregations(e) = <<>>

RECURSIVE Bind(_, _)
Bind(e, tables) ==
    LET one(c) == LET b == Bind(c, tables)
                  IN  IF b.ok /\ Len(b.es) = 1 THEN b ELSE Unbindable
    IN  CASE e.k = "star" ->
               Bound(FlattenSeq([i \in DOMAIN tables |->
                                    WildcardFields(tables[i])]))
          [] e.k = "unbound field" -> BindField(e, tables)
          [] e.k \in {"field", "value"} -> Bound(<<e>>)
          [] e.k = "cast" ->
               LET b == one(e.e) IN
               IF b.ok THEN Bound(<<[e EXCEPT !.e = b.es[1]]>>) ELSE Unbindable
          [] e.k = "comparison" ->
               LET l == one(e.l)
                   r == one(e.r)
               IN  IF l.ok /\ r.ok
                   THEN Bound(<<[e EXCEPT !.l = l.es[1], !.r = r.es[1]]>>)
                   ELSE Unbindable
          [] e.k = "arithmetic" ->
               LET l == one(e.l)
                   r == one(e.r)
               IN  IF ~(l.ok /\ r.ok) THEN Unbindable
                   ELSE IF /\ Numerical(ValueType(l.es[1]))
                           /\ Numerical(ValueType(r.es[1]))
                   THEN Bound(<<[e EXCEPT !.l = l.es[1], !.r = r.es[1]]>>)
                   ELSE Unbindable
          [] e.k = "conjunction" ->
               LET bs == [i \in DOMAIN e.kids |-> one(e.kids[i])]
               IN  IF \A i \in DOMAIN bs : bs[i].ok
                   THEN Bound(<<[e EXCEPT !.kids =
                                     [i \in DOMAIN bs |-> bs[i].es[1]]]>>)
                   ELSE Unbindable
          [] e.k = "unbound aggregation" ->
               LET b == IF e.e.k = "star" /\ e.fn = "count"
                        THEN Bound(<<Value(Integer(1))>>) ELSE one(e.e)
               IN  IF ~b.ok THEN Unbindable
                   ELSE IF AggregateIsValid(e.fn, b.es[1])
                   THEN Bound(<<Aggregation(e.fn, b.es[1], e.name)>>)
                   ELSE Unbindable
=============================================================================
