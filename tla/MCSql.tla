-------------------------------- MODULE MCSql --------------------------------
(***************************************************************************)
(* What the server does with the text of a statement, one part in each     *)
(* behaviour: statements through the rule-based planner and the executor,  *)
(* plans through the cascade optimizer, and the three parts of completion, *)
(* which are the text scanner, the engine with its validator and the       *)
(* client of the model.                                                    *)
(***************************************************************************)
EXTENDS QueryExecution, CascadeOptimizer, SqlText, Completion, ModelClient

VARIABLE focus
mcVars == <<focus, queryVars, cascadeVars, textVars, completionVars, modelVars>>

MCSchema == [r |-> <<[f |-> "a", type |-> "ints"], [f |-> "b", type |-> "ints"],
                     [f |-> "c", type |-> "floats"]>>,
             s |-> <<[f |-> "a", type |-> "ints"], [f |-> "d", type |-> "ints"]>>]
MCIndexes == {<<"r", "a">>, <<"s", "d">>}
MCModes == {"tuple", "chunk"}

I(n) == Value(Integer(n))
F(h) == Value(Float(h))
A == UnboundField("", "a")
B == UnboundField("", "b")
C == UnboundField("", "c")
RA == UnboundField("r", "a")
SA == UnboundField("s", "a")
SD == UnboundField("s", "d")
Eq(x, y) == Comparison("=", x, y)
And(kids) == Conjunction("and", kids)
Or(kids) == Conjunction("or", kids)
Asc(e) == [e |-> e, asc |-> TRUE]
Desc(e) == [e |-> e, asc |-> FALSE]
Agg(fn, e) == UnboundAggregation(fn, e, fn)

SelectFrom(exprs, tables) == [Statement("select", tables) EXCEPT !.exprs = exprs]
Where(s, e) == [s EXCEPT !.where = <<e>>]
FromR == SelectFrom(<<A, B>>, <<"r">>)

\* The conditions of the SELECTs over one table.
Conditions ==
    {Eq(A, I(1)), Comparison(">", A, I(1)), Comparison(">=", I(1), A),
     Comparison("<>", A, I(1)), Eq(A, B), Comparison("<", C, F(3)),
     Comparison("is null", B, Value(Null)),
     And(<<Eq(A, I(1)), Comparison("is not null", B, Value(Null))>>),
     And(<<Comparison("<", A, I(2)), Eq(B, I(2))>>),
     Or(<<Eq(A, I(2)), Eq(B, I(1))>>),
     And(<<Eq(I(1), I(1)), Eq(B, I(1))>>),
     And(<<Or(<<Eq(A, I(1)), Eq(A, I(2))>>), Comparison(">", B, I(0))>>),
     Not(Or(<<Eq(A, I(2)), Eq(B, I(1))>>)),
     Eq(Arithmetic("+", A, I(1)), I(2)),
     Eq(A, Arithmetic("-", I(3), I(1))),
     Eq(I(1), I(2)), Eq(I(1), I(1)),
     Comparison("<", A, F(3))}

MCStatements ==
    {Where(FromR, e) : e \in Conditions} \cup
    {FromR, SelectFrom(<<Star>>, <<"r">>),
     SelectFrom(<<UnboundField("", "x")>>, <<"r">>),
     SelectFrom(<<B>>, <<"r", "s">>),
     SelectFrom(<<Arithmetic("*", A, B), C>>, <<"r">>),
     [Where(SelectFrom(<<C>>, <<"r">>), Comparison(">=", B, I(1)))
         EXCEPT !.order = <<Desc(C), Asc(A)>>],
     [FromR EXCEPT !.order = <<Asc(B), Desc(A)>>],
     [SelectFrom(<<B, A>>, <<"r">>) EXCEPT !.order = <<Asc(B), Desc(A)>>],
     SelectFrom(<<Star>>, <<"r", "s">>),
     Where(SelectFrom(<<RA, SD>>, <<"r", "s">>), Eq(RA, SA)),
     [Where(SelectFrom(<<RA, SD>>, <<"r", "s">>), Comparison(">", SD, I(1)))
         EXCEPT !.on = <<Eq(RA, SA)>>, !.order = <<Asc(SD)>>],
     SelectFrom(<<Agg("sum", A), Agg("count", Star)>>, <<"r">>),
     SelectFrom(<<Agg("avg", C), Agg("count", B)>>, <<"r">>),
     Where(SelectFrom(<<Agg("max", B), Agg("min", C)>>, <<"r">>), Eq(A, I(1))),
     SelectFrom(<<Agg("sum", Agg("sum", A))>>, <<"r">>),
     [SelectFrom(<<B, Agg("sum", A)>>, <<"r">>) EXCEPT !.group = <<B>>],
     [SelectFrom(<<A, Agg("sum", A)>>, <<"r">>) EXCEPT !.group = <<B>>],
     [SelectFrom(<<B, Agg("count", A)>>, <<"r">>)
         EXCEPT !.group = <<B>>, !.order = <<Desc(B)>>],
     Statement("delete", <<"r">>),
     [Statement("delete", <<"r">>) EXCEPT !.conds =
         <<Comparison(">", A, I(1)), Eq(B, I(1))>>],
     [Statement("delete", <<"s">>) EXCEPT !.conds =
         <<Comparison("<", UnboundField("", "d"), F(3))>>],
     [Statement("update", <<"r">>) EXCEPT !.conds = <<Eq(A, I(1))>>,
         !.f = "a", !.v = Integer(2)],
     [Statement("update", <<"r">>) EXCEPT !.conds = <<Comparison("<", I(1), A)>>,
         !.f = "c", !.v = Integer(3)],
     [Statement("update", <<"r">>) EXCEPT !.f = "x", !.v = Integer(3)],
     [Statement("insert", <<"s">>) EXCEPT !.vals = <<Integer(2), Integer(1)>>],
     [Statement("insert", <<"s">>) EXCEPT !.vals = <<Integer(2)>>]}

RowR(rid, a, b, c) == [rid |-> rid, c |-> [a |-> a, b |-> b, c |-> c]]
RowS(rid, a, d) == [rid |-> rid, c |-> [a |-> a, d |-> d]]

MCDatabases ==
    {[r |-> <<>>, s |-> <<>>],
     [r |-> <<RowR(1, Integer(2), Integer(1), Float(3))>>, s |-> <<>>],
     [r |-> <<RowR(1, Integer(2), Integer(1), Float(3)),
              RowR(2, Integer(1), Integer(2), Float(2)),
              RowR(4, Integer(3), Integer(1), Float(5))>>,
      s |-> <<RowS(1, Integer(1), Integer(2)), RowS(2, Integer(2), Integer(2)),
              RowS(3, Integer(1), Integer(1))>>],
     [r |-> <<RowR(1, Integer(2), Null, Float(3)), RowR(2, Integer(1), Null, Null),
              RowR(3, Integer(2), Integer(2), Float(4))>>,
      s |-> <<RowS(1, Integer(2), Integer(2)), RowS(2, Integer(2), Integer(1))>>]}

\* A condition with a constant after a comparison.
MCConstantStatements == {Where(FromR, And(<<Eq(A, I(1)), Eq(I(1), I(2))>>))}

Node(op, t, kids) == [op |-> op, t |-> t, kids |-> kids]
Get(t) == Node("get", t, <<>>)
Over1(op, kid) == Node(op, "", <<kid>>)

MCTrees ==
    {Over1("project", Get("r")), Over1("project", Over1("predicate", Get("r"))),
     Over1("delete", Over1("predicate", Get("r"))), Over1("delete", Get("s")),
     Over1("explain", Over1("project", Over1("predicate", Get("s")))),
     Over1("explain", Over1("project", Get("r"))),
     Node("insert", "s", <<>>), Node("calc", "", <<>>),
     Over1("project", Node("join", "", <<Get("r"), Get("s")>>)),
     Over1("project", Over1("sort", Get("r")))}
MCRowNums == [r |-> 3, s |-> 0]

-----------------------------------------------------------------------------
(* Completion *)

MCFragments == {<<"a">>, <<"1">>, <<".">>, <<"'">>, <<"\\">>, <<";">>, <<"\n">>,
                <<"-", "-">>, <<"/", "*">>, <<"*", "/">>, <<">", "=">>}

W(text) == [kind |-> "Word", text |-> text, style |-> "upper"]
S(text) == [kind |-> "Symbol", text |-> text]
M(text) == [kind |-> "Mark", text |-> text]
Lower(text) == [kind |-> "Word", text |-> text, style |-> "lower"]
MCVocabulary == {W("FROM"), Lower("WHERE"), W("VALUES"), W("t"), S(","), S("("), S(")")}
MCStarts == {<<>>, <<W("SELECT")>>, <<W("INSERT"), W("INTO"), W("t")>>}
MCEndings == {<<>>, <<W("FROM"), W("u"), W("JOIN"), W("x")>>}
MCPartials == {[qualifier |-> "", text |-> ""], [qualifier |-> "", text |-> "a"], [qualifier |-> "u", text |-> ""]}
MCPrefixOf == {<<"a", "a">>, <<"a", "AND">>}
MCParserViews ==
    {[valid |-> TRUE, expected |-> <<"ID", "SELECT", "LBRACE", "NULL_T">>, takes |-> {"FROM", "SELECT"}],
     [valid |-> TRUE, expected |-> <<"FROM", "INT_T", "NUMBER">>, takes |-> {"AND", "FROM"}],
     [valid |-> FALSE, expected |-> <<>>, takes |-> {}]}
MCCatalog == [t |-> <<"a", "b">>, u |-> <<"a">>, v |-> <<"c">>]
MCTableOrder == <<"u", "t", "v">>
MCNameOrder == <<"''", "(", "AND", "FROM", "INT", "NULL", "SELECT", "a", "b", "c", "t", "u", "v">>
Break == [kind |-> "Newline", text |-> "newline"]
ModelWords == {W("AND"), W("LIKE"), W("t"), W("a"), W("c"), S("."), S(";"), M("<|"), M("|>"), M("fence"), M("here is"), Break}
MCContinuations ==
    UNION {[1 .. n -> ModelWords] : n \in 1 .. 2}
    \cup {<<M("here is"), x, Break, y>> : x, y \in {W("AND"), M("fence"), W("LIKE")}}
    \cup {<<x, M("<|"), W("AND"), M("|>"), y>> : x, y \in {W("AND"), M("<|"), S(";")}}
    \cup {<<M("fence"), Break, x, y, Break, M("fence"), z>> : x, y, z \in {W("AND"), W("LIKE")}}
    \cup {<<x, W("t"), S("."), y>> : x \in {W("AND"), S(";")}, y \in {W("a"), W("c"), W("LIKE")}}
    \cup {<<W("t"), S("."), x, y>> : x \in {W("a"), W("c")}, y \in {W("AND"), W("LIKE")}}

-----------------------------------------------------------------------------
QueryIdle ==
    /\ db = <<>> /\ before = <<>>
    /\ stmt = Statement("select", <<>>)
    /\ mode = "tuple" /\ stage = "refused"
    /\ plan = NoPlan /\ phys = NoPlan /\ passes = 0 /\ rows = <<>>

CascadeIdle ==
    /\ tree = Node("none", "", <<>>)
    /\ memo = [exprs |-> <<>>, groups |-> <<>>]
    /\ tasks = <<>> /\ performed = 0 /\ best = <<>>

TextIdle == TextInit
EngineIdle == CompletionInit /\ lead = <<>>
ModelIdle == ModelInit /\ ~up

MCInit ==
    \/ focus = "query" /\ QueryInit /\ CascadeIdle /\ TextIdle /\ EngineIdle /\ ModelIdle
    \/ focus = "cascade" /\ CascadeInit /\ QueryIdle /\ TextIdle /\ EngineIdle /\ ModelIdle
    \/ focus = "text" /\ TextInit /\ QueryIdle /\ CascadeIdle /\ EngineIdle /\ ModelIdle
    \/ focus = "engine" /\ CompletionInit /\ QueryIdle /\ CascadeIdle /\ TextIdle /\ ModelIdle
    \/ focus = "model" /\ ModelInit /\ QueryIdle /\ CascadeIdle /\ TextIdle /\ EngineIdle

MCNext ==
    /\ UNCHANGED focus
    /\ \/ focus = "query" /\ QueryNext
          /\ UNCHANGED <<cascadeVars, textVars, completionVars, modelVars>>
       \/ focus = "cascade" /\ CascadeNext
          /\ UNCHANGED <<queryVars, textVars, completionVars, modelVars>>
       \/ focus = "text" /\ TextNext
          /\ UNCHANGED <<queryVars, cascadeVars, completionVars, modelVars>>
       \/ focus = "engine" /\ CompletionNext
          /\ UNCHANGED <<queryVars, cascadeVars, textVars, modelVars>>
       \/ focus = "model" /\ ModelNext
          /\ UNCHANGED <<queryVars, cascadeVars, textVars, completionVars>>

MCSpec == MCInit /\ [][MCNext]_mcVars /\ (focus = "model" => ModelFairness)
StatementSpec == MCInit /\ focus = "query" /\ [][MCNext]_mcVars
=============================================================================
