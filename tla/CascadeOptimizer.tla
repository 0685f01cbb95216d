-------------------------- MODULE CascadeOptimizer --------------------------
(***************************************************************************)
(* The cost-based optimizer a session can switch on (use_cascade).  It puts  *)
(* the logical plan into a memo, runs a stack of tasks that add physical     *)
(* expressions and find each group's cheapest one, and reads the plan off    *)
(* the winners.                                                              *)
(*                                                                          *)
(* A logical operator is [op, t, kids].  An expression of the memo is        *)
(* [node, kids, g, phys, explored, cost]: its operator, its child groups,    *)
(* its group, whether it is physical, whether its rule was applied and its   *)
(* lowest cost.  A group is [exprs, winner, cost, explored, card].           *)
(* Expressions and groups are known by their places in the memo.             *)
(***************************************************************************)
EXTENDS Integers, Sequences, SequencesExt, FiniteSets

CONSTANTS Trees,      \* the logical plans to optimize
          RowNums,    \* table -> the number of rows the statistics know
          Io, Cpu     \* the cost of reading and of handling a row

VARIABLES tree,       \* the plan under optimization
          memo,       \* its expressions and groups
          tasks,      \* PendingTasks; the last one is on top
          performed,  \* tasks performed
          best        \* the physical plan, when the tasks have run

cascadeVars == <<tree, memo, tasks, performed, best>>

None == 0
Infinite == 1000000

\* The implementation rules match an operator and its number of children.
\* A mutant: the pattern of the predicate's rule has no child.
RuleArityMut == [project |-> 1, get |-> 0, insert |-> 0, explain |-> 1,
                 calc |-> 0, delete |-> 1, predicate |-> 0]

RuleArity == [project |-> 1, get |-> 0, insert |-> 0, explain |-> 1,
              calc |-> 0, delete |-> 1, predicate |-> 1]

RuleMatches(expr) ==
    /\ ~expr.phys
    /\ expr.node.op \in DOMAIN RuleArity
    /\ RuleArity[expr.node.op] = Len(expr.kids)

\* find_log_prop: rows a group is expected to have; None where the operator
\* does not estimate them.
Card(into, node, kids) ==
    CASE node.op = "get" -> RowNums[node.t]
      [] node.op = "project" ->
           FoldLeft(LAMBDA n, g : n + into.groups[g].card, 0, kids)
      [] node.op = "join" ->
           FoldLeft(LAMBDA n, g : n * into.groups[g].card, 1, kids)
      [] OTHER -> None

CardOf(memory, expr) == Card(memory, expr.node, expr.kids)

\* calculate_cost of the physical operators.
OperatorCost(expr, card) ==
    CASE expr.node.op = "get" -> (Io + Cpu) * card
      [] expr.node.op = "project" -> Cpu * card
      [] OTHER -> 0

\* A mutant: expressions are compared by address.
SameExprMut(e, f) == FALSE

SameExpr(e, f) ==
    /\ e.phys = f.phys
    /\ e.node.op = f.node.op
    /\ e.node.t = f.node.t
    /\ e.kids = f.kids

\* Memo::insert_expression: an expression already there is found again;
\* otherwise it joins the target group or starts one.  The mutant gives a new
\* group the id of the one before it.
InsertExpressionMut(into, expr, target) ==
    LET same == {i \in DOMAIN into.exprs : SameExpr(into.exprs[i], expr)}
        id == Len(into.exprs) + 1
        g == IF target = None THEN Len(into.groups) ELSE target
        group == [exprs |-> <<id>>, winner |-> None, cost |-> Infinite,
                  explored |-> FALSE, card |-> 0]
    IN  IF same # {} THEN [m |-> into, id |-> CHOOSE i \in same : TRUE, new |-> FALSE]
        ELSE [m |-> [exprs |-> Append(into.exprs, [expr EXCEPT !.g = g]),
                     groups |-> IF target = None THEN Append(into.groups, group)
                                ELSE [into.groups EXCEPT ![g].exprs = Append(@, id)]],
              id |-> id, new |-> TRUE]

InsertExpression(into, expr, target) ==
    LET same == {i \in DOMAIN into.exprs : SameExpr(into.exprs[i], expr)}
        id == Len(into.exprs) + 1
        g == IF target = None THEN Len(into.groups) + 1 ELSE target
        group == [exprs |-> <<id>>, winner |-> None, cost |-> Infinite,
                  explored |-> FALSE, card |-> CardOf(into, expr)]
    IN  IF same # {} THEN [m |-> into, id |-> CHOOSE i \in same : TRUE, new |-> FALSE]
        ELSE [m |-> [exprs |-> Append(into.exprs, [expr EXCEPT !.g = g]),
                     groups |-> IF target = None THEN Append(into.groups, group)
                                ELSE [into.groups EXCEPT ![g].exprs = Append(@, id)]],
              id |-> id, new |-> TRUE]

\* make_group_expression: the children enter the memo first.
RECURSIVE RecordNode(_, _, _, _)
RecordNode(m0, node, phys, target) ==
    LET step(acc, kid) ==
            LET r == RecordNode(acc.m, kid, FALSE, None)
            IN  [m |-> r.m, gs |-> Append(acc.gs, r.m.exprs[r.id].g)]
        under == FoldLeft(step, [m |-> m0, gs |-> <<>>], node.kids)
    IN  InsertExpression(under.m,
                         [node |-> node, kids |-> under.gs, g |-> None,
                          phys |-> phys, explored |-> FALSE, cost |-> Infinite],
                         target)

-----------------------------------------------------------------------------

OptimizeGroupTask(g) == [k |-> "group", g |-> g]
OptimizeExpressionTask(x) == [k |-> "expr", x |-> x]
ApplyRuleTask(x) == [k |-> "rule", x |-> x]
OptimizeInputsTask(x, child, prev, cost) ==
    [k |-> "inputs", x |-> x, child |-> child, prev |-> prev, cost |-> cost]

CascadeInit ==
    /\ tree \in Trees
    /\ LET r == RecordNode([exprs |-> <<>>, groups |-> <<>>], tree, FALSE, None)
       IN  /\ memo = r.m
           /\ tasks = <<OptimizeGroupTask(r.m.exprs[r.id].g)>>
    /\ performed = 0
    /\ best = <<>>

Root == memo.exprs[CHOOSE i \in DOMAIN memo.exprs :
                       memo.exprs[i].node = tree /\ ~memo.exprs[i].phys].g

Top == Last(tasks)
Popped == Front(tasks)

Select(group, physical) ==
    SelectSeq(group.exprs, LAMBDA i : memo.exprs[i].phys = physical)

\* The expressions of a group without a winner, physical ones on top.
OptimizeGroup ==
    /\ tasks # <<>> /\ Top.k = "group"
    /\ LET g == memo.groups[Top.g]
           logic == IF g.explored THEN <<>> ELSE Select(g, FALSE)
           phys == Select(g, TRUE)
       IN  IF g.winner # None THEN tasks' = Popped /\ UNCHANGED memo
           ELSE /\ tasks' = Popped
                     \o [i \in DOMAIN logic |->
                            OptimizeExpressionTask(logic[i])]
                     \o [i \in DOMAIN phys |->
                            OptimizeInputsTask(phys[i], None, None, 0)]
                /\ memo' = [memo EXCEPT !.groups[Top.g].explored = TRUE]
    /\ performed' = performed + 1
    /\ UNCHANGED <<tree, best>>

\* At most one rule matches an operator, and no pattern reaches below the
\* children, so no group is explored on its own.
OptimizeExpression ==
    /\ tasks # <<>> /\ Top.k = "expr"
    /\ LET e == memo.exprs[Top.x]
       IN  tasks' = IF RuleMatches(e) /\ ~e.explored
                    THEN Append(Popped, ApplyRuleTask(Top.x)) ELSE Popped
    /\ performed' = performed + 1
    /\ UNCHANGED <<tree, memo, best>>

\* The rule's physical operator keeps the logical children and joins the
\* group; its children enter the memo again, where they are found.
ApplyRule ==
    /\ tasks # <<>> /\ Top.k = "rule"
    /\ LET e == memo.exprs[Top.x]
           r == RecordNode(memo, e.node, TRUE, e.g)
       IN  IF e.explored THEN tasks' = Popped /\ UNCHANGED memo
           ELSE /\ memo' = [r.m EXCEPT !.exprs[Top.x].explored = TRUE]
                /\ tasks' = IF r.new
                            THEN Append(Popped, OptimizeInputsTask(r.id, None, None, 0))
                            ELSE Popped
    /\ performed' = performed + 1
    /\ UNCHANGED <<tree, best>>

\* OptimizeInputs walks the children, adding up their winners' costs.  At a
\* child without a winner it puts itself back under that group's task, once.
\* A mutant: the child the task waited for is not added.
WalkMut(expr, from, prev, cost) ==
    LET winner(c) == memo.groups[expr.kids[c]].winner
        stops == {c \in from .. Len(expr.kids) : winner(c) = None /\ prev # c}
        stop == IF stops = {} THEN Len(expr.kids) + 1
                ELSE CHOOSE c \in stops : \A d \in stops : c <= d
    IN  [stop |-> stop, cost |-> cost]

\* A mutant: the task waits for a child as long as it has no winner.
WalkForever(expr, from, prev, cost) ==
    LET winner(c) == memo.groups[expr.kids[c]].winner
        stops == {c \in from .. Len(expr.kids) : winner(c) = None}
        stop == IF stops = {} THEN Len(expr.kids) + 1
                ELSE CHOOSE c \in stops : \A d \in stops : c <= d
        won == {c \in from .. stop - 1 : winner(c) # None}
    IN  [stop |-> stop,
         cost |-> FoldSet(LAMBDA c, n : n + memo.exprs[winner(c)].cost, cost, won)]

Walk(expr, from, prev, cost) ==
    LET winner(c) == memo.groups[expr.kids[c]].winner
        stops == {c \in from .. Len(expr.kids) : winner(c) = None /\ prev # c}
        stop == IF stops = {} THEN Len(expr.kids) + 1
                ELSE CHOOSE c \in stops : \A d \in stops : c <= d
        won == {c \in from .. stop - 1 : winner(c) # None}
    IN  [stop |-> stop,
         cost |-> FoldSet(LAMBDA c, n : n + memo.exprs[winner(c)].cost, cost, won)]

SetCost(x, cost) ==
    LET g == memo.exprs[x].g
    IN  [memo EXCEPT
            !.exprs[x].cost = IF cost < @ THEN cost ELSE @,
            !.groups[g] = IF @.cost > cost
                          THEN [@ EXCEPT !.cost = cost, !.winner = x] ELSE @]

OptimizeInputs ==
    /\ tasks # <<>> /\ Top.k = "inputs"
    /\ LET e == memo.exprs[Top.x]
           fresh == Top.child = None
           w == Walk(e, IF fresh THEN 1 ELSE Top.child, Top.prev,
                     IF fresh THEN OperatorCost(e, memo.groups[e.g].card)
                     ELSE Top.cost)
       IN  IF w.stop <= Len(e.kids)
           THEN /\ tasks' = Popped
                     \o <<OptimizeInputsTask(Top.x, w.stop, w.stop, w.cost),
                          OptimizeGroupTask(e.kids[w.stop])>>
                /\ UNCHANGED memo
           ELSE memo' = SetCost(Top.x, w.cost) /\ tasks' = Popped
    /\ performed' = performed + 1
    /\ UNCHANGED <<tree, best>>

\* choose_best_plan: a group without a winner leaves a missing child.
RECURSIVE BestPlan(_)
BestPlan(g) ==
    IF memo.groups[g].winner = None THEN <<>>
    ELSE LET e == memo.exprs[memo.groups[g].winner]
         IN  <<[op |-> e.node.op, t |-> e.node.t,
                kids |-> [i \in DOMAIN e.kids |-> BestPlan(e.kids[i])]]>>

ChooseBestPlan ==
    /\ tasks = <<>>
    /\ best = <<>>
    /\ BestPlan(Root) # <<>>
    /\ best' = BestPlan(Root)
    /\ UNCHANGED <<tree, memo, tasks, performed>>

CascadeNext ==
    \/ OptimizeGroup \/ OptimizeExpression \/ ApplyRule \/ OptimizeInputs
    \/ ChooseBestPlan

-----------------------------------------------------------------------------

RECURSIVE AsPlan(_)
AsPlan(node) == <<[op |-> node.op, t |-> node.t,
                   kids |-> [i \in DOMAIN node.kids |-> AsPlan(node.kids[i])]]>>

RECURSIVE PlanCost(_)
PlanCost(node) ==
    (CASE node.op = "get" -> (Io + Cpu) * RowNums[node.t]
           [] node.op = "project" ->
                Cpu * FoldLeft(LAMBDA n, k : n + (IF k.op = "get" THEN RowNums[k.t]
                                                  ELSE 0), 0, node.kids)
           [] OTHER -> 0)
        + FoldLeft(LAMBDA n, k : n + PlanCost(k), 0, node.kids)

\* Expressions, groups and tasks refer to what the memo holds.
CascadeTypeOK ==
    /\ \A i \in DOMAIN memo.exprs :
         /\ memo.exprs[i].g \in DOMAIN memo.groups
         /\ ToSet(memo.exprs[i].kids) \subseteq DOMAIN memo.groups
    /\ \A i \in DOMAIN tasks :
         IF tasks[i].k = "group" THEN tasks[i].g \in DOMAIN memo.groups
         ELSE tasks[i].x \in DOMAIN memo.exprs

\* Applying a rule records the operator's children again; the memo finds
\* them, so that no group ever has two logical expressions and the memo does
\* not grow with the order of the tasks.
MemoHasNoDuplicates ==
    /\ LET shape(i) == <<memo.exprs[i].phys, memo.exprs[i].node.op,
                         memo.exprs[i].node.t, memo.exprs[i].kids>>
       IN  IsInjective([i \in DOMAIN memo.exprs |-> shape(i)])
    /\ \A g \in DOMAIN memo.groups :
         Cardinality({i \in DOMAIN memo.exprs :
                         memo.exprs[i].g = g /\ ~memo.exprs[i].phys}) = 1

RECURSIVE Implementable(_)
Implementable(node) ==
    /\ node.op \in DOMAIN RuleArity
    /\ \A k \in ToSet(node.kids) : Implementable(k)

\* A winner is a physical expression of its own group, found when its child
\* groups have theirs (those that can have one), and its cost is its
\* operator's and theirs together.
WinnersCostWhatTheyShould ==
    \A g \in DOMAIN memo.groups :
        LET x == memo.groups[g].winner IN
        x # None =>
            /\ memo.exprs[x].phys
            /\ memo.exprs[x].g = g
            /\ Implementable(memo.exprs[x].node) =>
                 /\ \A h \in ToSet(memo.exprs[x].kids) :
                      memo.groups[h].winner # None
                 /\ memo.groups[g].cost = PlanCost(memo.exprs[x].node)

RECURSIVE Size(_)
Size(node) == FoldLeft(LAMBDA n, k : n + Size(k), 1, node.kids)

\* When the tasks have run, the plan that is read off the winners has the
\* operators of the logical plan, none missing, if each has an
\* implementation rule.
BestPlanIsComplete ==
    tasks = <<>> /\ Implementable(tree) =>
        /\ BestPlan(Root) = AsPlan(tree)
        /\ best # <<>> => best = AsPlan(tree)

\* The stack of tasks empties, also where a group never gets a winner: each
\* operator costs a bounded number of tasks.
TasksRunOut == performed <= 5 * Size(tree)

\* The search of the cascade optimizer ends, without duplicates in its memo,
\* with winners that cost what their plans cost and a complete best plan.
SearchIsSound ==
    /\ CascadeTypeOK /\ MemoHasNoDuplicates /\ TasksRunOut
    /\ WinnersCostWhatTheyShould /\ BestPlanIsComplete
=============================================================================
