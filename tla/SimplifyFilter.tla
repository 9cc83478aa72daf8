---------------------------- MODULE SimplifyFilter ----------------------------
(***************************************************************************)
(* A plan in a HepGraph under the two normalization rules of               *)
(* src/src/optimizer/rule/normalization/simplification.rs:                 *)
(*   ConstantCalculation ConstantCalculator on every expression of the     *)
(*                       operator it is applied at, then on its children,  *)
(*                       recursively (_apply); the first Err ends it;      *)
(*   SimplifyFilter      ConstantCalculator then Simplify on the predicate *)
(*                       of a filter with no Aggregate below it, once      *)
(*                       (guarded by is_optimized).                        *)
(* The rule driver (HepOptimizer, outside the sources) may apply them at   *)
(* any node, in any order and any number of times; each application bumps *)
(* the graph version, which is bounded by MaxVersion.  A rule that returns *)
(* Err aborts the optimization (status "error"); an evaluator panic during *)
(* a fold unwinds the optimizing thread (status "panic").                 *)
(*                                                                         *)
(* A plan is a sequence of nodes indexed by HepNodeId, the root first.  A  *)
(* node has its operator, its expressions by field (a sequence per field,  *)
(* in the order the operator stores them), the ids of its children and,   *)
(* for a filter, is_optimized.  `original` is the plan the binder         *)
(* produced; it never changes and is what the rewritten plan is compared   *)
(* with.                                                                   *)
(***************************************************************************)
EXTENDS Simplify

CONSTANTS
    Inputs,       \* the plans the binder may hand over
    MaxVersion    \* bound on rule applications (graph version)

\* the outcome of a visit that did not fail
NoFail == [kind |-> "NoFail"]

VARIABLES
    original,      \* the bound plan (never rewritten)
    plan,          \* the operators of the graph
    version,       \* HepGraph.version
    status,        \* "ok", or "error" / "panic" once a rule failed
    last           \* the last rule application: <<rule, node>> (history)

vars == <<original, plan, version, status, last>>

\* mutant: the Join arm visits the `on` pairs and forgets the join filter
FieldsNoJoinFilter(op) ==
    CASE op = "Aggregate" -> <<"agg_calls", "groupby_exprs">>
      [] op = "Filter"    -> <<"predicate">>
      [] op = "Join"      -> <<"on">>
      [] op = "Project"   -> <<"exprs">>
      [] op = "Sort"      -> <<"sort_fields">>
      [] OTHER            -> << >>

\* the expression fields each operator arm of _apply visits, in its order
\* (Aggregate chains agg_calls with groupby_exprs; a Join visits each `on`
\* pair, left then right, then its filter)
Fields(op) ==
    CASE op = "Aggregate" -> <<"agg_calls", "groupby_exprs">>
      [] op = "Filter"    -> <<"predicate">>
      [] op = "Join"      -> <<"on", "filter">>
      [] op = "Project"   -> <<"exprs">>
      [] op = "Sort"      -> <<"sort_fields">>
      [] OTHER            -> << >>

\* the first of the results `rs` that failed, or the last one when none did
StopAt(rs) ==
    LET bad == {j \in DOMAIN rs : rs[j].fail # NoFail}
    IN  IF bad = {} THEN Len(rs) ELSE FirstOf(bad)
Outcome(rs) == IF rs = << >> THEN NoFail ELSE rs[StopAt(rs)].fail

\* the expressions `es` after their visits, whose results are `fs`: those
\* before the failing one folded, the failing one with what its visit
\* rewrote in place, the later ones not visited
CommitExprs(es, fs) ==
    LET f      == StopAt([i \in DOMAIN fs |->
                             [fail |-> IF fs[i] \in CalcFails THEN fs[i] ELSE NoFail]])
        failed == f \in DOMAIN fs /\ fs[f] \in CalcFails
    IN  [es |-> [i \in DOMAIN es |-> IF ~failed \/ i < f THEN fs[i]
                                      ELSE IF i = f THEN FoldInPlace(es[i])
                                      ELSE es[i]],
         fail |-> IF failed THEN fs[f] ELSE NoFail]

\* `for expr in exprs { ConstantCalculator.visit(expr)? }`
VisitExprs(es) == CommitExprs(es, [i \in DOMAIN es |-> ConstantCalculator(es[i])])

\* the node after the visits of its fields `fs`, whose results are `rs`: the
\* fields up to the first failure take their results, the later ones stay
CommitFields(node, fs, rs) ==
    [node |-> [node EXCEPT !.exprs =
                  [x \in DOMAIN node.exprs |->
                      IF \E j \in 1..StopAt(rs) : fs[j] = x
                      THEN rs[CHOOSE j \in 1..StopAt(rs) : fs[j] = x].es
                      ELSE node.exprs[x]]],
     fail |-> Outcome(rs)]

\* the operator arm of _apply: its fields in order, and the first failure
\* returns (each field's fold reads only that field)
FoldFields(node, fs) ==
    CommitFields(node, fs, [j \in DOMAIN fs |-> VisitExprs(node.exprs[fs[j]])])

\* the nodes _apply(n) reaches, in the order it reaches them: n, then each
\* child's subtree in children_at order
RECURSIVE Preorder(_, _)
Preorder(p, todo) ==
    IF todo = << >> THEN << >>
    ELSE <<Head(todo)>> \o Preorder(p, p[Head(todo)].kids \o Tail(todo))

\* the plan after the folds `rs` of the nodes in `order`: the nodes up to the
\* first failure take their results, the later ones stay
CommitNodes(p, order, rs) ==
    [plan |-> [k \in DOMAIN p |->
                  IF \E j \in 1..StopAt(rs) : order[j] = k
                  THEN rs[CHOOSE j \in 1..StopAt(rs) : order[j] = k].node
                  ELSE p[k]],
     fail |-> Outcome(rs)]

\* ConstantCalculation::_apply(n, graph): the node's operator, then
\* `for child_id in children_at(node_id) { Self::_apply(child_id, graph)? }`;
\* the first node whose fold fails ends it, and the graph keeps every
\* rewrite made before (each node's fold reads only that node)
ApplyCC(p, n) ==
    LET order == Preorder(p, <<n>>)
    IN  CommitNodes(p, order, [j \in DOMAIN order |->
                                  FoldFields(p[order[j]], Fields(p[order[j]].op))])

\* the nodes below n
RECURSIVE Below(_, _)
Below(p, n) == UNION {{k} \cup Below(p, k) : k \in Range(p[n].kids)}

\* SIMPLIFY_FILTER_RULE: a Filter whose child, and every node below it, is
\* not an Aggregate
SimplifyFilterMatches(p, n) ==
    /\ p[n].op = "Filter"
    /\ \A k \in Below(p, n) : p[k].op # "Aggregate"

Init ==
    /\ original \in Inputs
    /\ plan = original
    /\ version = 0
    /\ status = "ok"
    /\ last = <<"none", 0>>

\* how a failed fold ends the optimization
FailStatus(fail) == IF fail = CalcPanic THEN "panic" ELSE "error"

\* SimplifyFilter::apply at filter node n (on an optimized filter it returns
\* Ok without a change, a stuttering step)
ApplySimplifyFilter(n) ==
    /\ status = "ok"
    /\ version < MaxVersion
    /\ SimplifyFilterMatches(plan, n)
    /\ ~plan[n].is_optimized
    /\ last' = <<"SimplifyFilter", n>>
    /\ LET pred   == plan[n].exprs.predicate[1]
           folded == ConstantCalculator(pred)
       IN  IF folded \in CalcFails
           THEN /\ status' = FailStatus(folded)
                /\ plan' = [plan EXCEPT ![n].exprs.predicate[1] = FoldInPlace(pred)]
                /\ UNCHANGED <<original, version>>
           ELSE /\ plan' = [plan EXCEPT ![n].exprs.predicate[1] = SimplifyExpr(folded),
                                        ![n].is_optimized = TRUE]
                /\ version' = version + 1
                /\ UNCHANGED <<original, status>>

\* ConstantCalculation::apply at node n
ApplyConstantCalculation(n) ==
    /\ status = "ok"
    /\ version < MaxVersion
    /\ last' = <<"ConstantCalculation", n>>
    /\ LET r == ApplyCC(plan, n)
       IN  /\ plan' = r.plan
           /\ IF r.fail # NoFail
              THEN status' = FailStatus(r.fail) /\ UNCHANGED version
              ELSE version' = version + 1 /\ UNCHANGED status
    /\ UNCHANGED original

Next == \E n \in DOMAIN plan : ApplySimplifyFilter(n) \/ ApplyConstantCalculation(n)

Spec == Init /\ [][Next]_vars

-----------------------------------------------------------------------------
(* Properties                                                              *)

\* the place of every expression of a plan: <<node, field, index>>
Positions(p) ==
    UNION {UNION {{<<n, f, i>> : i \in DOMAIN p[n].exprs[f]} : f \in DOMAIN p[n].exprs}
             : n \in DOMAIN p}
At(p, pos) == p[pos[1]].exprs[pos[2]][pos[3]]

TypeOK ==
    /\ original \in Inputs
    /\ version \in 0..MaxVersion
    /\ status \in {"ok", "error", "panic"}
    /\ DOMAIN plan = DOMAIN original
    /\ \A n \in DOMAIN plan : plan[n].is_optimized \in BOOLEAN
    /\ \A pos \in Positions(plan) :
          /\ At(plan, pos).kind \in {"Constant", "ColumnRef", "Unary", "Binary",
                                     "IsNull", "In", "Between", "Empty"}
          \* every folded constant is a DataValue, never an error or a panic
          /\ \A v \in ConstantValues(At(plan, pos)) : v.t \in LogicalTypes

\* Simplification equivalence (spec 8.5, 8.7): whatever rules ran at
\* whatever nodes, on every row on which every bound expression of the plan
\* evaluates without error, optimization succeeded and every rewritten
\* expression evaluates to the same value as the bound one
\* (ConstantCalculator, Simplify and the replace stack of fix_expr).
RewritePreservesValue ==
    \A row \in Row :
        (\A pos \in Positions(original) : ~IsFailure(Eval(At(original, pos), row))) =>
            /\ status = "ok"
            /\ \A pos \in Positions(original) :
                  Eval(At(plan, pos), row) = Eval(At(original, pos), row)

\* The Empty placeholder that Simplify puts in a subtree when it pushes a
\* Replace never survives the rewrite (spec invariant (i)).
NoEmptyHole == \A pos \in Positions(plan) : ~ContainsEmpty(At(plan, pos))

\* A rule application never panics: every failure of an evaluator while
\* ConstantCalculator folds a constant subtree reaches the rule as an Err
\* (spec 7: evaluators return Result and errors propagate out of rules).
OptimizerNeverPanics == status # "panic"

\* A rule that fails leaves the graph as it was (spec 7: "a rule failure ...
\* leaves the graph unchanged by convention (rules must not partially
\* mutate and then fail)"); both rules rewrite through operator_mut.
RuleFailureLeavesGraph ==
    [][status = "ok" /\ status' # "ok" => plan' = plan]_vars

\* Simplify is idempotent on what SimplifyFilter produced (spec 8.7): a
\* second pass, e.g. from a re-planned filter, would not change the tree,
\* even after ConstantCalculation has folded it again.
SimplifyIdempotent ==
    \A n \in DOMAIN plan :
        plan[n].is_optimized =>
            SimplifyExpr(plan[n].exprs.predicate[1]) = plan[n].exprs.predicate[1]

\* ConstantCalculation is idempotent (spec 8.7): once it has been applied at
\* a node, applying it again right after, at that node or at any node below
\* it (as the batch does, at every node), leaves the graph as it was
\* (ConstantCalculator folds an operand and then its parent in one visit).
ConstantCalculationIdempotent ==
    [][/\ last[1] = "ConstantCalculation"
       /\ last'[1] = "ConstantCalculation"
       /\ last'[2] \in {last[2]} \cup Below(plan, last[2])
       => plan' = plan]_vars

\* After ConstantCalculation succeeded at the root, no expression anywhere
\* in the plan has a constant subtree left to fold (spec 4.2: folding is
\* applied inside all expression-bearing operators; _apply recurses into
\* every child).
PlanFoldedFromRoot ==
    last = <<"ConstantCalculation", 1>> /\ status = "ok" =>
        \A pos \in Positions(plan) : ConstantCalculator(At(plan, pos)) = At(plan, pos)
=============================================================================
