---------------------------- MODULE ColumnPruning ----------------------------
(***************************************************************************)
(* The ColumnPruning normalization rule                                    *)
(* (src/src/optimizer/rule/normalization/column_pruning.rs) driven by a    *)
(* once-topdown batch of the HepOptimizer.                                 *)
(*                                                                         *)
(* The recursion of ColumnPruning::_apply is an explicit stack `calls` of  *)
(* pending invocations [node, refs, all] (node id, column_references,      *)
(* all_referenced); one step runs the body of _apply for the call on top   *)
(* and pushes the calls it makes for the children, the first child on top, *)
(* so the steps happen in the order of the code's depth-first recursion.   *)
(*                                                                         *)
(* Expressions are abstracted to what pruning reads of them:               *)
(*   out   output_column() (a column, or the virtual column of a computed  *)
(*         expression),                                                    *)
(*   refs  the columns of referenced_columns(false): out itself and every  *)
(*         column and sub-expression below it,                             *)
(*   star  whether it is COUNT( * ) (HasCountStar).                      *)
(* A node is a record [op, exprs, groupby, distinct, own, cols, kids]:     *)
(* exprs are the projection's exprs or the aggregate's agg_calls, own is   *)
(* what Operator::referenced_columns(false) returns for a Filter, Sort,    *)
(* Limit, Join or DML node, cols the columns of a TableScan, kids the      *)
(* child node ids in order.  Node 1 is the root.                           *)
(***************************************************************************)
EXTENDS Naturals, Sequences, FiniteSets

CONSTANTS
    Columns,     \* column summaries, table and virtual columns alike
    StarCol,     \* the output column of the synthesized COUNT( * )
    Plans,       \* the plans the binder may hand over (functions id -> node)
    MaxPasses    \* the batch's iteration cap

VARIABLES
    orig,        \* the plan before optimization (never changes)
    plan,        \* the HepGraph's operators
    calls,       \* the pending _apply invocations, top at the end
    order,       \* nodes the current pass of the batch still has to visit
    inRule,      \* ColumnPruning::apply is running at some node
    pass,        \* passes of the batch started
    version      \* HepGraph.version

vars == <<orig, plan, calls, order, inRule, pass, version>>

Nodes == DOMAIN orig

\* COUNT( * ): an aggregate whose only argument is the literal "*"
CountStar == [out |-> StarCol, refs |-> {StarCol}, star |-> TRUE]

\* the HasCountStar visitor over a list of expressions
HasCountStar(es) == \E e \in es : e.star

\* ScalarExpression::referenced_columns(false) of a set of expressions
RefsOf(es) == UNION {e.refs : e \in es}

\* Operator::referenced_columns(false)
OperatorRefs(n) ==
    IF n.op = "Project" THEN RefsOf(n.exprs)
    ELSE IF n.op = "Aggregate" THEN RefsOf(n.exprs \cup n.groupby)
    ELSE n.own

\* the output columns of a node of plan p (its schema)
RECURSIVE Output(_, _)
Output(p, id) ==
    LET n == p[id]
    IN  CASE n.op = "TableScan" -> n.cols
          [] n.op = "Project"   -> {e.out : e \in n.exprs}
          [] n.op = "Aggregate" -> {e.out : e \in n.exprs \cup n.groupby}
          [] n.op = "Join"      -> Output(p, n.kids[1]) \cup Output(p, n.kids[2])
          [] n.kids # <<>>      -> Output(p, n.kids[1])
          [] OTHER              -> {}

\* the nodes in pre-order, as once-topdown visits them
RECURSIVE PreOrder(_, _)
PreOrder(p, id) ==
    LET kidsOrder[i \in 0..Len(p[id].kids)] ==
            IF i = 0 THEN <<>> ELSE kidsOrder[i - 1] \o PreOrder(p, p[id].kids[i])
    IN  <<id>> \o kidsOrder[Len(p[id].kids)]

-----------------------------------------------------------------------------
(* ColumnPruning                                                           *)

\* clear_exprs: keep an expression whose output column is referenced or
\* that references a referenced column
ClearExprs(refs, exprs) == {e \in exprs : e.out \in refs \/ e.refs \cap refs # {}}

\* the calls for every child of node id, the first child on top
ChildCalls(id, refs, all) ==
    [i \in 1..Len(plan[id].kids) |->
        [node |-> plan[id].kids[Len(plan[id].kids) + 1 - i], refs |-> refs, all |-> all]]

Top == calls[Len(calls)]
Popped == SubSeq(calls, 1, Len(calls) - 1)

\* a step of _apply on the call on top of the stack
ApplyAt(op) == calls # <<>> /\ plan[Top.node].op \in op

\* Operator::Aggregate
ApplyAggregate ==
    /\ ApplyAt({"Aggregate"})
    /\ LET c == Top
           n == plan[c.node]
           kept == IF c.all THEN n.exprs ELSE ClearExprs(c.refs, n.exprs)
           aggs == IF ~c.all /\ kept = {} /\ n.groupby = {} THEN {CountStar} ELSE kept
           newRefs == RefsOf(aggs \cup n.groupby) \cup (IF n.distinct THEN c.refs ELSE {})
       IN  /\ plan' = [plan EXCEPT ![c.node].exprs = aggs]
           /\ calls' = Popped \o ChildCalls(c.node, newRefs, FALSE)
    /\ UNCHANGED <<orig, order, inRule, pass, version>>

\* Operator::Project: left alone, children included, when it has COUNT( * )
ApplyProject ==
    /\ ApplyAt({"Project"})
    /\ LET c == Top
           n == plan[c.node]
           kept == IF c.all THEN n.exprs ELSE ClearExprs(c.refs, n.exprs)
       IN  IF HasCountStar(n.exprs)
           THEN /\ calls' = Popped
                /\ UNCHANGED plan
           ELSE /\ plan' = [plan EXCEPT ![c.node].exprs = kept]
                /\ calls' = Popped \o ChildCalls(c.node, RefsOf(kept), FALSE)
    /\ UNCHANGED <<orig, order, inRule, pass, version>>

\* Operator::TableScan
ApplyTableScan ==
    /\ ApplyAt({"TableScan"})
    /\ LET c == Top
       IN  plan' = IF c.all THEN plan
                   ELSE [plan EXCEPT ![c.node].cols = @ \cap c.refs]
    /\ calls' = Popped
    /\ UNCHANGED <<orig, order, inRule, pass, version>>

\* mutant: the incoming set is passed on without the operator's references
ApplyPassThroughNoOwn ==
    /\ ApplyAt({"Sort", "Limit", "Join", "Filter", "Union"})
    /\ calls' = Popped \o ChildCalls(Top.node, Top.refs, Top.all)
    /\ UNCHANGED <<orig, plan, order, inRule, pass, version>>

\* Sort, Limit, Join, Filter, Union: add the operator's references
ApplyPassThrough ==
    /\ ApplyAt({"Sort", "Limit", "Join", "Filter", "Union"})
    /\ calls' = Popped \o ChildCalls(Top.node, Top.refs \cup plan[Top.node].own, Top.all)
    /\ UNCHANGED <<orig, plan, order, inRule, pass, version>>

\* Explain: the child is applied with all_referenced
ApplyExplain ==
    /\ ApplyAt({"Explain"})
    /\ calls' = Popped \o ChildCalls(Top.node, Top.refs, TRUE)
    /\ UNCHANGED <<orig, plan, order, inRule, pass, version>>

\* Insert, Update, Delete, Analyze: recollect_apply of the operator's
\* references, all_referenced, at the eldest child, so that _apply runs on
\* the children of that child and the child itself is skipped
ApplyDml ==
    /\ ApplyAt({"Insert", "Update", "Delete", "Analyze"})
    /\ plan[Top.node].kids # << >>
    /\ calls' = Popped \o ChildCalls(plan[Top.node].kids[1], plan[Top.node].own, TRUE)
    /\ UNCHANGED <<orig, plan, order, inRule, pass, version>>

\* Dummy, Values, FunctionScan and the single-plan DDL: nothing to do, and
\* no recursion into a child (AddColumn and DropColumn read a full scan)
ApplyTerminal ==
    /\ ApplyAt({"Dummy", "Values", "FunctionScan", "CreateTable", "CreateIndex",
                "CreateView", "DropTable", "DropView", "DropIndex", "Truncate",
                "ShowTable", "ShowView", "CopyFromFile", "CopyToFile",
                "AddColumn", "DropColumn", "Describe"})
    /\ calls' = Popped
    /\ UNCHANGED <<orig, plan, order, inRule, pass, version>>

-----------------------------------------------------------------------------
(* NormalizationRule::apply and the once-topdown batch                     *)

\* ColumnPruning::apply(node_id): _apply(HashSet::new(), true, node_id)
StartRule ==
    /\ ~inRule
    /\ order # <<>>
    /\ calls' = <<[node |-> Head(order), refs |-> {}, all |-> TRUE]>>
    /\ order' = Tail(order)
    /\ inRule' = TRUE
    /\ UNCHANGED <<orig, plan, pass, version>>

\* _apply returned: `graph.version += 1`
EndRule ==
    /\ inRule
    /\ calls = <<>>
    /\ inRule' = FALSE
    /\ version' = version + 1
    /\ UNCHANGED <<orig, plan, calls, order, pass>>

\* mutant: the batch repeats while the version moves, with no cap
NextPassUncapped ==
    /\ ~inRule
    /\ order = <<>>
    /\ order' = PreOrder(plan, 1)
    /\ pass' = pass + 1
    /\ UNCHANGED <<orig, plan, calls, inRule, version>>

\* the batch runs again while the version moved, up to its cap
NextPass ==
    /\ ~inRule
    /\ order = <<>>
    /\ pass < MaxPasses
    /\ order' = PreOrder(plan, 1)
    /\ pass' = pass + 1
    /\ UNCHANGED <<orig, plan, calls, inRule, version>>

Init ==
    /\ orig \in Plans
    /\ plan = orig
    /\ calls = <<>>
    /\ order = PreOrder(orig, 1)
    /\ inRule = FALSE
    /\ pass = 1
    /\ version = 0

Next ==
    \/ ApplyAggregate \/ ApplyProject \/ ApplyTableScan \/ ApplyPassThrough
    \/ ApplyExplain \/ ApplyDml \/ ApplyTerminal
    \/ StartRule \/ EndRule \/ NextPass

Spec == Init /\ [][Next]_vars

-----------------------------------------------------------------------------
(* Properties                                                              *)

Call == [node : Nodes, refs : SUBSET Columns, all : BOOLEAN]

\* the variables have their types; the batch never runs more passes than
\* its cap (ColumnPruning bumps the version on every application, so the
\* cap is what ends the batch)
TypeOK ==
    /\ calls \in Seq(Call)
    /\ DOMAIN plan = Nodes
    /\ inRule \in BOOLEAN
    /\ pass \in 1..MaxPasses
    /\ version \in Nat

ChildOutput(p, id) == UNION {Output(p, p[id].kids[i]) : i \in 1..Len(p[id].kids)}

\* Column-pruning soundness (spec 8.4): whenever no application of the rule
\* is in progress, every column an operator still reads and its children
\* produced before optimization is still produced by them, and the root's
\* output is the one the binder built.  This is about the way
\* column_references is narrowed at Project and Aggregate, widened at
\* Sort/Filter/Join and reset by the driver at every node.
PruneSound ==
    ~inRule =>
        /\ Output(plan, 1) = Output(orig, 1)
        /\ \A id \in Nodes :
              OperatorRefs(plan[id]) \cap ChildOutput(orig, id) \subseteq ChildOutput(plan, id)
=============================================================================
