--------------------------- MODULE MC_ColumnPruning ---------------------------
(***************************************************************************)
(* Plans of the queries of the column-pruning tests and of the spec's      *)
(* operator table over t1(a, b) and t2(c).  v is the virtual column of a   *)
(* computed expression, s that of an aggregate call.                       *)
(***************************************************************************)
EXTENDS AlterTable

CONSTANTS a, b, c, v, s, star

ColE(x) == [out |-> x, refs |-> {x}, star |-> FALSE]
Comp(x, S) == [out |-> x, refs |-> {x} \cup S, star |-> FALSE]
Star == [out |-> star, refs |-> {star}, star |-> TRUE]

Node(op, exprs, groupby, own, cols, kids) ==
    [op |-> op, exprs |-> exprs, groupby |-> groupby, distinct |-> FALSE,
     own |-> own, cols |-> cols, kids |-> kids]
Proj(es, k) == Node("Project", es, {}, {}, {}, k)
Agg(es, gb, k) == Node("Aggregate", es, gb, {}, {}, k)
Op(op, own, k) == Node(op, {}, {}, own, {}, k)
Scan(cols) == Node("TableScan", {}, {}, {}, cols, <<>>)
T1 == Scan({a, b})
T2 == Scan({c})

Catalog == [t \in {"t1", "t2"} |-> IF t = "t1" THEN {a, b} ELSE {c}]

\* ALTER TABLE statements over t1, t2 and a missing t3, with every outcome
\* of the binder's checks
AlterStmts ==
    [nameOk : BOOLEAN, table : {"t1", "t2", "t3"},
     kind : {"AddColumn", "DropColumn", "RenameColumn"},
     columnBinds : BOOLEAN, validIdent : BOOLEAN]

\* the plans bind_alter_table builds from them
AlterPlans ==
    {BindAlterTable(st, Catalog).plan :
        st \in {x \in AlterStmts : BindAlterTable(x, Catalog).ok}}

QueryPlans == {
    \* select a from t1 where b > 1
    <<Proj({ColE(a)}, <<2>>), Op("Filter", {b}, <<3>>), T1>>,
    \* select a, c from t1 left join t2 on a = c
    <<Proj({ColE(a), ColE(c)}, <<2>>), Op("Join", {a, c}, <<3, 4>>), T1, T2>>,
    \* select sum(b) from t1 group by a
    <<Proj({Comp(s, {b})}, <<2>>), Agg({Comp(s, {b})}, {ColE(a)}, <<3>>), T1>>,
    \* select 1 from (select sum(b) from t1)
    <<Proj({Comp(v, {})}, <<2>>), Agg({Comp(s, {b})}, {}, <<3>>), T1>>,
    \* select count(*) from t1
    <<Proj({Star}, <<2>>), Agg({Star}, {}, <<3>>), T1>>,
    \* explain select a from t1
    <<Op("Explain", {}, <<2>>), Proj({ColE(a)}, <<3>>), T1>>,
    \* insert into t2 select a from t1
    <<Op("Insert", {}, <<2>>), Proj({ColE(a)}, <<3>>), T1>>,
    \* select a, b + 1 as v from t1 order by v
    <<Op("Sort", {v}, <<2>>), Proj({ColE(a), Comp(v, {b})}, <<3>>), T1>>,
    \* select distinct a from t1
    <<Proj({ColE(a)}, <<2>>), [Agg({}, {ColE(a)}, <<3>>) EXCEPT !.distinct = TRUE], T1>>,
    \* select 1 limit 1 from a VALUES list
    <<Op("Limit", {}, <<2>>), Proj({Comp(v, {})}, <<3>>), Op("Values", {}, <<>>)>>,
    \* select a from t1 union select c from t2
    <<Proj({ColE(a)}, <<2>>), Op("Union", {a, c}, <<3, 4>>), T1, T2>>,
    \* delete from t1 where b > 1
    <<Op("Delete", {a}, <<2>>), Op("Filter", {b}, <<3>>), T1>>
}

TestPlans == QueryPlans \cup AlterPlans

-----------------------------------------------------------------------------
(* The expressions a projection over the pruned plan may hold, bound by    *)
(* TryReference against its child's output expressions: nullable Integer  *)
(* columns a, b of t1 with two-bit integers.                               *)

TR == INSTANCE TryReference WITH Columns <- {a, b}, IntWidth <- 2, NegOverflow <- "wrap"

A == TR!ColumnRef(a)
B == TR!ColumnRef(b)
K(i) == TR!Constant(TR!IntVal(i))
Plus(l, r) == TR!Binary("Plus", l, r, "Int")
AOr0 == TR!IfNull(A, K(0), "Int")
ANot0 == TR!NullIf(A, K(0), "Int")

\* the child's output expressions, with repeats and computed columns
TROutputs == {
    <<A, B>>, <<B, A>>, <<A, A>>, <<Plus(A, K(1)), A>>, <<B, Plus(A, K(1))>>,
    <<A, AOr0>>, <<ANot0, AOr0>>, <<AOr0, ANot0, A>>, <<Plus(A, B), B, A>>
}

\* the expressions resolved against them
TRProbes == {
    A, B, Plus(A, K(1)), TR!Binary("Gt", Plus(A, K(1)), B, "Bool"),
    Plus(Plus(A, K(1)), K(1)), TR!Unary("Minus", Plus(A, B), "Int"),
    TR!IsNull(TRUE, Plus(A, K(1))), TR!In(FALSE, A, <<Plus(A, K(1)), B>>),
    TR!Between(TRUE, Plus(A, K(1)), A, B), AOr0, ANot0, Plus(ANot0, K(1))
}
\* every probe, resolved against every output list where equal summaries
\* mean equal values, keeps its value (a table TLC evaluates once)
TRResolvesAll ==
    \A e \in TRProbes, outs \in TROutputs :
        TR!NamesFaithful(e, outs) => TR!Resolves(e, outs)
TRNamesAll == \A e \in TRProbes, outs \in TROutputs : TR!NamesFaithful(e, outs)

\* The executor reads a resolved expression from the child's output tuple:
\* TryReference (expression/mod.rs) keeps the value of every expression,
\* each subexpression it turns into Reference { pos } reading the value of
\* the output at pos, as long as equal ColumnSummaries mean equal values
\* among the expressions involved (OutputColumnIdentifies).  It does not
\* depend on the plan being pruned and is checked in every state of it.
TryReferenceSound == orig \in Plans => TRResolvesAll

\* Expressions the planner takes for the same column, because their
\* output_column summaries are equal, have the same value on every row.
OutputColumnIdentifies == orig \in Plans => TRNamesAll
=============================================================================
