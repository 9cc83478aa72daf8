-------------------------- MODULE MC_SimplifyFilter --------------------------
(***************************************************************************)
(* Model-checking instance of SimplifyFilter: plans over a table with two  *)
(* nullable Integer columns c1, c2, with expressions built from small      *)
(* literals.  Most plans are a filter over the scan, one per predicate the *)
(* binder can produce; each run picks one family of them as Inputs.       *)
(***************************************************************************)
EXTENDS SimplifyFilter

CONSTANTS c1, c2

Lit(k) == Constant(IntVal(k))
Col(c) == ColumnRef(c)
Neg(e) == Unary("Minus", e, "Int")
NotE(e) == Unary("Not", e, "Bool")
Arith(op, l, r) == Binary(op, l, r, "Int")
Cmp(op, l, r) == Binary(op, l, r, "Bool")

\* plan nodes; a node's expressions are a record of sequences by field
Node(op, exprs, kids) == [op |-> op, exprs |-> exprs, kids |-> kids, is_optimized |-> FALSE]
Scan == Node("TableScan", << >>, << >>)
\* Filter(pred) over a scan of the table
FilterPlans(preds) == {<<Node("Filter", [predicate |-> <<p>>], <<2>>), Scan>> : p \in preds}

Cols == {Col(c1), Col(c2)}
Literals(ks) == {Lit(k) : k \in ks}

\* comparisons of a term with a literal, the term on either side
Comparisons(terms, ops, ks) ==
    {Cmp(op, t, l) : op \in ops, t \in terms, l \in Literals(ks)}
    \cup {Cmp(op, l, t) : op \in ops, t \in terms, l \in Literals(ks)}

-----------------------------------------------------------------------------
(* Terms on one column for which the rewrite is exact: the column on the   *)
(* left of + and -, or on the right of -, under at most one more such     *)
(* step and unary minus.                                                   *)

Step(terms, ks) ==
    {Arith(op, t, l) : op \in {"Plus", "Minus"}, t \in terms, l \in Literals(ks)}
    \cup {Arith("Minus", l, t) : t \in terms, l \in Literals(ks)}
    \cup {Neg(t) : t \in terms}

ExactTerms1 == Cols \cup Step(Cols, {1})
ExactTerms2 == ExactTerms1 \cup Step(ExactTerms1 \ Cols, {1})

ExactPreds == Comparisons(ExactTerms2, CmpOps, {0, 1})
\* boolean combinations: NOT of a comparison on one side of AND / OR, a
\* plain comparison of a column on the other
BoolPreds ==
    LET atoms == Comparisons(ExactTerms1, {"Gt", "Eq"}, {1})
    IN  {Cmp(op, NotE(a), b) : op \in LogicOps, a \in atoms,
                               b \in Comparisons(Cols, {"Gt"}, {1})}
        \cup {NotE(a) : a \in atoms}
\* a constant subexpression whose fold overflows: the rule returns Err
\* (also inside an IN list, after an element that folds)
OverflowPreds ==
    {Cmp("Gt", Arith("Plus", Lit(IntMax), Lit(1)), x) : x \in Cols}
    \cup {In(FALSE, x, <<Arith("Plus", Lit(0), Lit(0)), Arith("Plus", Lit(IntMax), Lit(1))>>) :
            x \in Cols}
\* [NOT] IN over an exact term, with an empty list, a NULL in the list or a
\* constant to fold; a one-element list over a column or its negation;
\* [NOT] BETWEEN over an exact term; NOT IN under AND
InLists == {<< >>, <<Lit(0), Lit(1)>>, <<Lit(1), Constant(NullVal)>>,
            <<Arith("Plus", Lit(1), Lit(0)), Lit(0)>>}
InBetweenPreds ==
    {In(neg, t, l) : neg \in BOOLEAN, t \in ExactTerms1, l \in InLists}
    \cup {In(neg, t, <<Lit(0)>>) : neg \in BOOLEAN, t \in Cols \cup {Neg(x) : x \in Cols}}
    \cup {Between(neg, t, Lit(lo), Lit(hi)) : neg \in BOOLEAN, t \in ExactTerms1,
                                             lo, hi \in {0, 1}}
    \cup {Cmp("And", NotE(In(FALSE, x, <<Lit(0), Lit(1)>>)), Cmp("Gt", y, Lit(1))) :
            x, y \in Cols}
PassFilterPreds == ExactPreds \cup BoolPreds \cup OverflowPreds \cup InBetweenPreds

-----------------------------------------------------------------------------
(* Families where the rewrite goes wrong.                                  *)

\* literal + column: the column is on the right of +
PlusRightPreds == Comparisons({Arith("Plus", l, x) : l \in Literals({1, 2}), x \in Cols}, CmpOps, {1})
\* NOT on both sides of AND
NotNotPreds ==
    LET atoms == Comparisons(Cols, {"Gt"}, {1})
    IN  {Cmp("And", NotE(a), NotE(b)) : a, b \in atoms}
\* IS [NOT] NULL of a literal or of a folded constant expression
IsNullPreds ==
    {IsNull(neg, e) : neg \in BOOLEAN,
                      e \in {Constant(NullVal), Lit(1), Arith("Plus", Lit(1), Constant(NullVal))}}
\* two columns in one arithmetic chain
ChainPreds ==
    {Cmp("Gt", Arith("Plus", Arith("Plus", x, Lit(1)), y), Lit(5)) : x, y \in Cols}
\* column times a literal, compared with a literal or a column
MultiplyPreds ==
    Comparisons({Arith("Multiply", x, Lit(k)) : x \in Cols, k \in {-2, 2}}, {"Gt"}, {3})
MultiplyColumnPreds ==
    {Cmp("Gt", Arith("Multiply", Col(c1), Lit(2)), Col(c2))}
\* an arithmetic step under a modulo: `%` is not is_arithmetic, so it pops
\* the Replace pushed by the step below it
ModuloPreds ==
    {Cmp("Gt", Arith("Modulo", Arith("Plus", x, Lit(1)), Lit(2)), Lit(0)) : x \in Cols}
\* a constant remainder by zero in a filter: c > 1 % 0
ModZeroPreds ==
    {Cmp("Gt", x, Arith("Modulo", Lit(1), Lit(0))) : x \in Cols}
\* the left operand folds, then the right one overflows: c > (1 + 1) + (MAX + 1)
PartialFoldPreds ==
    {Cmp("Gt", x, Arith("Plus", Arith("Plus", Lit(1), Lit(1)),
                                Arith("Plus", Lit(IntMax), Lit(1)))) : x \in Cols}
\* IN with one element over an arithmetic term: c + 1 IN (0)
SingleInPreds == {In(FALSE, Arith("Plus", x, Lit(1)), <<Lit(0)>>) : x \in Cols}
\* unary minus of a column compared with 0 (reaches -MIN)
NegPreds == Comparisons({Neg(x) : x \in Cols}, CmpOps, {0})
\* literals next to the bounds of Integer
BoundPreds ==
    Comparisons({Arith("Minus", x, Lit(1)) : x \in Cols}, {"Gt", "Lt"}, {IntMax})

-----------------------------------------------------------------------------
(* Plans with expressions in every operator _apply visits: constants to    *)
(* fold in a projection, under a unary minus, in join keys and the join    *)
(* filter, in a sort key, and a HAVING filter over an aggregate, which     *)
(* SimplifyFilter does not match.                                          *)

One == Arith("Plus", Lit(0), Lit(1))
PlanInputs ==
    { <<Node("Project", [exprs |-> <<Neg(Arith("Plus", Lit(1), Lit(1))),
                                     Arith("Plus", Col(c1), One)>>], <<2>>),
        Node("Filter", [predicate |-> <<Cmp("Gt", Col(c2), One)>>], <<3>>),
        Scan>>,
      <<Node("Join", [on |-> <<Col(c1), One>>,
                      filter |-> <<Cmp("Gt", Col(c2), One)>>], <<2, 3>>),
        Scan, Scan>>,
      <<Node("Filter", [predicate |-> <<Cmp("Gt", Arith("Plus", Col(c1), Lit(1)), One)>>], <<2>>),
        Node("Aggregate", [agg_calls |-> << >>,
                           groupby_exprs |-> <<Arith("Minus", Col(c1), One)>>], <<3>>),
        Scan>>,
      <<Node("Sort", [sort_fields |-> <<Neg(Neg(One))>>], <<2>>),
        Node("Limit", << >>, <<3>>),
        Node("Filter", [predicate |-> <<Cmp("Lt", Lit(1), Arith("Minus", Col(c1), One))>>], <<4>>),
        Scan>> }

PassInputs == FilterPlans(PassFilterPreds) \cup PlanInputs
PlusRightInputs == FilterPlans(PlusRightPreds)
NotNotInputs == FilterPlans(NotNotPreds)
IsNullInputs == FilterPlans(IsNullPreds)
ChainInputs == FilterPlans(ChainPreds)
MultiplyInputs == FilterPlans(MultiplyPreds)
ModuloInputs == FilterPlans(ModuloPreds)
ModZeroInputs == FilterPlans(ModZeroPreds)
SingleInInputs == FilterPlans(SingleInPreds)
NegInputs == FilterPlans(NegPreds)
BoundInputs == FilterPlans(BoundPreds)
\* the projection folds, then the filter below it overflows
PartialFoldInputs ==
    FilterPlans(PartialFoldPreds)
    \cup {<<Node("Project", [exprs |-> <<One>>], <<2>>),
            Node("Filter", [predicate |-> <<Cmp("Gt", x, Arith("Plus", Lit(IntMax), Lit(1)))>>], <<3>>),
            Scan>> : x \in Cols}
=============================================================================
