----------------------------- MODULE TryReference -----------------------------
(***************************************************************************)
(* Column identity of expressions and the TryReference visitor             *)
(* (src/src/expression/mod.rs).                                            *)
(*                                                                         *)
(* An expression that is not a column reference is identified by a         *)
(* virtual column whose name is its output_name, the text of the          *)
(* expression; the planner and the executor compare columns by their       *)
(* ColumnSummary (name, relation).  TryReference rewrites, bottom-up,      *)
(* every subexpression whose summary is that of one of the child's output  *)
(* expressions into Reference { expr, pos }, pos being the first such      *)
(* output (0-based); the executor then reads the value at pos of the       *)
(* child's output tuple instead of evaluating the subexpression.           *)
(*                                                                         *)
(* output_name is modelled by what it does: it builds the text with the    *)
(* format strings of the code.  Every column belongs to table t1.          *)
(***************************************************************************)
EXTENDS Expr, SequencesExt

\* Display of DataValue (types/value.rs, outside the sources)
ValueName(v) ==
    CASE v.t = "Int"  -> ToString(v.n)
      [] v.t = "Bool" -> IF v.b THEN "true" ELSE "false"
      [] v.t = "Null" -> "null"

\* ColumnCatalog::full_name and ColumnSummary (outside the sources): a
\* table column is named by its column name within the relation t1
FullName(c) == "t1." \o ToString(c)

\* Display of UnaryOperator and BinaryOperator
UnarySymbol(op) == CASE op = "Plus" -> "+" [] op = "Minus" -> "-" [] op = "Not" -> "!"
BinarySymbol(op) ==
    CASE op = "Plus" -> "+"  [] op = "Minus" -> "-"  [] op = "Multiply" -> "*"
      [] op = "Divide" -> "/" [] op = "Modulo" -> "mod"
      [] op = "Gt" -> ">"  [] op = "Lt" -> "<"  [] op = "GtEq" -> ">="
      [] op = "LtEq" -> "<=" [] op = "Eq" -> "=" [] op = "NotEq" -> "!="
      [] op = "And" -> "&&" [] op = "Or" -> "||"

\* the names of a list joined with ", " (itertools join)
JoinNames(ns) == FoldLeft(LAMBDA acc, n : IF acc = "" THEN n ELSE acc \o ", " \o n, "", ns)

\* ScalarExpression::output_name (Display of an expression is its
\* output_name); NULLIF is printed with the text of IFNULL
RECURSIVE OutputName(_)
OutputName(e) ==
    CASE e.kind = "Constant"  -> ValueName(e.v)
      [] e.kind = "ColumnRef" -> FullName(e.col)
      [] e.kind = "IsNull" ->
            OutputName(e.expr) \o " " \o (IF e.negated THEN "is not null" ELSE "is null")
      [] e.kind = "Unary" -> UnarySymbol(e.op) \o OutputName(e.expr)
      [] e.kind = "Binary" ->
            "(" \o OutputName(e.l) \o " " \o BinarySymbol(e.op) \o " " \o OutputName(e.r) \o ")"
      [] e.kind = "In" ->
            OutputName(e.expr) \o (IF e.negated THEN " not in (" ELSE " in (")
            \o JoinNames([i \in DOMAIN e.args |-> OutputName(e.args[i])]) \o ")"
      [] e.kind = "Between" ->
            OutputName(e.expr) \o (IF e.negated THEN " not between [" ELSE " between [")
            \o OutputName(e.lo) \o ", " \o OutputName(e.hi) \o "]"
      [] e.kind = "Reference" -> OutputName(e.expr)
      [] e.kind \in {"IfNull", "NullIf"} ->
            "ifnull(" \o OutputName(e.l) \o ", " \o OutputName(e.r) \o ")"

\* ScalarExpression::output_column, as the ColumnSummary it is compared by:
\* a column reference is its own column, anything else a fresh column of
\* no relation named by its output_name
RECURSIVE OutputColumn(_)
OutputColumn(e) ==
    CASE e.kind = "ColumnRef" -> [name |-> ToString(e.col), relation |-> "t1"]
      [] e.kind = "Reference" -> OutputColumn(e.expr)
      [] OTHER -> [name |-> OutputName(e), relation |-> "None"]

\* mutant: the position of the first match taken 1-based, as find_position
\* is not
TryReferenceOneBased(outs, walked) ==
    LET pos == SelectInSeq(outs, LAMBDA o : OutputColumn(o) = OutputColumn(walked))
    IN  IF pos = 0 THEN walked ELSE Reference(walked, pos)

\* the end of TryReference::visit: the expression, its children already
\* visited, becomes a Reference to the first output expression whose
\* summary equals its own
Referenced(outs, walked) ==
    LET pos == SelectInSeq(outs, LAMBDA o : OutputColumn(o) = OutputColumn(walked))
    IN  IF pos = 0 THEN walked ELSE Reference(walked, pos - 1)

\* TryReference::visit: the node is taken out (an Empty hole is left in
\* its place), its children are visited (walk_mut_expr), and the result is
\* put back, wrapped in a Reference when it matches an output.  Nothing in
\* the walk can fail, so the hole is always filled again.
RECURSIVE TryRef(_, _)
TryRef(e, outs) ==
    LET walked ==
          CASE e.kind \in {"Unary", "IsNull"} -> [e EXCEPT !.expr = TryRef(e.expr, outs)]
            [] e.kind \in {"Binary", "IfNull", "NullIf"} ->
                  [e EXCEPT !.l = TryRef(e.l, outs), !.r = TryRef(e.r, outs)]
            [] e.kind \in {"In", "Between"} ->
                  WithChildren(e, [i \in DOMAIN Children(e) |-> TryRef(Children(e)[i], outs)])
            [] OTHER -> e
    IN  Referenced(outs, walked)

-----------------------------------------------------------------------------

\* the subexpressions of e, e included
RECURSIVE SubExprs(_)
SubExprs(e) ==
    {e} \cup
    CASE e.kind \in {"Unary", "IsNull", "Reference"} -> SubExprs(e.expr)
      [] e.kind \in {"Binary", "IfNull", "NullIf"} -> SubExprs(e.l) \cup SubExprs(e.r)
      [] e.kind \in {"In", "Between"} ->
            UNION {SubExprs(Children(e)[i]) : i \in DOMAIN Children(e)}
      [] OTHER -> {}

\* the child's output tuple for a row: the value of each output expression
\* at its position (the row's own columns stay readable for the
\* expressions left unresolved)
ChildTuple(row, outs) ==
    [x \in Columns \cup (0 .. Len(outs) - 1) |->
        IF x \in Columns THEN row[x] ELSE Eval(outs[x + 1], row)]

\* two expressions of the same summary have the same value on every row
SameValue(x, y) == \A row \in Row : Eval(x, row) = Eval(y, row)
NamesFaithful(e, outs) ==
    \A x \in SubExprs(e), i \in DOMAIN outs :
        OutputColumn(x) = OutputColumn(outs[i]) => SameValue(x, outs[i])

\* e resolved against outs has, on every row, the value e had
Resolves(e, outs) ==
    \A row \in Row : Eval(TryRef(e, outs), ChildTuple(row, outs)) = Eval(e, row)
=============================================================================
