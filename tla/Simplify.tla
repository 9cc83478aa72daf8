------------------------------- MODULE Simplify -------------------------------
(***************************************************************************)
(* The two expression rewriters of src/src/expression/simplify.rs as       *)
(* recursive operators.                                                    *)
(*                                                                         *)
(* ConstantCalculator folds every unary and binary node whose operands are *)
(* (after folding) constants; an error of the factory, a cast or an        *)
(* evaluator aborts the visit (`?`).                                       *)
(*                                                                         *)
(* Simplify rewrites in place with a stack `replaces` that lives across    *)
(* the whole visit: a unary or arithmetic node pushes a Replace and the    *)
(* next non-arithmetic binary node whose fix_expr runs pops and applies    *)
(* every pending Replace.  The visit is modelled as operators that thread  *)
(* (expression, stack) through the recursion exactly as the &mut borrows   *)
(* do: Visit returns the new node and stack, FixExpr returns the new pair  *)
(* of operands, operator and stack.                                        *)
(***************************************************************************)
EXTENDS Expr, SequencesExt

-----------------------------------------------------------------------------
(* ConstantCalculator                                                      *)

\* a failed fold: the visit returns Err and the rule application fails
CalcErr == [kind |-> "CalcErr"]
\* an evaluator panicked inside the fold (`-MIN` under overflow checks in
\* unary_eval, `%` by zero or MIN % -1 in binary_eval): the thread unwinds
CalcPanic == [kind |-> "CalcPanic"]
CalcFails == {CalcErr, CalcPanic}

\* the first of a set of child positions
FirstOf(is) == CHOOSE i \in is : \A j \in is : i <= j
\* the children of an IN or BETWEEN node that failed to fold
FailedChildren(cs) == {i \in DOMAIN cs : cs[i] \in CalcFails}

\* walk_mut_expr under ConstantCalculator: the children `cs`, folded in
\* order; the first failure aborts the walk
WalkFolded(e, cs) ==
    IF FailedChildren(cs) = {} THEN WithChildren(e, cs)
    ELSE cs[FirstOf(FailedChildren(cs))]

\* mutant: the unary arm tests its operand for a Constant as it was before
\* the visit of the operand, not after
RECURSIVE ConstantCalculatorStaleOperand(_)
ConstantCalculatorStaleOperand(e) ==
    CASE e.kind = "Unary" ->
            LET a == ConstantCalculatorStaleOperand(e.expr)
                v == UnaryEval(e.ty, e.op, a.v)
            IN  IF a \in CalcFails THEN a
                ELSE IF e.expr.kind # "Constant" THEN [e EXCEPT !.expr = a]
                ELSE IF v = PanicVal THEN CalcPanic
                ELSE IF ~UnarySupported(e.ty, e.op) \/ IsFailure(v) THEN CalcErr
                ELSE Constant(v)
      [] e.kind = "Binary" ->
            LET ty == MaxLogicalType(ReturnType(e.l), ReturnType(e.r))
                l  == ConstantCalculatorStaleOperand(e.l)
                r  == ConstantCalculatorStaleOperand(e.r)
            IN  IF ty = "Err" THEN CalcErr
                ELSE IF l \in CalcFails THEN l
                ELSE IF r \in CalcFails THEN r
                ELSE IF l.kind # "Constant" \/ r.kind # "Constant"
                     THEN [e EXCEPT !.l = l, !.r = r]
                ELSE LET lc == IF l.v.t # ty THEN Cast(l.v, ty) ELSE l.v
                         rc == IF r.v.t # ty THEN Cast(r.v, ty) ELSE r.v
                         v  == BinaryEval(ty, e.op, lc, rc)
                     IN  IF ~BinarySupported(ty, e.op) \/ lc = ErrVal
                            \/ rc = ErrVal \/ v = ErrVal
                         THEN CalcErr
                         ELSE IF v = PanicVal THEN CalcPanic
                         ELSE Constant(v)
      [] e.kind = "IsNull" ->
            LET a == ConstantCalculatorStaleOperand(e.expr)
            IN  IF a \in CalcFails THEN a ELSE [e EXCEPT !.expr = a]
      [] e.kind \in {"In", "Between"} ->
            WalkFolded(e, [i \in DOMAIN Children(e) |-> ConstantCalculatorStaleOperand(Children(e)[i])])
      [] OTHER -> e

RECURSIVE ConstantCalculator(_)
ConstantCalculator(e) ==
    CASE e.kind = "Unary" ->
            LET a == ConstantCalculator(e.expr)
                v == UnaryEval(e.ty, e.op, a.v)
            IN  IF a \in CalcFails THEN a
                ELSE IF a.kind # "Constant" THEN [e EXCEPT !.expr = a]
                ELSE IF v = PanicVal THEN CalcPanic
                ELSE IF ~UnarySupported(e.ty, e.op) \/ IsFailure(v) THEN CalcErr
                ELSE Constant(v)
      [] e.kind = "Binary" ->
            LET ty == MaxLogicalType(ReturnType(e.l), ReturnType(e.r))
                l  == ConstantCalculator(e.l)
                r  == ConstantCalculator(e.r)
            IN  IF ty = "Err" THEN CalcErr
                ELSE IF l \in CalcFails THEN l
                ELSE IF r \in CalcFails THEN r
                ELSE IF l.kind # "Constant" \/ r.kind # "Constant"
                     THEN [e EXCEPT !.l = l, !.r = r]
                ELSE LET lc == IF l.v.t # ty THEN Cast(l.v, ty) ELSE l.v
                         rc == IF r.v.t # ty THEN Cast(r.v, ty) ELSE r.v
                         v  == BinaryEval(ty, e.op, lc, rc)
                     IN  IF ~BinarySupported(ty, e.op) \/ lc = ErrVal
                            \/ rc = ErrVal \/ v = ErrVal
                         THEN CalcErr
                         ELSE IF v = PanicVal THEN CalcPanic
                         ELSE Constant(v)
      [] e.kind = "IsNull" ->
            LET a == ConstantCalculator(e.expr)
            IN  IF a \in CalcFails THEN a ELSE [e EXCEPT !.expr = a]
      [] e.kind \in {"In", "Between"} ->
            WalkFolded(e, [i \in DOMAIN Children(e) |-> ConstantCalculator(Children(e)[i])])
      [] OTHER -> e

\* the predicate ConstantCalculator leaves in the graph when its visit fails:
\* the subtrees folded and the operands cast before the failing `?` stay
\* rewritten in place
RECURSIVE FoldInPlace(_)
FoldInPlace(e) ==
    CASE e.kind = "Unary" ->
            LET a == ConstantCalculator(e.expr)
            IN  IF a \in CalcFails THEN [e EXCEPT !.expr = FoldInPlace(e.expr)]
                ELSE [e EXCEPT !.expr = a]
      [] e.kind = "Binary" ->
            LET ty == MaxLogicalType(ReturnType(e.l), ReturnType(e.r))
                l  == ConstantCalculator(e.l)
                r  == ConstantCalculator(e.r)
            IN  IF ty = "Err" THEN e
                ELSE IF l \in CalcFails THEN [e EXCEPT !.l = FoldInPlace(e.l)]
                ELSE IF r \in CalcFails THEN [e EXCEPT !.l = l, !.r = FoldInPlace(e.r)]
                ELSE LET lc == IF l.v.t # ty THEN Cast(l.v, ty) ELSE l.v
                         rc == IF r.v.t # ty THEN Cast(r.v, ty) ELSE r.v
                     IN  IF ~BinarySupported(ty, e.op) \/ lc = ErrVal
                         THEN [e EXCEPT !.l = l, !.r = r]
                         ELSE IF rc = ErrVal
                         THEN [e EXCEPT !.l = Constant(lc), !.r = r]
                         ELSE [e EXCEPT !.l = Constant(lc), !.r = Constant(rc)]
      [] e.kind = "IsNull" -> [e EXCEPT !.expr = FoldInPlace(e.expr)]
      [] e.kind \in {"In", "Between"} ->
            \* the children before the failing one are folded, those after
            \* it are not visited
            LET cs == Children(e)
                f  == FirstOf(FailedChildren([i \in DOMAIN cs |-> ConstantCalculator(cs[i])]))
            IN  WithChildren(e, [i \in DOMAIN cs |->
                                    IF i < f THEN ConstantCalculator(cs[i])
                                    ELSE IF i = f THEN FoldInPlace(cs[i]) ELSE cs[i]])
      [] OTHER -> e

-----------------------------------------------------------------------------
(* Simplify                                                                *)

ReplaceUnary(child, op, ty) ==
    [kind |-> "Unary", child_expr |-> child, op |-> op, ty |-> ty]
ReplaceBinary(col, val, op, ty, isColumnLeft) ==
    [kind |-> "Binary", column_expr |-> ColumnRef(col), val_expr |-> val,
     op |-> op, ty |-> ty, is_column_left |-> isColumnLeft]

IsArithmetic(op) == op \in ArithOps

OpFlip(op) ==
    CASE op = "Plus" -> "Minus" [] op = "Minus" -> "Plus"
      [] op = "Multiply" -> "Divide" [] op = "Divide" -> "Multiply"

ComparisonFlip(op) ==
    CASE op = "Gt" -> "Lt" [] op = "Lt" -> "Gt"
      [] op = "GtEq" -> "LtEq" [] op = "LtEq" -> "GtEq"
      [] OTHER -> op

\* the comparator fix_unary leaves after moving the unary to the value side
FixUnaryOp(fixOp, op) ==
    CASE fixOp = "Plus"  -> op
      [] fixOp = "Minus" -> IF IsArithmetic(op) THEN OpFlip(op) ELSE ComparisonFlip(op)
      [] fixOp = "Not"   -> ComparisonFlip(op)

\* fix_unary: `-(x) cmp v` becomes `x cmp' -(v)`
FixUnary(rep, colExpr, valExpr, op) ==
    [a  |-> rep.child_expr,
     b  |-> Unary(rep.op, valExpr, rep.ty),
     op |-> FixUnaryOp(rep.op, op)]

\* mutant: the comparator is not flipped when the column was on the right
FixBinaryNoFlip(rep, leftExpr, rightExpr, op) ==
    LET temp == rightExpr
    IN  IF rep.is_column_left
        THEN [a |-> rep.column_expr,
              b |-> Binary(OpFlip(rep.op), temp, rep.val_expr, rep.ty), op |-> op]
        ELSE [a |-> rep.column_expr,
              b |-> Binary(rep.op, rep.val_expr, temp, rep.ty), op |-> op]

\* mutant: the value side is taken from left_expr, the side holding the hole
FixBinaryLeftTemp(rep, leftExpr, rightExpr, op) ==
    LET temp == leftExpr
    IN  IF rep.is_column_left
        THEN [a |-> rep.column_expr,
              b |-> Binary(OpFlip(rep.op), temp, rep.val_expr, rep.ty), op |-> op]
        ELSE [a |-> rep.column_expr,
              b |-> Binary(rep.op, rep.val_expr, temp, rep.ty),
              op |-> IF rep.op \in {"Minus", "Multiply"} THEN ComparisonFlip(op) ELSE op]

\* fix_binary: `(col op k) cmp v` becomes `col cmp (v op^-1 k)` when the
\* column was on the left, `col cmp' (k op v)` when it was on the right
FixBinary(rep, leftExpr, rightExpr, op) ==
    LET temp == rightExpr
    IN  IF rep.is_column_left
        THEN [a |-> rep.column_expr,
              b |-> Binary(OpFlip(rep.op), temp, rep.val_expr, rep.ty),
              op |-> op]
        ELSE [a |-> rep.column_expr,
              b |-> Binary(rep.op, rep.val_expr, temp, rep.ty),
              op |-> IF rep.op \in {"Minus", "Multiply"} THEN ComparisonFlip(op) ELSE op]

\* the IN case of visit: `x IN (a1, .., an)` becomes
\* `x = an OR (.. OR (x = a2 OR x = a1))`, NOT IN the same with <> and AND
InExpansion(e) ==
    LET op1 == IF e.negated THEN "NotEq" ELSE "Eq"
        op2 == IF e.negated THEN "And" ELSE "Or"
        cmp(a) == Binary(op1, e.expr, a, "Bool")
        step(acc, a) == Binary(op2, cmp(a), acc, "Bool")
    IN  FoldLeft(step, cmp(Head(e.args)), Tail(e.args))

\* the BETWEEN case of visit: `x BETWEEN lo AND hi` becomes
\* `x >= lo AND x <= hi`, NOT BETWEEN `x < lo OR x > hi`; the operand is
\* cloned into the first comparison and then moved into the second
BetweenExpansion(e) ==
    LET op  == IF e.negated THEN "Or" ELSE "And"
        lop == IF e.negated THEN "Lt" ELSE "GtEq"
        rop == IF e.negated THEN "Gt" ELSE "LtEq"
    IN  Binary(op, Binary(lop, e.expr, e.lo, "Bool"),
                   Binary(rop, e.expr, e.hi, "Bool"), "Bool")

RECURSIVE Visit(_, _), FixExpr(_, _, _, _), PopReplaces(_, _, _, _), WalkBinary(_, _)

\* the `while let Some(replace) = self.replaces.pop()` loop of fix_expr
PopReplaces(l, r, op, rs) ==
    IF rs = <<>> THEN [a |-> l, b |-> r, op |-> op, rs |-> rs]
    ELSE LET top  == rs[Len(rs)]
             rest == SubSeq(rs, 1, Len(rs) - 1)
         IN  IF top.kind = "Binary"
             THEN LET f == FixBinary(top, l, r, op)
                  IN  PopReplaces(f.a, f.b, f.op, rest)
             ELSE LET f == FixUnary(top, l, r, op)
                      g == FixExpr(f.a, f.b, f.op, rest)
                  IN  PopReplaces(g.a, g.b, g.op, g.rs)

\* fix_expr(left, right, op): visit left, then (for a non-arithmetic op)
\* apply every pending Replace to the pair
FixExpr(left, right, op, rs) ==
    LET v == Visit(left, rs)
    IN  IF IsArithmetic(op) THEN [a |-> v.e, b |-> right, op |-> op, rs |-> v.rs]
        ELSE PopReplaces(v.e, right, op, v.rs)

\* the arithmetic case of visit: record which side holds the column
PushArithmetic(e, rs) ==
    LET lc == UnpackCol(e.l, FALSE)
        rc == UnpackCol(e.r, FALSE)
        ldeep == UnpackCol(e.l, TRUE)
        rdeep == UnpackCol(e.r, TRUE)
        left(col)  == [e |-> [e EXCEPT !.r = Empty],
                       rs |-> Append(rs, ReplaceBinary(col, e.r, e.op, e.ty, TRUE))]
        right(col) == [e |-> [e EXCEPT !.l = Empty],
                       rs |-> Append(rs, ReplaceBinary(col, e.l, e.op, e.ty, FALSE))]
    IN  CASE lc # NoColumn /\ rc = NoColumn -> left(lc)
          [] lc = NoColumn /\ rc # NoColumn -> right(rc)
          [] lc = NoColumn /\ rc = NoColumn /\ rs # <<>>
                /\ ldeep # NoColumn /\ rdeep = NoColumn -> left(ldeep)
          [] lc = NoColumn /\ rc = NoColumn /\ rs # <<>>
                /\ ldeep = NoColumn /\ rdeep # NoColumn -> right(rdeep)
          [] OTHER -> [e |-> e, rs |-> rs]

\* Simplify::visit
Visit(e, rs) ==
    CASE e.kind = "Unary" ->
            IF UnpackVal(e) # NoValue
            THEN [e |-> Constant(UnpackVal(e)), rs |-> rs]
            ELSE [e |-> e, rs |-> Append(rs, ReplaceUnary(e.expr, e.op, e.ty))]
      [] e.kind = "Binary" ->
            LET f1 == FixExpr(e.l, e.r, e.op, rs)
                \* `(c1 - 1) and (c1 + 2)` cannot fix!
                f2 == FixExpr(f1.b, f1.a, f1.op, f1.rs)
                n  == [e EXCEPT !.l = f2.b, !.r = f2.a, !.op = f2.op]
            IN  IF IsArithmetic(n.op) THEN PushArithmetic(n, f2.rs)
                ELSE [e |-> n, rs |-> f2.rs]
      [] e.kind = "IsNull" ->
            \* unpack_val of the IsNull node itself, then is_null of that
            IF UnpackVal(e) # NoValue
            THEN [e |-> Constant(BoolVal(UnpackVal(e).t = "Null")), rs |-> rs]
            ELSE [e |-> e, rs |-> rs]
      \* an empty IN list is left as it is
      [] e.kind = "In" /\ e.args # <<>> -> WalkBinary(InExpansion(e), rs)
      [] e.kind = "Between" -> WalkBinary(BetweenExpansion(e), rs)
      [] OTHER -> [e |-> e, rs |-> rs]

\* walk_mut_expr(self, expr) on the new binary node: its operands are
\* visited, left then right, with the same replaces stack; the node itself
\* is not
WalkBinary(n, rs) ==
    LET v1 == Visit(n.l, rs)
        v2 == Visit(n.r, v1.rs)
    IN  [e |-> [n EXCEPT !.l = v1.e, !.r = v2.e], rs |-> v2.rs]

SimplifyExpr(e) == Visit(e, <<>>).e
=============================================================================
