-------------------------------- MODULE Expr --------------------------------
(***************************************************************************)
(* The ScalarExpression tree (src/src/expression/mod.rs) restricted to the *)
(* variants the filter rewrites touch (IN and BETWEEN included), IFNULL,  *)
(* NULLIF and the Reference TryReference inserts, with the helpers the     *)
(* rewrites call                                                           *)
(* (return_type, unpack_val, unpack_col from expression/simplify.rs) and   *)
(* the value an expression has for a row once BindEvaluator has attached   *)
(* evaluators and inserted casts.                                          *)
(*                                                                         *)
(* Every column is a nullable Integer column.  Cached evaluators are       *)
(* absent (evaluator: None) in the plans the optimizer rewrites, so the    *)
(* node's `ty` field decides the evaluator wherever the code falls back to *)
(* EvaluatorFactory.                                                       *)
(***************************************************************************)
EXTENDS Values, Sequences

CONSTANT Columns   \* the column references of the table (model values)

Constant(v)            == [kind |-> "Constant", v |-> v]
ColumnRef(c)           == [kind |-> "ColumnRef", col |-> c]
Unary(op, e, ty)       == [kind |-> "Unary", op |-> op, expr |-> e, ty |-> ty]
Binary(op, l, r, ty)   == [kind |-> "Binary", op |-> op, l |-> l, r |-> r, ty |-> ty]
IsNull(neg, e)         == [kind |-> "IsNull", negated |-> neg, expr |-> e]
In(neg, e, args)       == [kind |-> "In", negated |-> neg, expr |-> e, args |-> args]
Between(neg, e, lo, hi) ==
    [kind |-> "Between", negated |-> neg, expr |-> e, lo |-> lo, hi |-> hi]
IfNull(l, r, ty)       == [kind |-> "IfNull", l |-> l, r |-> r, ty |-> ty]
NullIf(l, r, ty)       == [kind |-> "NullIf", l |-> l, r |-> r, ty |-> ty]
\* Temporary expression used for expression substitution
Empty                  == [kind |-> "Empty"]
\* the value at position pos of the child's output tuple
Reference(e, pos)      == [kind |-> "Reference", expr |-> e, pos |-> pos]

NoValue  == [t |-> "None"]     \* Option::None of unpack_val
NoColumn == "None"             \* Option::None of unpack_col

\* the children of an IN or BETWEEN node in the order walk_mut_expr visits
\* them, and the node with its children replaced
Children(e) ==
    IF e.kind = "In" THEN <<e.expr>> \o e.args ELSE <<e.expr, e.lo, e.hi>>
WithChildren(e, cs) ==
    IF e.kind = "In"
    THEN [e EXCEPT !.expr = cs[1], !.args = Tail(cs)]
    ELSE [e EXCEPT !.expr = cs[1], !.lo = cs[2], !.hi = cs[3]]

Row == [Columns -> {IntVal(i) : i \in IntRange} \cup {NullVal}]

RECURSIVE ContainsEmpty(_)
ContainsEmpty(e) ==
    CASE e.kind = "Empty"             -> TRUE
      [] e.kind \in {"Unary", "IsNull", "Reference"} -> ContainsEmpty(e.expr)
      [] e.kind \in {"Binary", "IfNull", "NullIf"} -> ContainsEmpty(e.l) \/ ContainsEmpty(e.r)
      [] e.kind \in {"In", "Between"} ->
            \E i \in DOMAIN Children(e) : ContainsEmpty(Children(e)[i])
      [] OTHER                        -> FALSE

\* the values held by the Constant nodes of e
RECURSIVE ConstantValues(_)
ConstantValues(e) ==
    CASE e.kind = "Constant"            -> {e.v}
      [] e.kind \in {"Unary", "IsNull"} -> ConstantValues(e.expr)
      [] e.kind = "Binary"              -> ConstantValues(e.l) \cup ConstantValues(e.r)
      [] e.kind \in {"In", "Between"} ->
            UNION {ConstantValues(Children(e)[i]) : i \in DOMAIN Children(e)}
      [] OTHER                          -> {}

\* ScalarExpression::return_type; Empty is unreachable!() there
RECURSIVE ReturnType(_)
ReturnType(e) ==
    CASE e.kind = "Constant"  -> e.v.t
      [] e.kind = "ColumnRef" -> "Int"
      [] e.kind \in {"Unary", "Binary", "IfNull", "NullIf"} -> e.ty
      [] e.kind \in {"IsNull", "In", "Between"} -> "Bool"
      [] e.kind = "Reference" -> ReturnType(e.expr)

\* ScalarExpression::unpack_val
RECURSIVE UnpackVal(_)
UnpackVal(e) ==
    CASE e.kind = "Constant" -> e.v
      [] e.kind = "IsNull" ->
            LET v == UnpackVal(e.expr)
            IN  IF v = NoValue THEN NoValue ELSE BoolVal(v.t = "Null")
      [] e.kind = "Unary" ->
            LET v == UnpackVal(e.expr)
            IN  IF v = NoValue \/ ~UnarySupported(e.ty, e.op) THEN NoValue
                ELSE UnaryEval(e.ty, e.op, v)
      [] e.kind = "Binary" ->
            LET l == UnpackVal(e.l)
                r == UnpackVal(e.r)
                lc == IF l.t # e.ty THEN Cast(l, e.ty) ELSE l
                rc == IF r.t # e.ty THEN Cast(r, e.ty) ELSE r
                v == BinaryEval(e.ty, e.op, lc, rc)
            IN  IF l = NoValue \/ r = NoValue \/ lc = ErrVal \/ rc = ErrVal
                   \/ ~BinarySupported(e.ty, e.op) \/ v = ErrVal
                THEN NoValue ELSE v
      [] OTHER -> NoValue

\* ScalarExpression::unpack_col
RECURSIVE UnpackCol(_, _)
UnpackCol(e, isDeep) ==
    CASE e.kind = "ColumnRef" -> e.col
      [] e.kind = "Unary"     -> UnpackCol(e.expr, isDeep)
      [] e.kind = "Binary"    ->
            IF ~isDeep THEN NoColumn
            ELSE IF UnpackCol(e.l, TRUE) # NoColumn THEN UnpackCol(e.l, TRUE)
            ELSE UnpackCol(e.r, TRUE)
      [] OTHER -> NoColumn

-----------------------------------------------------------------------------
(* The value of an expression for one row after BindEvaluator: a unary     *)
(* node gets the evaluator of its operand's return type; a binary node     *)
(* gets the evaluator of max_logical_type of its operands' return types,   *)
(* and a TypeCast is inserted on a side whose return type differs.  An     *)
(* unsupported (type, operator) pair fails the bind with an error.         *)

(* IN and BETWEEN are evaluated by expression/evaluator.rs, outside the    *)
(* sources: in three-valued logic (spec glossary), x IN (a1, ..) is TRUE   *)
(* when some ai = x is TRUE, else NULL when some is NULL, else FALSE;      *)
(* x BETWEEN lo AND hi is TRUE when both bounds hold, FALSE when one fails *)
(* and NULL otherwise; NOT negates, NULL staying NULL.                     *)

\* FALSE < NULL < TRUE: disjunction takes the highest, conjunction the lowest
TruthRank(v) == IF v = BoolVal(FALSE) THEN 0 ELSE IF v = NullVal THEN 1 ELSE 2
AnyTrue(vs) == CHOOSE v \in vs : \A w \in vs : TruthRank(w) <= TruthRank(v)
AllTrue(vs) == CHOOSE v \in vs : \A w \in vs : TruthRank(v) <= TruthRank(w)
Negated(neg, v) == IF neg /\ v.t = "Bool" THEN BoolVal(~v.b) ELSE v

\* the first failure of a sequence of values, else the value `ok`
FirstFailureOr(vs, ok) ==
    LET bad == {i \in DOMAIN vs : IsFailure(vs[i])}
    IN  IF bad = {} THEN ok ELSE vs[CHOOSE i \in bad : \A j \in bad : i <= j]

(* IFNULL and NULLIF (expression/evaluator.rs, outside the sources):      *)
(* IFNULL(l, r) is r when l is NULL, else l; NULLIF(l, r) is NULL when l   *)
(* equals r, else l (NULL equals nothing); both operands are evaluated     *)
(* first, left to right.                                                   *)
IfNullValue(l, r) == FirstFailureOr(<<l, r>>, IF l.t = "Null" THEN r ELSE l)
NullIfValue(l, r) ==
    FirstFailureOr(<<l, r>>, IF l = r /\ l.t # "Null" THEN NullVal ELSE l)

RECURSIVE EvalBound(_, _)
EvalBound(e, row) ==
    CASE e.kind = "Constant"  -> e.v
      [] e.kind = "ColumnRef" -> row[e.col]
      [] e.kind = "IsNull" ->
            LET v == EvalBound(e.expr, row)
            IN  IF IsFailure(v) THEN v ELSE BoolVal((v.t = "Null") # e.negated)
      [] e.kind = "Unary" ->
            LET ty == ReturnType(e.expr)
                v  == EvalBound(e.expr, row)
            IN  IF ~UnarySupported(ty, e.op) THEN ErrVal
                ELSE IF IsFailure(v) THEN v
                ELSE UnaryEval(ty, e.op, v)
      [] e.kind = "Binary" ->
            LET ty == MaxLogicalType(ReturnType(e.l), ReturnType(e.r))
                l  == EvalBound(e.l, row)
                r  == EvalBound(e.r, row)
                lc == IF ReturnType(e.l) # ty THEN Cast(l, ty) ELSE l
                rc == IF ReturnType(e.r) # ty THEN Cast(r, ty) ELSE r
            IN  IF ty = "Err" \/ ~BinarySupported(ty, e.op) THEN ErrVal
                ELSE IF IsFailure(lc) THEN lc
                ELSE IF IsFailure(rc) THEN rc
                ELSE BinaryEval(ty, e.op, lc, rc)
      [] e.kind = "In" ->
            LET eq == [i \in DOMAIN e.args |->
                          EvalBound(Binary("Eq", e.expr, e.args[i], "Bool"), row)]
            IN  FirstFailureOr(eq, Negated(e.negated,
                    AnyTrue({BoolVal(FALSE)} \cup {eq[i] : i \in DOMAIN eq})))
      [] e.kind = "Between" ->
            LET bounds == <<EvalBound(Binary("GtEq", e.expr, e.lo, "Bool"), row),
                            EvalBound(Binary("LtEq", e.expr, e.hi, "Bool"), row)>>
            IN  FirstFailureOr(bounds,
                    Negated(e.negated, AllTrue({bounds[1], bounds[2]})))
      [] e.kind = "IfNull" -> IfNullValue(EvalBound(e.l, row), EvalBound(e.r, row))
      [] e.kind = "NullIf" -> NullIfValue(EvalBound(e.l, row), EvalBound(e.r, row))
      \* the executor reads tuple.values[pos] of the child's output; an index
      \* past its end panics
      [] e.kind = "Reference" -> IF e.pos \in DOMAIN row THEN row[e.pos] ELSE PanicVal

\* BindEvaluator calls return_type on every node: an Empty hole panics
Eval(e, row) == IF ContainsEmpty(e) THEN PanicVal ELSE EvalBound(e, row)
=============================================================================
