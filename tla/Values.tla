------------------------------- MODULE Values -------------------------------
(***************************************************************************)
(* DataValue, LogicalType and the evaluator factory of KiteSQL             *)
(* (src/src/types/evaluator/mod.rs).                                       *)
(*                                                                         *)
(* A value is a record tagged by its logical type t:                       *)
(*   [t |-> "Int", n |-> i]        an Integer of IntWidth bits             *)
(*   [t |-> "Bool", b |-> TRUE]    a Boolean                               *)
(*   [t |-> "Double", num, den]    a Float64 as an exact fraction;         *)
(*                                 den = 0 encodes +inf (num=1), -inf      *)
(*                                 (num=-1) and NaN (num=0)                *)
(*   [t |-> "Null"]                the typed null (SqlNull)                *)
(* Outcomes that are not values are tagged too: "Err" (a DatabaseError     *)
(* such as OverFlow or UnsupportedBinaryOperator), "Panic" (unreachable!,  *)
(* a debug-build overflow panic) and "UB" (hint::unreachable_unchecked    *)
(* reached because an evaluator got an operand of another type).          *)
(*                                                                         *)
(* Integer is i32 in the code; it keeps its two's-complement range here    *)
(* at a width of IntWidth bits, so overflow happens at the same boundary.  *)
(***************************************************************************)
EXTENDS Integers

CONSTANTS
    IntWidth,      \* bit width the Integer type is modelled with
    NegOverflow    \* build profile: what `-value` does at the minimum
                   \* ("wrap" in release, "panic" with overflow checks)

ASSUME IntWidth \in 2..8 /\ NegOverflow \in {"wrap", "panic"}

IntMin == -(2^(IntWidth - 1))
IntMax == 2^(IntWidth - 1) - 1
IntRange == IntMin..IntMax

IntVal(i)  == [t |-> "Int", n |-> i]
BoolVal(x) == [t |-> "Bool", b |-> x]
NullVal    == [t |-> "Null"]
ErrVal     == [t |-> "Err"]
PanicVal   == [t |-> "Panic"]
UBVal      == [t |-> "UB"]

Failures == {ErrVal, PanicVal, UBVal}
IsFailure(v) == v.t \in {"Err", "Panic", "UB"}

LogicalTypes == {"Int", "Double", "Bool", "Null"}

-----------------------------------------------------------------------------
(* Float64 as fractions in lowest terms, with the OrderedFloat total order *)
(* (NaN is the greatest value and equal to itself).                        *)

AbsI(x) == IF x < 0 THEN -x ELSE x
RECURSIVE Gcd(_, _)
Gcd(a, b) == IF b = 0 THEN a ELSE Gcd(b, a % b)

DoubleVal(p, q) ==
    IF q = 0 THEN [t |-> "Double", num |-> (IF p > 0 THEN 1 ELSE IF p < 0 THEN -1 ELSE 0), den |-> 0]
    ELSE LET s == IF q < 0 THEN -1 ELSE 1
             g == Gcd(AbsI(p), AbsI(q))
         IN  [t |-> "Double", num |-> (s * p) \div g, den |-> (s * q) \div g]

IsFinite(d) == d.den # 0
\* -inf < finite < +inf < NaN
DRank(d) == IF IsFinite(d) THEN 1
            ELSE IF d.num = -1 THEN 0 ELSE IF d.num = 1 THEN 2 ELSE 3
DCmp(a, b) ==
    IF DRank(a) # DRank(b) THEN (IF DRank(a) < DRank(b) THEN -1 ELSE 1)
    ELSE IF DRank(a) # 1 THEN 0
    ELSE LET x == a.num * b.den
             y == b.num * a.den
         IN  IF x < y THEN -1 ELSE IF x = y THEN 0 ELSE 1

\* `*v1 as f64 / *v2 as f64`
DivToDouble(x, y) == DoubleVal(x, y)

-----------------------------------------------------------------------------
(* LogicalType::max_logical_type and DataValue::cast (types/mod.rs and     *)
(* types/value.rs are outside the sources; modelled from the spec).        *)

MaxLogicalType(a, b) ==
    IF a = b THEN a
    ELSE IF a = "Null" THEN b
    ELSE IF b = "Null" THEN a
    ELSE IF {a, b} = {"Int", "Double"} THEN "Double"
    ELSE "Err"

TruncToZero(d) == IF d.num >= 0 THEN d.num \div d.den ELSE -((-d.num) \div d.den)

\* Rust's `/` and `%` on integers round the quotient toward zero
TruncDiv(x, y) == IF (x >= 0) = (y > 0) THEN AbsI(x) \div AbsI(y) ELSE -(AbsI(x) \div AbsI(y))
RustRem(x, y) == x - y * TruncDiv(x, y)

Cast(v, ty) ==
    IF IsFailure(v) \/ v.t = ty \/ v.t = "Null" THEN v
    ELSE IF v.t = "Int" /\ ty = "Double" THEN DoubleVal(v.n, 1)
    ELSE IF v.t = "Double" /\ ty = "Int" /\ IsFinite(v) /\ TruncToZero(v) \in IntRange
         THEN IntVal(TruncToZero(v))
    ELSE ErrVal

-----------------------------------------------------------------------------
(* EvaluatorFactory::binary_create / unary_create: which (type, operator)  *)
(* pairs have an evaluator; the others are UnsupportedBinaryOperator.      *)

\* ArithOps are the operators Simplify::is_arithmetic accepts; Modulo has
\* a numeric evaluator but is not one of them
ArithOps   == {"Plus", "Minus", "Multiply", "Divide"}
CmpOps     == {"Gt", "Lt", "GtEq", "LtEq", "Eq", "NotEq"}
LogicOps   == {"And", "Or"}
BinaryOps  == ArithOps \cup {"Modulo"} \cup CmpOps \cup LogicOps
UnaryOps   == {"Plus", "Minus", "Not"}

BinarySupported(ty, op) ==
    CASE ty \in {"Int", "Double"} -> op \in ArithOps \cup {"Modulo"} \cup CmpOps
      [] ty = "Bool"              -> op \in LogicOps \cup {"Eq", "NotEq"}
      [] ty = "Null"              -> TRUE
      [] OTHER                    -> FALSE

UnarySupported(ty, op) ==
    CASE ty \in {"Int", "Double"} -> op \in {"Plus", "Minus"}
      [] ty = "Bool"              -> op = "Not"
      [] OTHER                    -> FALSE

-----------------------------------------------------------------------------
(* The evaluators.                                                         *)

\* checked_add / checked_sub / checked_mul: OverFlow outside the range
Checked(x) == IF x \in IntRange THEN IntVal(x) ELSE ErrVal

Compare(op, c) ==   \* c is -1, 0 or 1: the sign of left - right
    CASE op = "Gt"    -> c > 0
      [] op = "Lt"    -> c < 0
      [] op = "GtEq"  -> c >= 0
      [] op = "LtEq"  -> c <= 0
      [] op = "Eq"    -> c = 0
      [] op = "NotEq" -> c # 0

Sign(x) == IF x < 0 THEN -1 ELSE IF x = 0 THEN 0 ELSE 1

\* numeric_binary_evaluator_definition! for Integer: a null operand gives
\* null, an operand of another type reaches unreachable_unchecked
IntBinaryEval(op, l, r) ==
    IF {l.t, r.t} \ {"Int", "Null"} # {} THEN UBVal
    ELSE IF l.t = "Null" \/ r.t = "Null" THEN NullVal
    ELSE CASE op = "Plus"     -> Checked(l.n + r.n)
           [] op = "Minus"    -> Checked(l.n - r.n)
           [] op = "Multiply" -> Checked(l.n * r.n)
           [] op = "Divide"   -> DivToDouble(l.n, r.n)
           \* `*v1 % *v2`: a zero divisor, and MIN % -1, panic in every build
           [] op = "Modulo"   -> IF r.n = 0 \/ (l.n = IntMin /\ r.n = -1) THEN PanicVal
                                 ELSE IntVal(RustRem(l.n, r.n))
           [] op \in CmpOps   -> BoolVal(Compare(op, Sign(l.n - r.n)))

\* Float64 evaluators (float64.rs, outside the sources): exact fractions;
\* arithmetic on an infinite or NaN operand is abstracted to NaN
DoubleBinaryEval(op, l, r) ==
    IF {l.t, r.t} \ {"Double", "Null"} # {} THEN UBVal
    ELSE IF l.t = "Null" \/ r.t = "Null" THEN NullVal
    ELSE IF op \in CmpOps THEN BoolVal(Compare(op, DCmp(l, r)))
    ELSE IF ~IsFinite(l) \/ ~IsFinite(r) THEN DoubleVal(0, 0)
    ELSE CASE op = "Plus"     -> DoubleVal(l.num * r.den + r.num * l.den, l.den * r.den)
           [] op = "Minus"    -> DoubleVal(l.num * r.den - r.num * l.den, l.den * r.den)
           [] op = "Multiply" -> DoubleVal(l.num * r.num, l.den * r.den)
           [] op = "Divide"   -> DoubleVal(l.num * r.den, l.den * r.num)
           \* fmod: NaN for a zero divisor, else l - r * trunc(l / r)
           [] op = "Modulo"   ->
                IF r.num = 0 THEN DoubleVal(0, 0)
                ELSE LET q == TruncDiv(l.num * r.den, l.den * r.num)
                     IN  DoubleVal(l.num * r.den - q * r.num * l.den, l.den * r.den)

\* Boolean evaluators (boolean.rs, outside the sources): three-valued logic
BoolBinaryEval(op, l, r) ==
    IF {l.t, r.t} \ {"Bool", "Null"} # {} THEN UBVal
    ELSE CASE op = "And" ->
                IF (l.t = "Bool" /\ ~l.b) \/ (r.t = "Bool" /\ ~r.b) THEN BoolVal(FALSE)
                ELSE IF l.t = "Null" \/ r.t = "Null" THEN NullVal ELSE BoolVal(TRUE)
           [] op = "Or" ->
                IF (l.t = "Bool" /\ l.b) \/ (r.t = "Bool" /\ r.b) THEN BoolVal(TRUE)
                ELSE IF l.t = "Null" \/ r.t = "Null" THEN NullVal ELSE BoolVal(FALSE)
           [] OTHER ->
                IF l.t = "Null" \/ r.t = "Null" THEN NullVal
                ELSE BoolVal((l.b = r.b) = (op = "Eq"))

\* binary_eval of the evaluator binary_create(ty, op) returned
BinaryEval(ty, op, l, r) ==
    CASE ty = "Int"    -> IntBinaryEval(op, l, r)
      [] ty = "Double" -> DoubleBinaryEval(op, l, r)
      [] ty = "Bool"   -> BoolBinaryEval(op, l, r)
      [] ty = "Null"   -> NullVal

\* numeric_unary_evaluator_definition! (Plus clones, Minus is `-value`)
\* and BooleanNotUnaryEvaluator
UnaryEval(ty, op, v) ==
    IF op = "Plus" THEN v                  \* value.clone(), whatever it holds
    ELSE IF v.t = "Null" THEN NullVal
    ELSE IF v.t # ty THEN UBVal
    ELSE CASE op = "Not"  -> BoolVal(~v.b)
           [] ty = "Double" -> IF IsFinite(v) THEN DoubleVal(-v.num, v.den)
                               ELSE DoubleVal(-v.num, 0)
           [] -v.n \in IntRange -> IntVal(-v.n)
           [] NegOverflow = "wrap" -> v     \* -MIN wraps to MIN
           [] OTHER -> PanicVal
=============================================================================
