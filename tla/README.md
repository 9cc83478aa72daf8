# TLA+ models of the KiteSQL query core

This directory holds TLA+ models of the parts of KiteSQL in `src/src`. That
covers the scalar expression IR with its evaluators, the two expression
rewriters, and the normalization rules of the heuristic optimizer that use
them. The models are checked with TLC. `PROJECT.json` lists:

- the components,
- the runs,
- the mutants that show each checked property can fail,
- the source lines every definition models (`map`),
- the findings,
- the hazards of the code.

## 1. The system

| Part | Source | State and operations |
|---|---|---|
| Values and evaluators | `types/evaluator/mod.rs` | `EvaluatorFactory::binary_create` / `unary_create` pick an evaluator for a (LogicalType, operator) pair or return `UnsupportedBinaryOperator`. Integer `+ - *` are checked (`OverFlow`). `/` returns Float64 (`as f64`). `%` is Rust's `%`, which panics on 0 and on MIN % -1. Unary `-` is `-value`, so MIN wraps or panics depending on the build. Unary `+` clones its operand, whatever it is. Otherwise a Null operand gives Null, and an operand of any other type reaches `hint::unreachable_unchecked`. |
| Expression IR | `expression/mod.rs` | `ScalarExpression` with `return_type`, `referenced_columns`, `output_column`. The `BindEvaluator` visitor attaches evaluators and inserts casts to `max_logical_type`. `HasCountStar` and `TryReference` are also here. |
| Rewriters | `expression/simplify.rs` | `ConstantCalculator` folds constant unary and binary nodes in place. `Simplify` moves arithmetic and unary minus / NOT off the column side of a comparison. It works with a `replaces` stack that lives across the whole visit and is drained by `fix_expr` through `fix_unary` / `fix_binary`. |
| Normalization rules | `optimizer/rule/normalization/simplification.rs` | `SimplifyFilter` runs once per filter that has no Aggregate below it, guarded by `is_optimized`. `ConstantCalculation::_apply` folds every expression of the operator it is applied at (aggregate calls and group-by, filter predicate, join keys and join filter, projections, sort keys), then recurses into the children; the first `?` ends it. Both bump `HepGraph.version`. |
| Column pruning | `optimizer/rule/normalization/column_pruning.rs` | `_apply(column_references, all_referenced, node)` recursively narrows projections, aggregates and table scans. It synthesizes `COUNT(*)` when an aggregate empties. |
| Executor dispatch | `execution/mod.rs`, `execution/dql/seq_scan.rs` | `build_read` / `build_write` turn a plan into pull-based coroutines: `build_write` builds the DML/DDL executors and hands every read operator to `build_read`. `SeqScan` yields the tuples of the storage iterator, and the first error ends the stream. |
| ALTER TABLE binder | `binder/alter_table.rs` | Binds ADD/DROP COLUMN to an `AddColumn` / `DropColumn` operator over a scan of every column of the table. |

How they interact:
1. The binder produces a plan.
2. The HepOptimizer, which is not in the sources, runs rule batches over the plan's graph. Spec §4.2 describes the once-topdown batch: pre-order, every rule at every node, repeated until the version is stable or the batch reaches its iteration cap.
3. `SimplifyFilter` and `ConstantCalculation` rewrite expressions with the rewriters, which call the evaluators.
4. `ColumnPruning` rewrites the operators.
5. The executor evaluates the result through `BindEvaluator`.

What is hard here, and why a model checker helps:
- The `replaces` stack is shared state across a recursive visit. A Replace pushed while visiting one operand is applied by whichever non-arithmetic binary node drains the stack next.
- Rule applications interleave in any order.
- Arithmetic runs at the boundaries of the Integer range.
- Pruning recurses with a set that is narrowed in some places and widened in others.

## 2. Modules

| Module | Models | Correspondence |
|---|---|---|
| `Values` | evaluator factory and evaluators | A value is a record tagged by its type. Integer keeps its two's-complement range at `IntWidth` bits, so overflow happens at the same boundary as i32. Float64 is an exact reduced fraction, with `den = 0` for ±inf and NaN, in the OrderedFloat order. `Err`, `Panic` and `UB` are outcomes. `NegOverflow` is the build profile (`wrap` in release, `panic` with overflow checks). `BinarySupported`, `UnarySupported`, `IntBinaryEval` and `UnaryEval` are the factory and the macro-generated evaluators. |
| `Expr` | `ScalarExpression` | Constructors for Constant, ColumnRef, Unary, Binary, IsNull, In, Between, IfNull, NullIf, Reference and Empty. A Reference reads position `pos` of the child's output tuple. In and Between evaluate in three-valued logic (spec §3), their children in order, the first failure winning. `ReturnType`, `UnpackVal` and `UnpackCol` are translated from the code. `EvalBound` is the value of a node after `BindEvaluator`: a binary node gets the evaluator of `max_logical_type` of its children's return types. `Eval` panics on an Empty hole, as `return_type` does. |
| `Simplify` | `ConstantCalculator`, `Simplify` | Recursive operators. `Visit`, `FixExpr` and `PopReplaces` are mutually recursive and thread (expression, stack) exactly as the `&mut` borrows do. `FixUnary` and `FixBinary` are the two fixers. `InExpansion` and `BetweenExpansion` are the range distribution of `visit` for IN and BETWEEN (an OR/AND chain built left to right), and `WalkBinary` is the `walk_mut_expr` that follows it: the operands of the expansion are visited, the expansion itself is not. `ConstantCalculator` walks into IN and BETWEEN children (`WalkFolded`). |
| `SimplifyFilter` | the two rules over a plan graph | Variables are `plan` (a sequence of nodes indexed by node id, root first: operator, expressions by field, children, `is_optimized`), `version`, `status`, `original` (the bound plan, kept for comparison) and `last` (the last rule application, a history variable for the idempotence property). There is one action per rule and node. `ApplyCC` is `_apply`: the nodes in the order the recursion reaches them (`Preorder`), each node's fields in the order of its operator arm (`Fields`), each field's expressions in order, and the first failure keeps everything folded before it (`CommitNodes`, `CommitFields`, `CommitExprs`). `SimplifyFilterMatches` is the rule's pattern. A rule returning `Err` sets `status` to `"error"`, which aborts the optimization. An evaluator panic during a fold (`CalcPanic`) sets `status` to `"panic"`. |
| `ColumnPruning` | the pruning rule under the once-topdown driver | The recursion of `_apply` is an explicit stack `calls` of [node, refs, all]. There is one action per operator case of `_apply`. `StartRule` and `EndRule` are `apply` (which ends with `version += 1`), and `NextPass` is the driver. `ApplyDml` is `recollect_apply` at the eldest child, as at line 144: `_apply` runs on that child's children and skips the child itself. The driver re-applies the rule at every node, as spec §4.2 says; the comment at line 193 says the version bump is meant to skip the rest of the batch, so the model applies the rule at least as often as the code does. An expression is abstracted to its output column, its `referenced_columns(false)` set and whether it is `COUNT(*)`. |
| `Executor` | `build_read`, `build_write`, `SeqScan::execute`, `try_collect` | `Kind` is the dispatch: the root through `build_write`, the others through `build_read`. The plan is a tree of stages numbered in pre-order, `conf.kids[i]` the children of stage i (`Parent`, `Input`). One thread runs the whole tree. `active` is the coroutine that has control: 0 is the consumer, 1 the root. `Pull` is `resume` and hands control down. `Yield` fills the stage's `slot` and hands control up. `Complete` is the body returning. `panicked` records a resume after completion. `ScanStep` is the SeqScan body: a `throw!` of the open, then the `next_tuple` loop. The storage iterator is a sequence of tuples, and `failAt[i]` picks the open or the n-th `next_tuple` call of scan i to fail. `UnionStep` is the Union executor (not in `src/`, spec §4.3): it drains its left input, then its right one, passing an error on and ending there. Filter, Projection, Limit and the ADD/DROP COLUMN executors (`AlterColumnStep`: consume the input, throw its error, emit one status tuple) are not in `src/` and follow spec §4.3. `CollectResume`/`Push`/`Error`/`Complete` are the `try_collect` loop. `StreamOf` is the reference: each operator's contract applied to its child's stream. `Collect` instantiates `QueryStream` with `stream <- StreamOf(1)`, `out <- out` and `result <- result`. |
| `TryReference` | `output_name`, `output_column`, `TryReference` | `OutputName` builds the text with the code's format strings (NULLIF is printed as `ifnull(..)`, as in the code). `OutputColumn` is the ColumnSummary the planner compares: a column reference is its own column, anything else a fresh column named by its `output_name`. `TryRef` is the visitor: post-order, and each node whose summary equals that of an output expression becomes `Reference(node, pos)`, `pos` the 0-based position of the first match (`find_position`, modelled with `SelectInSeq`). |
| `QueryStream` | the promise of a query stream (spec §4.3, §5, §7) | This is the abstract specification. A fixed stream of tuples may end in one error. `Deliver` hands the next tuple to the consumer, `Fail` returns the error, and `Finish` returns Ok at end-of-stream. It has weak fairness. |
| `AlterTable` | `Binder::bind_alter_table` | `BindAlterTable` maps an abstracted statement to `Ok(plan)` or to the error of the first check that fails, in the code's order: the name, `TableNotFound`, `bind_column`, the identifier check, then `UnsupportedStmt`. The plan is an `AddColumn`/`DropColumn` over a scan of every column, in the node format of `ColumnPruning`. |
| `MC_SimplifyFilter`, `MC_ColumnPruning`, `MC_Executor` | instances for TLC | These define the input families. `MC_ColumnPruning` extends `AlterTable` and adds the plans the binder builds over its catalog (t1, t2 and a missing t3) to the pruning test plans. |

Composition: `SimplifyFilter` extends `Simplify`, which extends `Expr`, which extends `Values`. The rules apply the rewriters, and the properties evaluate the expressions with the evaluators. `AlterTable` extends `ColumnPruning`, so a bound ALTER statement goes through the pruning batch. `Executor` refines `QueryStream`.

## 3. Runs

| Run | cfg | Checks | Result |
|---|---|---|---|
| `sf_pass` | `MC_SimplifyFilter.cfg` | `RewritePreservesValue`, `NoEmptyHole`, `PlanFoldedFromRoot`, `ConstantCalculationIdempotent` | pass, 13 963 states |
| `sf_plus_right` | `SF_PlusRight.cfg` | `RewritePreservesValue` | violated: `1 > 1 + c2` becomes `1 + 1 > c2` |
| `sf_multiply` | `SF_Multiply.cfg` | `RewritePreservesValue` | violated: `3 > c1 * 2` becomes `3 / 2 > c1`, a Divide typed Integer whose evaluator returns Float64, which the Integer comparison cannot take (UB) |
| `sf_not_not` | `SF_NotNot.cfg` | `RewritePreservesValue` | violated: a NOT moves across AND |
| `sf_is_null` | `SF_IsNull.cfg` | `RewritePreservesValue` | violated: `NULL IS NULL` becomes FALSE |
| `sf_chain` | `SF_Chain.cfg` | `NoEmptyHole` | violated: `(c1 + 1) + c2 > 5` keeps an Empty |
| `sf_bound` | `SF_Bound.cfg` | `RewritePreservesValue` | violated: `3 > c1 - 1` becomes `3 + 1 > c1`, which overflows |
| `sf_neg` | `SF_Neg.cfg` | `RewritePreservesValue` | violated in release: `-MIN` wraps |
| `sf_modulo` | `SF_Modulo.cfg` | `RewritePreservesValue` | violated: `(c2 + 1) % 2 > 0` becomes `c2 % (2 - 1) > 0` |
| `sf_idempotent` | `SF_Idempotent.cfg` | `SimplifyIdempotent` | violated: `-(0) < c1` is folded again by a second pass |
| `cp_pass` | `MC_ColumnPruning.cfg` | `TypeOK`, `PruneSound`, `TryReferenceSound` | pass, 380 states (with the four bound ALTER plans; `TryReferenceSound` is a constant-level invariant over 108 expression/output pairs) |
| `ex_pass` | `MC_Executor.cfg` | `ImplementsQueryStream` | pass, 22 656 states (linear plans and a Limit over a Union) |

Four more counterexamples sit beside the runs, as `SF_ModZero.cfg`, `SF_PartialFold.cfg`, `SF_InSingle.cfg` (run with `tlc -config SF_ModZero.cfg MC_SimplifyFilter` and the like) and `TR_NameClash.cfg` (run with `MC_ColumnPruning`):
- **`SF_ModZero.cfg`** violates `OptimizerNeverPanics`. Folding `c1 > 1 % 0` reaches `*v1 % *v2` in `ModBinaryEvaluator` (`types/evaluator/mod.rs:442`), which panics. This contradicts spec §7: evaluators return `Result`, and there is no panic recovery. `MIN % -1` panics the same way.
- **`SF_PartialFold.cfg`** violates `RuleFailureLeavesGraph`. For `c1 > (1 + 1) + (3 + 1)` at 3 bits, `ConstantCalculator` folds the left operand in the graph and then returns `OverFlow` for the right one (`expression/simplify.rs:82`). The graph is left holding `c1 > 2 + (3 + 1)`. Spec §7 says a failing rule leaves the graph unchanged and must not partially mutate and then fail. The query still fails, so this is a divergence from the spec's convention, not a wrong result. Its inputs also have a projection over a filter that overflows: `ConstantCalculation` at the root folds the projection in the graph and then fails in the filter (`simplification.rs:65`).
- **`TR_NameClash.cfg`** violates `OutputColumnIdentifies`. `output_name` prints NULLIF with the text of IFNULL (`expression/mod.rs:845-851`), so `NULLIF(a, 0)` and `IFNULL(a, 0)` have the same output column although their values differ when `a` is 0 or null. With both among a child's outputs, `TryReference` resolves the NULLIF to the position of the IFNULL, and the executor reads the wrong column. `TryReferenceSound` is stated under the premise that equal output columns mean equal values, which this pair breaks.
- **`SF_InSingle.cfg`** violates `NoEmptyHole`. `c1 + 1 IN (0)` expands to the single comparison `c1 + 1 = 0`, and `walk_mut_expr` visits its operands only (`expression/simplify.rs:233-235`). The `+` pushes a Replace with an Empty hole, and the `fix_expr` of the comparison, which would pop it, never runs. The filter is left holding `(c1 + Empty) = 0`, on which `return_type` reaches `unreachable!()`. Lists of two or more elements are fine: the OR node at the top of the expansion is not visited, but each comparison below it is.

The properties:
- **`RewritePreservesValue`** (spec 8.5): on every row where every bound expression of the plan evaluates without error, the optimization succeeded and every rewritten expression has the same value.
- **`NoEmptyHole`**: spec invariant (i).
- **`SimplifyIdempotent`**: spec 8.7.
- **`PruneSound`** (spec 8.4): whenever no rule application is running, every column an operator reads that its children produced is still produced, and the root's output is unchanged.
- **`ImplementsQueryStream`** (spec §4.3, §5 ordering, §7 propagation): the refinement `Collect!Spec`. Every step of the executor either stutters for `QueryStream` or is one of its steps on the contract's stream, and the stream is never changed. So `try_collect` receives that stream's tuples in scan order, filtered, offset and counted. It receives nothing after the first error, and it always returns Ok or Err.
- **`OptimizerNeverPanics`** (spec §7): no rule application panics. Evaluator failures reach the rule as `Err`. It is checked only by `SF_ModZero.cfg`, where it fails; on the inputs of `sf_pass` the only evaluator failure is the `OverFlow` of checked arithmetic, so there it would only restate `Checked`.
- **`RuleFailureLeavesGraph`** (spec §7, action property): a rule that fails leaves the graph as it was.
- **`PlanFoldedFromRoot`** (spec §4.2, constant folding inside every expression-bearing operator): after `ConstantCalculation` succeeded at the root, no expression of any operator has a constant subtree left to fold.
- **`ConstantCalculationIdempotent`** (spec 8.7, action property): `ConstantCalculation` applied right after itself, at the same node or at a node below it, changes nothing.
- **`TryReferenceSound`**: for every probe expression and every list of child outputs where equal output columns mean equal values, the expression after `TryReference`, evaluated over the child's output tuple, has the value the original had on every row. It would catch a 1-based position, a match on the wrong summary, or a rewrite that skipped the children.
- **`TypeOK`**: checked in `cp_pass` only; it includes "the batch never runs past its cap", which is the guard of the spec's driver. The type invariants of `SimplifyFilter` and `Executor` are kept in their modules but not checked: what they add to the types (no error stored as a constant, no error pushed into the output) is enforced by Rust's types, so no plausible code change could break them.

Not checked, and why: no coroutine is resumed after it returned (`panicked` records it). The only resumer in `src/` is `try_collect`, whose `while let Yielded` is the guard of `CollectResume`, and the other resumers are the executors modelled from the spec, so it holds by construction. An aggregate never left empty by pruning only restates the `COUNT(*)` push.

The findings, with source lines, are in `PROJECT.json`.

## 4. Bounds, and why they are enough

- **`IntWidth = 3`** (range -4..3) reaches both ends of the range with literals 0..3. Every overflow, `-MIN` and boundary case of i32 has the same shape at 3 bits.
- **Two nullable columns** `c1`, `c2` are enough for one-column rewrites and for the two-column chain. Every row assignment is enumerated in the property (`Row`), so the properties quantify over all 81 rows.
- **`MaxVersion = 2`** allows both orders of the two rules (CC then SF, SF then CC, SF then a second CC, which folds what Simplify produced), and two applications of `ConstantCalculation` at a node or at a node and one below it.
- **Pass-run inputs** are filters over a scan with comparisons with literals 0 and 1 of terms with up to two `+`/`-` steps or unary minus on either side of the column, NOT on one side of AND/OR, [NOT] IN lists of zero, two and more elements and [NOT] BETWEEN over those terms, and overflowing constants that fire the error branches. Four more plans put foldable constants in every operator arm of `_apply`: a projection (with `-(1 + 1)`, which needs the operand folded before its parent) over a filter, a join with constant keys and filter, a HAVING filter over an aggregate with a constant group-by (which `SimplifyFilter` does not match), and a sort over a limit over a filter. The failing families are separated into the violation runs, so the pass run shows what the rewrite gets right.
- **Executor**: a table of two tuples. Every failure point is enumerated: the open, each of the three `next_tuple` calls (the third is the one that returns `None`), or none. The scan limit is None or 1. Every true/false/null/err predicate outcome per tuple is enumerated, with offsets 0..1 and counts None, 0 and 1. The pipelines are scan, filter, limit, project–limit–filter, the ADD/DROP COLUMN plans the binder builds, and a Limit (count None or 3) over a Union of a filtered scan and a scan, each scan with its own failure point. This covers an error before, between and after the tuples, an error in either input of the Union, a Limit that stops before its child ends, and a Limit stacked on a Filter.
- **TryReference**: 12 probe expressions against 9 output lists over two columns (duplicates, a repeated output, outputs that are subexpressions of the probe, IFNULL/NULLIF) and all rows at 2 bits: a first match among several, a match inside a larger expression and an unmatched expression all occur.
- **`MaxPasses = 2`**: a second pass re-applies pruning at every node of an already-pruned plan, the interaction the spec's driver creates. The 13 plans cover every operator case of `_apply`.

## 5. Fairness

`Executor` assumes weak fairness of its whole next-state relation. The pipeline is one thread, and `try_collect` keeps resuming while the root yields, so a step that stays enabled is taken. The liveness half of `ImplementsQueryStream`, that `try_collect` returns, is checked under that assumption. `CHECK_DEADLOCK FALSE` is set there because the pipeline really stops once `try_collect` returns.

For the optimizer models, only safety is checked. The optimizer is a single-threaded sequence of rule applications. Nothing waits on anything, and termination comes from the driver's cap, a guard of the spec-modelled driver. `CHECK_DEADLOCK FALSE` is set because a batch really does stop: after `MaxVersion` rule applications for the filter, and at the iteration cap for pruning.

## 6. Not modelled

- The `TypeCast` and `Alias` cases of `Simplify` and `ConstantCalculator`: the predicates of the model have no casts or aliases.
- Types other than Integer, Float64, Boolean and Null are not modelled.
- `output_name` of expression kinds outside the model (casts, aliases, functions, CASE) is not modelled.
- The join, aggregate, sort, DML and IndexScan executors are not in `src/`, and the spec gives only a line on each; only their dispatch in `build_read` / `build_write` is modelled.
- Storage, the catalog, the pattern matcher and the range detacher are not in the sources.
- The Float64 and Boolean evaluators, `max_logical_type` and `cast` live outside `src/` and are modelled from the spec.

## 7. Plan

Stage 1:
1. `Values`, `Expr`, `Simplify`, `SimplifyFilter` with their runs.
2. `ColumnPruning`.
3. `Executor` for linear read plans.

Stage 2:
1. `QueryStream`, and the refinement `Executor` ⇒ `QueryStream!Spec`. It replaces the two separate stream properties.
2. `CalcPanic` and `FoldInPlace` in `Simplify`, with `OptimizerNeverPanics` and `RuleFailureLeavesGraph`.
3. `AlterTable`, composed with `ColumnPruning`.

Stage 3:
1. `In`/`Between` in `Expr` and `Simplify`, with the single-element IN counterexample.
2. `build_write` and the ADD/DROP COLUMN executors in `Executor`.
3. `SimplifyFilter` over a plan graph: `ConstantCalculation::_apply` over every operator, the rule pattern, `PlanFoldedFromRoot` and `ConstantCalculationIdempotent`.

Stage 4:
1. `IfNull`, `NullIf`, `Reference` in `Expr`; `TryReference` with `TryReferenceSound` and the NULLIF name-clash counterexample.
2. `Executor` as a tree of coroutines, with the Union executor.

Next:
1. **Abstract specification for the rewrite.** A `Rewrite` module whose only action replaces the predicate by any equivalent one, shown to be implemented by `SimplifyFilter` under a refinement mapping on the inputs where the rewrite is exact.
