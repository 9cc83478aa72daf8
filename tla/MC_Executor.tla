----------------------------- MODULE MC_Executor -----------------------------
(* Plans of the read shapes the binder builds, over a table of two tuples, *)
(* with every storage failure point of every scan and every predicate     *)
(* result.                                                                 *)
EXTENDS Executor

CONSTANTS t1, t2

MCTuples == <<t1, t2>>

\* the open fails (0), the n-th next_tuple call fails, or nothing fails (4)
FailPoints == 0..4
ScanLimits == {{}, {1}}
Preds == [{t1, t2} -> {"true", "false", "null", "err"}]
AllTrue == [t \in {t1, t2} |-> "true"]

\* a linear plan: each stage's input is the next one
Linear(pipe) == [i \in 1..Len(pipe) |-> IF i < Len(pipe) THEN <<i + 1>> ELSE << >>]
ScanIds(pipe) == {i \in 1..Len(pipe) : pipe[i] = "TableScan"}

TreeConf(pipe, kids, preds, limits, offsets, counts) ==
    [pipe : {pipe}, kids : {kids}, pred : preds,
     failAt : [ScanIds(pipe) -> FailPoints], scanLimit : limits,
     offset : offsets, count : counts]
Conf(pipe, preds, offsets, counts) ==
    TreeConf(pipe, Linear(pipe), preds, ScanLimits, offsets, counts)

MCConfs ==
    Conf(<<"TableScan">>, {AllTrue}, {0}, {{}})
    \cup Conf(<<"Filter", "TableScan">>, Preds, {0}, {{}})
    \cup Conf(<<"Limit", "TableScan">>, {AllTrue}, {0, 1}, {{}, {0}, {1}})
    \cup Conf(<<"Project", "Limit", "Filter", "TableScan">>, Preds, {0, 1}, {{}, {1}})
    \* the plans bind_alter_table builds: the DDL over a scan of the table
    \cup Conf(<<"AddColumn", "TableScan">>, {AllTrue}, {0}, {{}})
    \cup Conf(<<"DropColumn", "TableScan">>, {AllTrue}, {0}, {{}})
    \* select .. union all select ..: a filtered scan and a scan, under a limit
    \cup TreeConf(<<"Limit", "Union", "Filter", "TableScan", "TableScan">>,
                  <<<<2>>, <<3, 5>>, <<4>>, << >>, << >>>>,
                  Preds, {{}}, {0}, {{}, {3}})
=============================================================================
