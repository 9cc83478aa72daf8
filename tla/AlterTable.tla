------------------------------ MODULE AlterTable ------------------------------
(***************************************************************************)
(* Binder::bind_alter_table (src/src/binder/alter_table.rs): an ALTER      *)
(* TABLE statement becomes an AddColumn or DropColumn operator over a scan *)
(* of every column of the table, or an error.  The plan is a plan of       *)
(* ColumnPruning, so the bound statement can be handed to the pruning      *)
(* batch.                                                                  *)
(*                                                                         *)
(* A statement is abstracted to what the binder branches on: whether the   *)
(* name lowers to a single table name, the table, the operation, and for  *)
(* ADD COLUMN whether the column definition binds and whether its name is  *)
(* a valid identifier.                                                     *)
(***************************************************************************)
EXTENDS ColumnPruning

\* the outcome of binding: Ok(plan) or Err(kind)
Bound(p) == [ok |-> TRUE, plan |-> p]
Rejected(e) == [ok |-> FALSE, err |-> e]

\* TableScanOperator::build(table_name, table, true) under the operator
AlterPlan(op, cols) ==
    << [op |-> op, exprs |-> {}, groupby |-> {}, distinct |-> FALSE,
        own |-> {}, cols |-> {}, kids |-> <<2>>],
       [op |-> "TableScan", exprs |-> {}, groupby |-> {}, distinct |-> FALSE,
        own |-> {}, cols |-> cols, kids |-> << >>] >>

\* `catalog` maps each table of the catalog to its columns
BindAlterTable(stmt, catalog) ==
    CASE ~stmt.nameOk                      -> Rejected("InvalidTable")
      [] stmt.table \notin DOMAIN catalog  -> Rejected("TableNotFound")
      [] stmt.kind = "AddColumn" /\ ~stmt.columnBinds
                                           -> Rejected("BindColumn")
      [] stmt.kind = "AddColumn" /\ ~stmt.validIdent
                                           -> Rejected("InvalidColumn")
      [] stmt.kind \in {"AddColumn", "DropColumn"}
                                           -> Bound(AlterPlan(stmt.kind, catalog[stmt.table]))
      [] OTHER                             -> Rejected("UnsupportedStmt")
=============================================================================
