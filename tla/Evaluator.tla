----------------------------- MODULE Evaluator ------------------------------
(***************************************************************************)
(* evalExpr of internal/executor/executor.go: a WHERE clause on a row, by  *)
(* recursion on the height of its tree.                                    *)
(***************************************************************************)
EXTENDS Expressions, Syntax

\* The value of a tree, given those of its parts.
evalNode(e, parts, row, columns) ==
    CASE e.node = "IntegerLiteral" -> Int64(e.Value)
      [] e.node = "FloatLiteral"   -> Float64(e.Value)
      [] e.node = "StringLiteral"  -> GoString(e.Value)
      [] e.node = "BoolLiteral"    -> Bool(e.Value)
      [] e.node = "NullLiteral"    -> Nil
      [] e.node = "ColumnRef"      -> ColumnValue(e.Name, row, columns)
      [] e.node = "IsNullExpr"     -> NullTestOf(parts[e.Expr], e.Not)
      [] e.node = "BinaryExpr"     -> Operate(e.Op, parts[e.Left], parts[e.Right])

evalTrees(trees, parts, row, columns) == [e \in trees |-> evalNode(e, parts, row, columns)]

evalExpr(expr, row, columns) ==
    LET eval[n \in 0 .. MaxHeight] == evalTrees(Exprs[n], eval[n - 1], row, columns)
    IN  eval[MaxHeight][expr]
=============================================================================
