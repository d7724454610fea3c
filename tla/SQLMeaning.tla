----------------------------- MODULE SQLMeaning -----------------------------
(***************************************************************************)
(* What a condition means in SQL: numbers are mathematical numbers, and    *)
(* logic is three-valued.  The truth values are T, F and U (unknown), and  *)
(* X where no verdict is given: what is no condition, a comparison between *)
(* values of different sorts, numbers a float64 cannot tell apart, oids    *)
(* and bare comparisons used as operands, which the code treats in its own *)
(* way (see the README).                                                   *)
(***************************************************************************)
EXTENDS SQLValues, FiniteSetsExt

TruthValues == {"T", "F", "U", "X"}

And3(a, b) == CASE "X" \in {a, b} -> "X"
                [] "X" \notin {a, b} /\ "F" \in {a, b} -> "F"
                [] OTHER -> IF "U" \in {a, b} THEN "U" ELSE "T"
Or3(a, b)  == CASE "X" \in {a, b} -> "X"
                [] "X" \notin {a, b} /\ "T" \in {a, b} -> "T"
                [] OTHER -> IF "U" \in {a, b} THEN "U" ELSE "F"
Truth(b)   == IF b THEN "T" ELSE "F"

\* A number that a float64 holds exactly.
Exact(h) == -(2 * TwoTo[MantissaBits]) <= h /\ h <= 2 * TwoTo[MantissaBits]

NumberValue(h) == IF Exact(h) THEN SQLValue("number", h) ELSE NoValue

Named(name, row, columns) ==
    LET at == {i \in 1 .. Len(columns) : columns[i].Name = name}
    IN  IF at = {} THEN NoValue ELSE row[Min(at)]

Precedes(l, r) ==
    IF l.sort = "number" THEN l.v < r.v
    ELSE \E n \in 0 .. Len(l.v) :
            /\ n <= Len(r.v) /\ SubSeq(l.v, 1, n) = SubSeq(r.v, 1, n)
            /\ IF n = Len(l.v) THEN n < Len(r.v) ELSE n < Len(r.v) /\ l.v[n + 1] < r.v[n + 1]

Compare3(l, op, r) ==
    IF "none" \in {l.sort, r.sort} THEN "X"
    ELSE IF "null" \in {l.sort, r.sort} THEN "U"
    ELSE IF l.sort # r.sort \/ l.sort = "oid" THEN "X"
    ELSE IF l.sort = "number" /\ ~(Exact(l.v) /\ Exact(r.v)) THEN "X"
    ELSE IF op \in {"=", "!=", "<>"} THEN Truth((l.v = r.v) = (op = "="))
    ELSE IF l.sort = "bool" THEN "X"
    ELSE Truth(CASE op = "<"  -> Precedes(l, r)
                 [] op = ">"  -> Precedes(r, l)
                 [] op = "<=" -> l.v = r.v \/ Precedes(l, r)
                 [] op = ">=" -> l.v = r.v \/ Precedes(r, l))

\* A value alone, and IS NULL and IS NOT NULL of a value.
Bare3(x) == CASE x.sort = "null" -> "U" [] x.sort = "bool" -> Truth(x.v) [] OTHER -> "X"

NullTest3(x, not) == IF x.sort = "none" THEN "X" ELSE Truth((x.sort = "null") # not)

-----------------------------------------------------------------------------
\* The value an operand stands for; what is not a literal or a column has none.
OperandOf(e, row, columns) ==
    CASE e.node = "NullLiteral"    -> SQLNull
      [] e.node = "BoolLiteral"    -> SQLValue("bool", e.Value)
      [] e.node = "StringLiteral"  -> SQLValue("string", e.Value)
      [] e.node = "IntegerLiteral" -> NumberValue(2 * e.Value)
      [] e.node = "FloatLiteral"   -> NumberValue(e.Value)
      [] e.node = "ColumnRef"      -> Named(e.Name, row, columns)
      [] OTHER                     -> NoValue

\* The truth value of the tree of a condition for a row, from those of its parts.
MeansNode(e, parts, row, columns) ==
    CASE e.node = "IsNullExpr" -> NullTest3(OperandOf(e.Expr, row, columns), e.Not)
      [] e.node = "BinaryExpr" /\ e.Op = "AND" -> And3(parts[e.Left], parts[e.Right])
      [] e.node = "BinaryExpr" /\ e.Op = "OR"  -> Or3(parts[e.Left], parts[e.Right])
      [] e.node = "BinaryExpr" /\ e.Op \in Comparisons ->
            Compare3(OperandOf(e.Left, row, columns), e.Op, OperandOf(e.Right, row, columns))
      [] OTHER -> Bare3(OperandOf(e, row, columns))

MeansTrees(trees, parts, row, columns) == [e \in trees |-> MeansNode(e, parts, row, columns)]

Means(expr, row, columns) ==
    LET means[n \in 0 .. MaxHeight] == MeansTrees(Exprs[n], means[n - 1], row, columns)
    IN  IF expr = NoWhere THEN "T" ELSE means[MaxHeight][expr]
=============================================================================
