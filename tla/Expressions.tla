---------------------------- MODULE Expressions -----------------------------
(***************************************************************************)
(* internal/executor/executor.go, the pure part: the operations of a WHERE *)
(* clause on the values of a row, and the literals of INSERT and SET.      *)
(***************************************************************************)
EXTENDS Types

\* The row's value in the first column of that name, or an error.
Positions(name, columns) == {i \in 1 .. Len(columns) : columns[i].Name = name}

First(S) == CHOOSE i \in S : \A j \in S : i <= j

ColumnValue(name, row, columns) ==
    LET at == Positions(name, columns)
    IN  IF at = {} THEN Err ELSE row[First(at)]

-----------------------------------------------------------------------------
\* An oid, a uint32, is not among the numbers.
IsNumber(v) == v.kind \in {"int16", "int32", "int64", "float64"}

toFloat64(v) == IF v.kind = "float64" THEN v.val ELSE RoundToFloat(v.val)

compareFloat(l, r, op) ==
    CASE op = "="           -> l = r
      [] op \in {"!=", "<>"} -> l # r
      [] op = "<"           -> l < r
      [] op = ">"           -> l > r
      [] op = "<="          -> l <= r
      [] op = ">="          -> l >= r

\* The lexicographic order of bytes.
StringLess(l, r) ==
    \/ Len(l) < Len(r) /\ l = SubSeq(r, 1, Len(l))
    \/ \E i \in 1 .. Len(l) :
        i <= Len(r) /\ SubSeq(l, 1, i - 1) = SubSeq(r, 1, i - 1) /\ l[i] < r[i]

compareString(l, r, op) ==
    CASE op = "="           -> l = r
      [] op \in {"!=", "<>"} -> l # r
      [] op = "<"           -> StringLess(l, r)
      [] op = ">"           -> StringLess(r, l)
      [] op = "<="          -> ~StringLess(r, l)
      [] op = ">="          -> ~StringLess(l, r)

\* Booleans have no order.
compareBool(l, r, op) ==
    CASE op = "="           -> Bool(l = r)
      [] op \in {"!=", "<>"} -> Bool(l # r)
      [] OTHER              -> Err

\* Mutant: NULL compares like a value, and so equals itself.
compareValuesNullToo(left, right, op) ==
    CASE IsNil(left) \/ IsNil(right) -> Bool((op = "=") <=> (left.kind = right.kind))
      [] IsNumber(left) /\ IsNumber(right) ->
            Bool(compareFloat(toFloat64(left), toFloat64(right), op))
      [] left.kind = "string" /\ right.kind = "string" ->
            Bool(compareString(left.val, right.val, op))
      [] left.kind = "bool" /\ right.kind = "bool" -> compareBool(left.val, right.val, op)
      [] OTHER -> Err

\* A comparison with NULL is false.
compareValues(left, right, op) ==
    CASE IsNil(left) \/ IsNil(right) -> Bool(FALSE)
      [] IsNumber(left) /\ IsNumber(right) ->
            Bool(compareFloat(toFloat64(left), toFloat64(right), op))
      [] left.kind = "string" /\ right.kind = "string" ->
            Bool(compareString(left.val, right.val, op))
      [] left.kind = "bool" /\ right.kind = "bool" -> compareBool(left.val, right.val, op)
      [] OTHER -> Err

-----------------------------------------------------------------------------
IsTrue(v) == v.kind = "bool" /\ v.val

\* AND and OR look at their right operand only when they have to, and then
\* return it as it is; what is not true counts as false.
Operate(op, left, right) ==
    CASE IsErr(left) -> Err
      [] ~IsErr(left) /\ op \in {"AND", "OR"} ->
            IF IsTrue(left) = (op = "OR") THEN Bool(op = "OR") ELSE right
      [] ~IsErr(left) /\ op \notin {"AND", "OR"} ->
            IF IsErr(right) THEN Err ELSE compareValues(left, right, op)

NullTestOf(v, not) == IF IsErr(v) THEN Err ELSE Bool(IsNil(v) # not)

-----------------------------------------------------------------------------
\* The value a literal gives a column: an integer is cut to the column's width
\* without a check; anything but a literal is an error.
evalLiteral(e, col) ==
    LET oid == col.TypeOID
    IN  CASE e.node = "NullLiteral" -> Nil
          [] e.node = "IntegerLiteral" /\ oid \in IntegerTypes ->
                [kind |-> KindOf[oid], val |-> Narrow(e.Value, oid)]
          [] e.node = "StringLiteral" /\ SizeOf[oid] < 0 ->
                [kind |-> KindOf[oid], val |-> e.Value]
          [] e.node = "BoolLiteral" /\ oid = "bool" -> Bool(e.Value)
          [] OTHER -> Err
=============================================================================
