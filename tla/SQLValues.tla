----------------------------- MODULE SQLValues ------------------------------
(***************************************************************************)
(* The values of SQL, stated without the code's widths and encodings: a    *)
(* number is a mathematical one, counted in halves.                        *)
(***************************************************************************)
EXTENDS Syntax

SQLValue(sort, v) == [sort |-> sort, v |-> v]
SQLNull == SQLValue("null", 0)
NoValue == SQLValue("none", 0)

\* The value a literal leaves in a column: for an integer the one congruent to
\* it between the ends of the column's type, the nth wrap around away.
Congruent(n, oid) ==
    LET m   == ValuesOf[SizeOf[oid]]
        low == IF oid = "oid" THEN 0 ELSE -(m \div 2)
    IN  n - m * ((n - low) \div m)

StoredValue(e, oid) ==
    CASE e.node = "NullLiteral"    -> SQLNull
      [] e.node = "BoolLiteral"    -> SQLValue("bool", e.Value)
      [] e.node = "StringLiteral"  -> SQLValue("string", e.Value)
      [] e.node = "IntegerLiteral" ->
            SQLValue(IF oid = "oid" THEN "oid" ELSE "number",
                     2 * Congruent(e.Value, oid))
=============================================================================
