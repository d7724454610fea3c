---------------------------- MODULE SQLReference ----------------------------
(***************************************************************************)
(* What SQL says of a query as it is written, stated without the code's    *)
(* parser: a condition is a sequence of tokens, split at its outermost OR, *)
(* then AND, down to the operands.                                         *)
(***************************************************************************)
EXTENDS SQLMeaning

Depth(ts, i) ==
    Cardinality({j \in 1 .. i : ts[j].type = "LPAREN"})
        - Cardinality({j \in 1 .. i : ts[j].type = "RPAREN"})

TopLevel(ts, w) ==
    {i \in 1 .. Len(ts) : ts[i].type = "KEYWORD" /\ ts[i].value = w /\ Depth(ts, i) = 0}

Enclosed(ts) ==
    /\ Len(ts) > 2 /\ ts[1].type = "LPAREN" /\ Depth(ts, Len(ts)) = 0
    /\ \A i \in 1 .. Len(ts) - 1 : Depth(ts, i) > 0

Operand(tok, row, columns) ==
    CASE tok.type = "STRING" -> SQLValue("string", tok.value)
      [] tok.type = "NUMBER" -> NumberValue(tok.value.halves)
      [] tok.type = "KEYWORD" /\ tok.value \in {"TRUE", "FALSE"} ->
            SQLValue("bool", tok.value = "TRUE")
      [] tok.type = "KEYWORD" /\ tok.value = "NULL" -> SQLNull
      [] tok.type = "IDENT" -> Named(tok.value, row, columns)
      [] OTHER -> NoValue

Words(ts) == [i \in 1 .. Len(ts) |-> IF ts[i].type = "KEYWORD" THEN ts[i].value ELSE ts[i].type]

Atom(ts, row, columns) ==
    LET x == Operand(ts[1], row, columns)
        y == Operand(ts[3], row, columns)
    IN  CASE Len(ts) = 1 -> Bare3(x)
          [] Len(ts) = 3 /\ ts[2].type = "COMPARISON" -> Compare3(x, ts[2].value, y)
          [] Len(ts) = 3 /\ Tail(Words(ts)) = <<"IS", "NULL">> ->
                NullTest3(x, FALSE)
          [] Len(ts) = 4 /\ Tail(Words(ts)) = <<"IS", "NOT", "NULL">> ->
                NullTest3(x, TRUE)
          [] OTHER -> "X"

RECURSIVE Meaning(_, _, _)

\* The truth value of a condition for a row: OR splits a condition before AND
\* does, and parentheses hide both.
Meaning(ts, row, columns) ==
    LET split(i, Both(_, _)) ==
            Both(Meaning(SubSeq(ts, 1, i - 1), row, columns),
                 Meaning(SubSeq(ts, i + 1, Len(ts)), row, columns))
    IN  IF TopLevel(ts, "OR") # {} THEN split(Min(TopLevel(ts, "OR")), Or3)
        ELSE IF TopLevel(ts, "AND") # {} THEN split(Min(TopLevel(ts, "AND")), And3)
        ELSE IF Enclosed(ts) THEN Meaning(SubSeq(ts, 2, Len(ts) - 1), row, columns)
        ELSE Atom(ts, row, columns)

\* The condition of a statement: what follows WHERE, without a semicolon.
WhereAt(q) == {i \in 1 .. Len(q) : q[i].type = "KEYWORD" /\ q[i].value = "WHERE"}

Holds(q, row, columns) ==
    LET end == IF q[Len(q)].type = "SEMICOLON" THEN Len(q) - 1 ELSE Len(q)
    IN  IF WhereAt(q) = {} THEN "T"
        ELSE Meaning(SubSeq(q, Min(WhereAt(q)) + 1, end), row, columns)
=============================================================================
