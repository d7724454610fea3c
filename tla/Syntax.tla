------------------------------- MODULE Syntax -------------------------------
(***************************************************************************)
(* What goes into the parser and what comes out of it: the tokens of       *)
(* internal/parser/lexer.go, which are taken from the lexer as they are,   *)
(* and the syntax trees of internal/ast/ast.go.                            *)
(***************************************************************************)
EXTENDS Types

CONSTANT MaxHeight   \* bound: the height of the tree of a condition

ASSUME HeightAssumption == MaxHeight \in Nat

Keywords ==
    {"CREATE", "SELECT", "DELETE", "UPDATE", "BEGIN", "COMMIT", "ROLLBACK",
     "TABLE", "DROP", "SET", "IF", "EXISTS", "NOT", "NULL", "PRIMARY", "KEY",
     "INSERT", "INTO", "VALUES", "TRUE", "FALSE", "FROM", "WHERE", "AND", "OR",
     "IS"}

Comparisons == {"=", "!=", "<>", "<", ">", "<=", ">="}

\* The token types, with the six of the comparison operators as one.
TokenTypes == {"KEYWORD", "IDENT", "LPAREN", "RPAREN", "COMMA", "SEMICOLON",
               "STRING", "NUMBER", "ASTERISK", "COMPARISON", "EOF"}

Token(type, value) == [type |-> type, value |-> value]

Word(w)   == IF w \in Keywords THEN Token("KEYWORD", w) ELSE Token("IDENT", w)
Mark(t)   == Token(t, "")
Op(o)     == Token("COMPARISON", o)
Str(bs)   == Token("STRING", bs)

\* A number, counted in halves, and whether it is written with a point.
Number(h, point) == Token("NUMBER", [halves |-> h, point |-> point])

-----------------------------------------------------------------------------
\* The nodes of ast.go: expressions, and a nil Where.
Literal(node, v)        == [node |-> node, Value |-> v]
ColumnRef(name)         == [node |-> "ColumnRef", Name |-> name]
IsNullExpr(e, not)      == [node |-> "IsNullExpr", Expr |-> e, Not |-> not]
BinaryExpr(l, op, r)    == [node |-> "BinaryExpr", Left |-> l, Op |-> op, Right |-> r]
NoWhere                 == [node |-> "nil"]

LiteralNodes ==
    {"NullLiteral", "BoolLiteral", "StringLiteral", "IntegerLiteral", "FloatLiteral"}

\* A string is shorter than the query, whose length is an int32.
LiteralOK(e) ==
    /\ e = Literal(e.node, e.Value)
    /\ CASE e.node = "BoolLiteral"   -> e.Value \in BOOLEAN
         [] e.node = "StringLiteral" -> e.Value \in Seq(Bytes) /\ 2 * Len(e.Value) < ValuesOf[4]
         [] OTHER                    -> e.node \in LiteralNodes /\ e.Value \in Int

ExprOK(e) == e.node \in LiteralNodes => LiteralOK(e)

\* The trees a condition may be, by height: literals and columns, and what the
\* operators make of smaller ones.
Atoms ==
    [node : {"NullLiteral", "IntegerLiteral", "FloatLiteral"}, Value : Int]
        \cup [node : {"BoolLiteral"}, Value : BOOLEAN]
        \cup [node : {"StringLiteral"}, Value : Seq(Bytes)]
        \cup [node : {"ColumnRef"}, Name : STRING]

Operators == Comparisons \cup {"AND", "OR"}

Exprs[n \in 0 .. MaxHeight] ==
    IF n = 0 THEN Atoms
    ELSE Exprs[n - 1]
        \cup [node : {"IsNullExpr"}, Expr : Exprs[n - 1], Not : BOOLEAN]
        \cup [node : {"BinaryExpr"}, Left : Exprs[n - 1], Op : Operators, Right : Exprs[n - 1]]

Conditions == Exprs[MaxHeight]

WhereOK(e) == e = NoWhere \/ e \in Conditions

\* A statement as the executor gets it.
StatementOK(s) ==
    CASE s.stmt = "CREATE TABLE" ->
            /\ s.Columns \in Seq([Name : STRING, TypeName : STRING, NotNull : BOOLEAN])
            /\ s.Columns # <<>>
      [] s.stmt = "DROP TABLE" -> s.IfExists \in BOOLEAN
      [] s.stmt = "SELECT" -> s.Columns \in Seq(STRING) /\ WhereOK(s.Where)
      [] s.stmt = "INSERT" ->
            /\ s.Columns \in Seq(STRING)
            /\ Len(s.Values) \in Nat /\ \A k \in 1 .. Len(s.Values) : ExprOK(s.Values[k])
      [] s.stmt = "UPDATE" ->
            /\ Len(s.SetClauses) \in Nat
            /\ \A k \in 1 .. Len(s.SetClauses) : ExprOK(s.SetClauses[k].Value)
            /\ WhereOK(s.Where)
      [] s.stmt = "DELETE" -> WhereOK(s.Where)
      [] OTHER -> s.stmt \in {"BEGIN", "COMMIT", "ROLLBACK"}
=============================================================================
