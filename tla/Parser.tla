------------------------------- MODULE Parser -------------------------------
(***************************************************************************)
(* internal/parser/parser.go: the recursive descent parser, from the       *)
(* tokens of a query to the syntax tree of internal/ast/ast.go.  The lexer *)
(* is taken at its result: a query is a sequence of tokens.                *)
(*                                                                         *)
(* A parsing function takes the parser, p, and returns it moved on, with   *)
(* what it has built in out; ok is FALSE once an error has been returned.  *)
(***************************************************************************)
EXTENDS Syntax

NewParser(toks) == [toks |-> toks, pos |-> 1, ok |-> TRUE, out |-> <<>>]

peek(p) == IF p.pos <= Len(p.toks) THEN p.toks[p.pos] ELSE Mark("EOF")

advance(p)   == [p EXCEPT !.pos = @ + 1, !.out = peek(p)]
Return(p, x) == [p EXCEPT !.out = x]
Fail(p)      == [p EXCEPT !.ok = FALSE]

AtKeyword(p, w) == p.ok /\ peek(p).type = "KEYWORD" /\ peek(p).value = w
AtToken(p, t)   == p.ok /\ peek(p).type = t

expectKeyword(p, w) == IF AtKeyword(p, w) THEN advance(p) ELSE Fail(p)
expectToken(p, t)   == IF AtToken(p, t) THEN advance(p) ELSE Fail(p)

-----------------------------------------------------------------------------
RECURSIVE parseWhereExpr(_), OrLoop(_), AndLoop(_)

\* A number without a point must be an int64.
numberLiteral(p) ==
    LET n == p.out.value
    IN  IF n.point THEN Return(p, Literal("FloatLiteral", n.halves))
        ELSE IF n.halves \div 2 <= MaxInt64
        THEN Return(p, Literal("IntegerLiteral", n.halves \div 2))
        ELSE Fail(p)

\* What has been built between parentheses, and the closing one.
Closed(p) == Return(expectToken(p, "RPAREN"), p.out)

parsePrimary(p) ==
    CASE AtToken(p, "NUMBER")   -> numberLiteral(advance(p))
      [] AtToken(p, "STRING")   -> Return(advance(p), Literal("StringLiteral", peek(p).value))
      [] AtToken(p, "IDENT")    -> Return(advance(p), ColumnRef(peek(p).value))
      [] AtKeyword(p, "TRUE")   -> Return(advance(p), Literal("BoolLiteral", TRUE))
      [] AtKeyword(p, "FALSE")  -> Return(advance(p), Literal("BoolLiteral", FALSE))
      [] AtKeyword(p, "NULL")   -> Return(advance(p), Literal("NullLiteral", 0))
      [] AtToken(p, "LPAREN")   -> Closed(parseWhereExpr(advance(p)))
      [] OTHER                  -> Fail(p)

\* IS [NOT] NULL, and a comparison, after their left operand.
NullTest(left) ==
    LET is  == advance(left)
        not == AtKeyword(is, "NOT")
    IN  Return(expectKeyword(IF not THEN advance(is) ELSE is, "NULL"), IsNullExpr(left.out, not))

Binary(left, op, right) == Return(right, BinaryExpr(left.out, op, right.out))

Comparison(left) ==
    CASE AtKeyword(left, "IS")       -> NullTest(left)
      [] AtToken(left, "COMPARISON") -> Binary(left, peek(left).value, parsePrimary(advance(left)))
      [] OTHER                       -> left

parseComparison(p) == Comparison(parsePrimary(p))

\* Mutant: AND and OR bind alike.
AndLoopAlike(p) ==
    IF AtKeyword(p, "AND") \/ AtKeyword(p, "OR")
    THEN AndLoop(Binary(p, peek(p).value, parseComparison(advance(p)))) ELSE p

\* AND binds tighter than OR, and both associate to the left.
AndLoop(p) ==
    IF AtKeyword(p, "AND") THEN AndLoop(Binary(p, "AND", parseComparison(advance(p)))) ELSE p

parseAndExpr(p) == AndLoop(parseComparison(p))

OrLoop(p) ==
    IF AtKeyword(p, "OR") THEN OrLoop(Binary(p, "OR", parseAndExpr(advance(p)))) ELSE p

parseWhereExpr(p) == OrLoop(parseAndExpr(p))

-----------------------------------------------------------------------------
RECURSIVE parseConstraints(_), parseList(_, _, _), MoreOf(_, _, _)

\* NOT NULL and PRIMARY KEY in any order; PRIMARY KEY implies NOT NULL.
parseConstraints(p) ==
    LET constrain(last) ==
            parseConstraints(Return(expectKeyword(advance(p), last),
                                    [p.out EXCEPT !.NotNull = TRUE]))
    IN  CASE AtKeyword(p, "NOT")     -> constrain("NULL")
          [] AtKeyword(p, "PRIMARY") -> constrain("KEY")
          [] OTHER                   -> p

parseColumnSpec(p) ==
    LET name == expectToken(p, "IDENT")
    IN  IF AtToken(name, "IDENT") \/ AtToken(name, "KEYWORD")
        THEN parseConstraints(Return(advance(name), [Name     |-> name.out.value,
                                                     TypeName |-> peek(name).value,
                                                     NotNull  |-> FALSE]))
        ELSE Fail(name)

parseName(p) ==
    IF AtToken(p, "IDENT") THEN Return(advance(p), peek(p).value) ELSE Fail(p)

SetClause(name, value) == Return(value, [Column |-> name.out, Value |-> value.out])

\* The value of a SET clause is a primary: the operator has to be "=".
parseSetClause(p) ==
    LET name == parseName(p)
    IN  IF AtToken(name, "COMPARISON") /\ peek(name).value = "="
        THEN SetClause(name, parsePrimary(advance(name)))
        ELSE Fail(name)

\* One or more items, separated by commas, after the items so far.
parseList(p, what, items) ==
    MoreOf(CASE what = "name"   -> parseName(p)
             [] what = "value"  -> parsePrimary(p)
             [] what = "column" -> parseColumnSpec(p)
             [] what = "set"    -> parseSetClause(p), what, items)

MoreOf(item, what, items) ==
    LET all == Append(items, item.out)
    IN  IF AtToken(item, "COMMA") THEN parseList(advance(item), what, all)
                                  ELSE Return(item, all)

parseInParens(p, what) == Closed(parseList(expectToken(p, "LPAREN"), what, <<>>))

parseWhere(p) ==
    IF AtKeyword(p, "WHERE") THEN parseWhereExpr(advance(p)) ELSE Return(p, NoWhere)

\* The end of every statement: an optional semicolon.  Whatever follows it is
\* never looked at.
Finish(p, stmt) ==
    IF p.ok THEN Return(IF AtToken(p, "SEMICOLON") THEN advance(p) ELSE p, stmt) ELSE p

-----------------------------------------------------------------------------
parseCreateTable(p) ==
    LET name == parseName(expectKeyword(expectKeyword(p, "CREATE"), "TABLE"))
        cols == parseInParens(name, "column")
    IN  Finish(cols, [stmt |-> "CREATE TABLE", Name |-> name.out, Columns |-> cols.out])

parseDropTable(p) ==
    LET drop == expectKeyword(expectKeyword(p, "DROP"), "TABLE")
        if   == AtKeyword(drop, "IF")
        name == parseName(IF if THEN expectKeyword(advance(drop), "EXISTS") ELSE drop)
    IN  Finish(name, [stmt |-> "DROP TABLE", Name |-> name.out, IfExists |-> if])

parseInsert(p) ==
    LET name == parseName(expectKeyword(expectKeyword(p, "INSERT"), "INTO"))
        cols == IF AtToken(name, "LPAREN") THEN parseInParens(name, "name")
                                           ELSE Return(name, <<>>)
        vals == parseInParens(expectKeyword(cols, "VALUES"), "value")
    IN  Finish(vals, [stmt |-> "INSERT", Table |-> name.out, Columns |-> cols.out,
                      Values |-> vals.out])

parseSelect(p) ==
    LET sel   == expectKeyword(p, "SELECT")
        cols  == IF AtToken(sel, "ASTERISK") THEN Return(advance(sel), <<"*">>)
                                             ELSE parseList(sel, "name", <<>>)
        name  == parseName(expectKeyword(cols, "FROM"))
        where == parseWhere(name)
    IN  Finish(where, [stmt |-> "SELECT", Columns |-> cols.out, Table |-> name.out,
                       Where |-> where.out])

parseUpdate(p) ==
    LET name  == parseName(expectKeyword(p, "UPDATE"))
        sets  == parseList(expectKeyword(name, "SET"), "set", <<>>)
        where == parseWhere(sets)
    IN  Finish(where, [stmt |-> "UPDATE", Table |-> name.out, SetClauses |-> sets.out,
                       Where |-> where.out])

parseDelete(p) ==
    LET name  == parseName(expectKeyword(expectKeyword(p, "DELETE"), "FROM"))
        where == parseWhere(name)
    IN  Finish(where, [stmt |-> "DELETE", Table |-> name.out, Where |-> where.out])

\* BEGIN, COMMIT and ROLLBACK.
parseTxn(p, w) == Finish(expectKeyword(p, w), [stmt |-> w])

Parse(toks) ==
    LET p == NewParser(toks)
    IN  CASE AtKeyword(p, "CREATE") -> parseCreateTable(p)
          [] AtKeyword(p, "DROP")   -> parseDropTable(p)
          [] AtKeyword(p, "INSERT") -> parseInsert(p)
          [] AtKeyword(p, "SELECT") -> parseSelect(p)
          [] AtKeyword(p, "UPDATE") -> parseUpdate(p)
          [] AtKeyword(p, "DELETE") -> parseDelete(p)
          [] AtKeyword(p, "BEGIN") \/ AtKeyword(p, "COMMIT") \/ AtKeyword(p, "ROLLBACK")
                                    -> parseTxn(p, peek(p).value)
          [] OTHER                  -> Fail(p)
=============================================================================
