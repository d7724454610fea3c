------------------------------ MODULE MCQuery -------------------------------
(***************************************************************************)
(* Queries on small tables.  A byte has two bits, so an int2 runs from -8  *)
(* to 7, an int4 from -128 to 127 and an int8 from -32768 to 32767; a      *)
(* float64 holds integers exactly up to 8192.                              *)
(***************************************************************************)
EXTENDS QuerySQL, SequencesExt

Column(name, oid, notNull) == [Name |-> name, TypeOID |-> oid, NotNull |-> notNull]

MCSchemas == {
    <<Column("a", "int2", TRUE), Column("b", "text", FALSE)>>,
    <<Column("a", "int8", FALSE), Column("f", "bool", FALSE), Column("y", "bytea", FALSE)>>}

\* The tokens of the queries.
Open  == Mark("LPAREN")
Close == Mark("RPAREN")
Comma == Mark("COMMA")
Semi  == Mark("SEMICOLON")
Star  == Mark("ASTERISK")
Num(n)  == Number(2 * n, FALSE)
Half(h) == Number(h, TRUE)
W(words) == [i \in 1 .. Len(words) |-> Word(words[i])]

In(x) == <<Open>> \o x \o <<Close>>

Row(values) ==
    W(<<"INSERT", "INTO", "t", "VALUES">>) \o <<Open>>
        \o FoldLeft(LAMBDA ts, v : IF ts = <<>> THEN <<v>> ELSE ts \o <<Comma, v>>, <<>>, values)
        \o <<Close, Semi>>

Null == Word("NULL")

\* An INSERT with a column list.
Listed(names, values) ==
    LET row == Row(values)
    IN  SubSeq(row, 1, 3) \o In(names) \o SubSeq(row, 4, Len(row))

\* Literals at and beyond the ends of the types.
Inserts == {
    Listed(<<Word("a"), Comma, Word("b")>>, <<Num(1), Str(<<>>)>>), Row(<<Num(7), Null>>), Row(<<Num(8), Str(<<3, 1>>)>>),
    Row(<<Null, Str(<<3>>)>>), Row(<<Num(1)>>), Listed(<<Word("a")>>, <<Num(1)>>),
    Row(<<Num(8192), Null, Str(<<0>>)>>), Row(<<Null, Word("TRUE"), Null>>)}

Eq(name, v)  == <<Word(name), Op("="), v>>
Cmp(name, o, v) == <<Word(name), Op(o), v>>
A1    == Eq("a", Num(1))
Small == Cmp("a", "<", Num(8))
NoB   == W(<<"b", "IS", "NULL">>)
NoF   == W(<<"f", "IS", "NOT", "NULL">>)
And(x, y) == x \o <<Word("AND")>> \o y
Or(x, y)  == x \o <<Word("OR")>> \o y

MCConditions == {
    A1, NoB, Small, Cmp("a", ">=", Half(15)), Cmp("b", "<", Str(<<3, 1>>)),
    Cmp("b", "<>", Str(<<>>)), Cmp("b", ">", Null), Cmp("f", "!=", Word("TRUE")),
    Or(A1, And(NoB, Cmp("a", "<", Num(1)))), And(In(Or(A1, NoB)), Small), Or(And(A1, NoB), Small),
    And(Small, And(NoF, Eq("f", Word("TRUE")))), Eq("a", Num(8193)), Eq("a", Str(<<>>)),
    <<Word("f")>>, Cmp("f", "<", Word("TRUE")), Cmp("y", "<=", Str(<<0>>))}

Select(c) == W(<<"SELECT">>) \o <<Star>> \o W(<<"FROM", "t", "WHERE">>) \o c
DeleteWhere(c) == W(<<"DELETE", "FROM", "t", "WHERE">>) \o c
Update(sets, c) == W(<<"UPDATE", "t", "SET">>) \o sets \o <<Word("WHERE")>> \o c

OtherQueries == {
    W(<<"SELECT", "a", "FROM", "t">>),
    W(<<"SELECT">>) \o <<Word("f"), Comma, Word("a")>> \o W(<<"FROM", "t">>),
    W(<<"DELETE", "FROM", "t">>), DeleteWhere(A1), DeleteWhere(Or(A1, Eq("b", Num(1)))),
    Update(Eq("a", Num(9)), Small), Update(Eq("b", Null) \o <<Comma>> \o Eq("a", Num(7)), NoB),
    Update(Eq("f", Word("TRUE")), A1), W(<<"UPDATE", "t", "SET">>) \o Eq("y", Str(<<2>>)),
    W(<<"BEGIN">>), W(<<"COMMIT">>), W(<<"ROLLBACK">>),
    W(<<"DROP", "TABLE", "t">>), W(<<"DROP", "TABLE", "IF", "EXISTS", "t">>),
    W(<<"CREATE", "TABLE", "t">>) \o <<Open, Word("a"), Word("smallint"), Word("PRIMARY"),
        Word("KEY"), Comma, Word("b"), Word("text"), Close>>,
    W(<<"CREATE", "TABLE", "t">>) \o <<Open, Word("a"), Word("money"), Close>>,
    Select(<<Open>> \o A1), W(<<"DELETE", "t">>), Row(<<Num(32768), Null>>)}

MCQueries == Inserts \union {Select(c) : c \in MCConditions} \union OtherQueries

\* Column lists: complete and in order, swapped, and too short.
ListQueries == {
    Listed(<<Word("a"), Comma, Word("b")>>, <<Num(1), Str(<<>>)>>),
    Listed(<<Word("b"), Comma, Word("a")>>, <<Str(<<>>), Num(1)>>),
    Listed(<<Word("a")>>, <<Num(1)>>),
    W(<<"DELETE", "FROM", "t">>)}
    \union {Select(c) : c \in MCConditions}
=============================================================================
