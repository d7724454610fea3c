------------------------------- MODULE Query --------------------------------
(***************************************************************************)
(* The life of a query on one connection, from its tokens to the messages  *)
(* that answer it: the message loop of internal/server/server.go, Execute  *)
(* of internal/executor/executor.go, and the messages of                   *)
(* internal/protocol/messages.go.  It composes TxnManager, TupleCodec and  *)
(* Evaluator.  The parser is a parameter here, and so is what SQL says of  *)
(* a query as it is written, so that what follows from the tree of a       *)
(* statement can be told apart from how the tree comes about; module       *)
(* QuerySQL brings in both.                                                *)
(*                                                                         *)
(* Every statement is about the same table name, and there is one          *)
(* connection: a whole query is one step.  What connections do to each     *)
(* other between the steps of a statement is module Session, where rows    *)
(* have no values; here they have.                                         *)
(***************************************************************************)
EXTENDS TxnManager, TupleCodec, Evaluator, SQLMeaning

CONSTANTS
    Schemas,      \* the column lists the table may have been created with
    Queries,      \* the token sequences clients send
    ParseQuery(_),         \* Parse of module Parser
    SQLHolds(_, _, _),     \* Holds of module SQLReference
    MaxXID,       \* bound: the number of XIDs drawn
    MaxTuples     \* bound: tuples in the file before the last INSERT or UPDATE

ASSUME QueryAssumption ==
    /\ MaxXID \in Nat /\ MaxTuples \in Nat
    /\ Schemas \subseteq Seq(Columns) \ {<<>>}
    /\ \A q \in Queries : ParseQuery(q).ok => StatementOK(ParseQuery(q).out)

VARIABLES
    table,     \* the columns in the catalog; <<>> when there is no table
    heap,      \* the tuples of the table's file, in scan order
    connTxn,   \* the connection's ConnTransaction: State and XID
    query,     \* the query last received, <<>> for another message or none
    parsed,    \* what the parser made of that query, or Nothing
    answer     \* the messages that answer it, until the client has read them

qvars == <<nextXID, statuses, table, heap, connTxn, query, parsed, answer>>

Nothing == [ok |-> FALSE, out |-> <<>>]

NoTxn == [State |-> "Idle", XID |-> 0]

QInit ==
    /\ nextXID = 0
    /\ statuses = [x \in {} |-> Committed]
    /\ table \in Schemas
    /\ heap = <<>>
    /\ connTxn = NoTxn
    /\ query = <<>>
    /\ parsed = Nothing
    /\ answer = <<>>

-----------------------------------------------------------------------------
(***************************************************************************)
(* The messages of an answer.                                              *)
(***************************************************************************)
ErrorResponse           == [type |-> "E"]
CommandComplete(tag, n) == [type |-> "C", tag |-> tag, n |-> n]
RowDescription(columns) == [type |-> "T", fields |-> columns]
DataRow(texts)          == [type |-> "D", values |-> texts]
ReadyForQuery(status)   == [type |-> "Z", status |-> status]

NullText == Text("null", 0)

txnStatusByte(state) ==
    CASE state = "InTransaction" -> "T" [] state = "Failed" -> "E" [] OTHER -> "I"

\* The last message is ReadyForQuery with the state the handler leaves behind.
Answer(messages) ==
    answer' = messages \o <<ReadyForQuery(txnStatusByte(connTxn'.State))>>

RowMessage(row, columns) ==
    DataRow([i \in 1 .. Len(columns) |->
                IF IsNil(row[i]) THEN NullText ELSE TextEncode(row[i], columns[i].TypeOID)])

\* No rows, no RowDescription: the slice of rows of an empty result is nil.
RowMessages(rows, columns) ==
    IF rows = <<>> THEN <<>>
    ELSE <<RowDescription(columns)>>
            \o [i \in 1 .. Len(rows) |-> RowMessage(rows[i], columns)]

-----------------------------------------------------------------------------
(***************************************************************************)
(* Execute.  A statement's result: whether it succeeded, the file and the  *)
(* catalog entry it leaves, whether it drew an XID, how an autocommit XID  *)
(* ends, and the tag, count and rows of the answer.                        *)
(***************************************************************************)
Unchanged ==
    [ok |-> FALSE, heap |-> heap, table |-> table, draws |-> FALSE, end |-> InProgress,
     tag |-> "", n |-> 0, columns |-> <<>>, rows |-> <<>>]

\* The XID a writing statement works under.
XID == IF connTxn.XID # 0 THEN connTxn.XID ELSE NextXID

\* What the scan does with a tuple.  It is decoded before it is known to be
\* visible, so one that does not decode ends the scan, dead or alive.
Judge(match) == IF IsErr(match) THEN "error" ELSE IF IsTrue(match) THEN "match" ELSE "skip"

Verdict(t, decoded, where) ==
    IF ~decoded.ok THEN "error"
    ELSE IF ~IsVisible(t.xmin, t.xmax, TakeSnapshot) THEN "skip"
    ELSE IF where.node = "nil" THEN "match"
    ELSE Judge(evalExpr(where, decoded.values, table))

Verdicts(where) ==
    [i \in 1 .. Len(heap) |-> Verdict(heap[i], DecodeTuple(heap[i].data, table), where)]

\* Whether the scan ends with an error, and the places it has matched by then.
ScanOf(verdicts) ==
    [fails |-> \E i \in 1 .. Len(heap) : verdicts[i] = "error",
     found |-> {i \in 1 .. Len(heap) :
                    verdicts[i] = "match" /\ \A j \in 1 .. i : verdicts[j] # "error"}]

Scan(where) == ScanOf(Verdicts(where))

\* The kth place, in the order of the scan.
Nth(places, k) == CHOOSE i \in places : Cardinality({j \in places : j <= i}) = k

Decoded(i) == DecodeTuple(heap[i].data, table).values

\* The places a list of column names stands for.
Indexes(names) == [k \in 1 .. Len(names) |-> First(Positions(names[k], table))]
AllFound(names) == \A k \in 1 .. Len(names) : Positions(names[k], table) # {}

\* The places of all columns.
Everywhere == [i \in 1 .. Len(table) |-> i]

executeSelect(s, scan) ==
    LET all == s.Columns = <<"*">>
        idx == IF all THEN Everywhere ELSE Indexes(s.Columns)
        Pick(row) == [k \in 1 .. Len(idx) |-> row[idx[k]]]
    IN  IF (~all /\ ~AllFound(s.Columns)) \/ scan.fails THEN Unchanged
        ELSE [Unchanged EXCEPT !.ok = TRUE, !.tag = "SELECT", !.n = Cardinality(scan.found),
                !.columns = [k \in 1 .. Len(idx) |-> table[idx[k]]],
                !.rows = [k \in 1 .. Cardinality(scan.found) |->
                            Pick(Decoded(Nth(scan.found, k)))]]

-----------------------------------------------------------------------------
\* The values are encoded in the order of the statement's own column list.  The
\* NOT NULL check looks at the listed columns only.
executeInsert(s) ==
    LET places  == IF s.Columns = <<>> THEN Everywhere ELSE Indexes(s.Columns)
        columns == [k \in 1 .. Len(places) |-> table[places[k]]]
        values  == [k \in 1 .. Len(places) |-> evalLiteral(s.Values[k], columns[k])]
        tuple   == [xmin |-> XID, xmax |-> 0, data |-> EncodeTuple(values, columns),
                    inOrder |-> places = Everywhere,
                    want |-> [i \in 1 .. Len(table) |->
                                LET at == {k \in 1 .. Len(places) : places[k] = i}
                                IN  IF at = {} THEN Literal("NullLiteral", 0)
                                    ELSE s.Values[First(at)]]]
    IN  IF \/ ~AllFound(s.Columns)
           \/ Len(s.Values) # Len(places)
           \/ \E k \in 1 .. Len(places) :
                IsErr(values[k]) \/ (IsNil(values[k]) /\ columns[k].NotNull)
        THEN Unchanged
        ELSE [Unchanged EXCEPT !.ok = TRUE, !.heap = Append(heap, tuple), !.draws = TRUE,
                !.end = Committed, !.tag = "INSERT", !.n = 1]

\* Mutant: the loop ends with the first tuple it has marked.
MarkingFirst(places) ==
    [i \in 1 .. Len(heap) |->
        IF places # {} /\ i = First(places) THEN [heap[i] EXCEPT !.xmax = XID] ELSE heap[i]]

\* The heap with the given tuples marked as deleted.
Marking(places) ==
    [i \in 1 .. Len(heap) |->
        IF i \in places THEN [heap[i] EXCEPT !.xmax = XID] ELSE heap[i]]

\* Mutant: an error in the scan commits what has been deleted so far.
executeDeleteCommitsAnyway(s, scan) ==
    [Unchanged EXCEPT !.ok = ~scan.fails, !.heap = Marking(scan.found), !.draws = TRUE,
        !.end = Committed, !.tag = "DELETE", !.n = Cardinality(scan.found)]

\* An error in the scan leaves the XID in progress and the marks in place.
executeDelete(s, scan) ==
    [Unchanged EXCEPT !.ok = ~scan.fails, !.heap = Marking(scan.found), !.draws = TRUE,
        !.end = IF scan.fails THEN InProgress ELSE Committed,
        !.tag = "DELETE", !.n = Cardinality(scan.found)]

\* The clauses that set column i, of which the last counts.
SetBy(clauses, i) == {k \in 1 .. Len(clauses) : i = First(Positions(clauses[k].Column, table))}

\* The values of a row after the SET clauses.
SetValues(row, clauses) ==
    [i \in 1 .. Len(table) |->
        IF SetBy(clauses, i) = {} THEN row[i]
        ELSE evalLiteral(clauses[Max(SetBy(clauses, i))].Value, table[i])]

\* History: the literals the columns have been given.
SetWanted(want, clauses) ==
    [i \in 1 .. Len(table) |->
        IF SetBy(clauses, i) = {} THEN want[i] ELSE clauses[Max(SetBy(clauses, i))].Value]

\* The clauses are evaluated for each matching tuple, after it has been marked:
\* a bad clause is found at the first match, and aborts an autocommit XID.
executeUpdate(s, scan) ==
    LET bad == \E k \in 1 .. Len(s.SetClauses) :
                    LET at == Positions(s.SetClauses[k].Column, table)
                    IN  \/ at = {}
                        \/ IsErr(evalLiteral(s.SetClauses[k].Value, table[First(at)]))
        newVersion(i) ==
            [xmin |-> XID, xmax |-> 0,
             data |-> EncodeTuple(SetValues(Decoded(i), s.SetClauses), table),
             inOrder |-> heap[i].inOrder,
             want |-> SetWanted(heap[i].want, s.SetClauses)]
    IN  IF bad /\ scan.found # {}
        THEN [Unchanged EXCEPT !.heap = Marking({First(scan.found)}), !.draws = TRUE,
                !.end = Aborted]
        ELSE [Unchanged EXCEPT !.ok = ~scan.fails, !.draws = TRUE,
                !.end = IF scan.fails THEN InProgress ELSE Committed,
                !.heap = Marking(scan.found)
                            \o [k \in 1 .. Cardinality(scan.found) |->
                                    newVersion(Nth(scan.found, k))],
                !.tag = "UPDATE", !.n = Cardinality(scan.found)]

\* INSERT whose tuple the file does not take: too large, or an I/O error.
InsertNotStored == [Unchanged EXCEPT !.draws = TRUE, !.end = Aborted]

\* UPDATE whose new version of the tuple at i the file does not take: the matches
\* before i have been replaced, and the tuple at i has been marked.
UpdateNotStored(s, scan, i) ==
    LET before == executeUpdate(s, [fails |-> TRUE, found |-> {j \in scan.found : j < i}])
    IN  [before EXCEPT !.heap[i].xmax = XID, !.end = Aborted]

-----------------------------------------------------------------------------
\* The new table has a new OID, and so a new and empty file.
executeCreateTable(s) ==
    IF table # <<>> \/ \E k \in 1 .. Len(s.Columns) : s.Columns[k].TypeName \notin DOMAIN oidsByName
    THEN Unchanged
    ELSE [Unchanged EXCEPT !.ok = TRUE, !.tag = "CREATE TABLE", !.heap = <<>>,
            !.table = [k \in 1 .. Len(s.Columns) |->
                        [Name    |-> s.Columns[k].Name,
                         TypeOID |-> oidsByName[s.Columns[k].TypeName],
                         NotNull |-> s.Columns[k].NotNull]]]

executeDropTable(s) ==
    [Unchanged EXCEPT !.ok = table # <<>> \/ s.IfExists, !.tag = "DROP TABLE",
                      !.table = <<>>, !.heap = <<>>]

\* The four row statements find the table first.
Execute(s) ==
    CASE s.stmt = "CREATE TABLE" -> executeCreateTable(s)
      [] s.stmt = "DROP TABLE"   -> executeDropTable(s)
      [] s.stmt \notin {"CREATE TABLE", "DROP TABLE"} /\ table = <<>> -> Unchanged
      [] s.stmt = "SELECT" /\ table # <<>> -> executeSelect(s, Scan(s.Where))
      [] s.stmt = "INSERT" /\ table # <<>> -> executeInsert(s)
      [] s.stmt = "UPDATE" /\ table # <<>> -> executeUpdate(s, Scan(s.Where))
      [] s.stmt = "DELETE" /\ table # <<>> -> executeDelete(s, Scan(s.Where))

-----------------------------------------------------------------------------
(***************************************************************************)
(* The message loop.                                                       *)
(***************************************************************************)
Parsed == [q \in Queries |-> ParseQuery(q)]

WithinBounds(s) ==
    /\ s.stmt \in {"BEGIN", "INSERT", "UPDATE", "DELETE"} /\ connTxn.State # "InTransaction"
        => nextXID < MaxXID
    /\ s.stmt \in {"INSERT", "UPDATE"} => Len(heap) < MaxTuples

\* A Query message is read and parsed.  The client sends the next one when it
\* has read the last answer.
ReceiveQuery(q) ==
    /\ answer = <<>> /\ query = <<>>
    /\ Parsed[q].ok => WithinBounds(Parsed[q].out)
    /\ query' = q
    /\ parsed' = Parsed[q]
    /\ UNCHANGED <<nextXID, statuses, table, heap, connTxn, answer>>

stmt == parsed.out

\* The loop has a query to answer, and it is one of these statements.
Handling == query # <<>> /\ answer = <<>> /\ UNCHANGED <<query, parsed>>

HandlingStatement(kinds) == Handling /\ parsed.ok /\ stmt.stmt \in kinds

\* The state after an error: an open transaction has failed.
Failing == [connTxn EXCEPT !.State = IF @ = "InTransaction" THEN "Failed" ELSE @]

ParseError ==
    /\ Handling
    /\ ~parsed.ok
    /\ connTxn' = Failing
    /\ Answer(<<ErrorResponse>>)
    /\ UNCHANGED <<nextXID, statuses, table, heap>>

\* Inside a transaction BEGIN is answered with an error and with completion.
BeginStatement ==
    /\ HandlingStatement({"BEGIN"})
    /\ IF connTxn.State = "InTransaction"
       THEN /\ UNCHANGED <<nextXID, connTxn>>
            /\ Answer(<<ErrorResponse, CommandComplete("BEGIN", 0)>>)
       ELSE /\ nextXID' = NextXID
            /\ connTxn' = [State |-> "InTransaction", XID |-> NextXID]
            /\ Answer(<<CommandComplete("BEGIN", 0)>>)
    /\ UNCHANGED <<statuses, table, heap>>

CommitStatement ==
    /\ HandlingStatement({"COMMIT"})
    /\ CASE connTxn.State = "InTransaction" -> CommitXID(connTxn.XID)
         [] connTxn.State = "Failed"        -> AbortXID(connTxn.XID)
         [] OTHER                           -> UNCHANGED statuses
    /\ connTxn' = NoTxn
    /\ Answer(<<CommandComplete("COMMIT", 0)>>)
    /\ UNCHANGED <<nextXID, table, heap>>

RollbackStatement ==
    /\ HandlingStatement({"ROLLBACK"})
    /\ IF connTxn.State # "Idle" THEN AbortXID(connTxn.XID) ELSE UNCHANGED statuses
    /\ connTxn' = NoTxn
    /\ Answer(<<CommandComplete("ROLLBACK", 0)>>)
    /\ UNCHANGED <<nextXID, table, heap>>

Executed == {"CREATE TABLE", "DROP TABLE", "INSERT", "SELECT", "UPDATE", "DELETE"}

RejectFailed ==
    /\ HandlingStatement(Executed)
    /\ connTxn.State = "Failed"
    /\ UNCHANGED <<nextXID, statuses, table, heap, connTxn>>
    /\ Answer(<<ErrorResponse>>)

\* Mutant: the error path of Execute goes on to the answer of a success.
FinishExecutionBoth(r) ==
    /\ connTxn' = IF r.ok THEN connTxn ELSE Failing
    /\ Answer((IF r.ok THEN <<>> ELSE <<ErrorResponse>>)
                 \o RowMessages(r.rows, r.columns) \o <<CommandComplete(r.tag, r.n)>>)

\* The rows and the tag of a success, or one error.
FinishExecution(r) ==
    /\ connTxn' = IF r.ok THEN connTxn ELSE Failing
    /\ Answer(IF r.ok THEN RowMessages(r.rows, r.columns) \o <<CommandComplete(r.tag, r.n)>>
                      ELSE <<ErrorResponse>>)

\* What a result r of Execute leaves behind.
Apply(r) ==
    LET autoCommit == r.draws /\ connTxn.XID = 0
    IN  /\ heap' = r.heap
        /\ table' = r.table
        /\ nextXID' = IF autoCommit THEN NextXID ELSE nextXID
        /\ IF autoCommit /\ r.end # InProgress THEN SetStatus(NextXID, r.end)
                                               ELSE UNCHANGED statuses
        /\ FinishExecution(r)

ExecuteStatement ==
    /\ HandlingStatement(Executed)
    /\ connTxn.State # "Failed"
    /\ Apply(Execute(stmt))

\* InsertTuple fails.  An UPDATE comes to it only if its clauses are good.
InsertTupleFails ==
    /\ HandlingStatement({"INSERT", "UPDATE"})
    /\ connTxn.State # "Failed" /\ table # <<>>
    /\ Execute(stmt).end # Aborted
    /\ \/ /\ stmt.stmt = "INSERT" /\ Execute(stmt).ok
          /\ Apply(InsertNotStored)
       \/ /\ stmt.stmt = "UPDATE"
          /\ \E i \in Scan(stmt.Where).found :
                Apply(UpdateNotStored(stmt, Scan(stmt.Where), i))

\* A message that is neither a query nor Terminate is an error, but it does not
\* fail an open transaction.
UnsupportedMessage ==
    /\ answer = <<>> /\ query = <<>>
    /\ UNCHANGED <<nextXID, statuses, table, heap, connTxn, query, parsed>>
    /\ Answer(<<ErrorResponse>>)

\* External: the client reads its answer to the end.
ClientReads ==
    /\ answer # <<>>
    /\ answer' = <<>>
    /\ query' = <<>>
    /\ parsed' = Nothing
    /\ UNCHANGED <<nextXID, statuses, table, heap, connTxn>>

QNext ==
    \/ \E q \in Queries : ReceiveQuery(q)
    \/ ParseError \/ RejectFailed \/ ExecuteStatement \/ InsertTupleFails
    \/ BeginStatement \/ CommitStatement \/ RollbackStatement
    \/ UnsupportedMessage
    \/ ClientReads

QSpec == QInit /\ [][QNext]_qvars

-----------------------------------------------------------------------------
(***************************************************************************)
(* Properties.  inOrder and want, in a tuple, are history: whether it goes *)
(* back to an INSERT of all columns in the table's order, and the literals *)
(* its columns were given.                                                 *)
(***************************************************************************)
QTypeOK ==
    /\ nextXID \in Nat
    /\ DOMAIN statuses \subseteq 1 .. nextXID
    /\ \A x \in DOMAIN statuses : statuses[x] \in {Committed, Aborted}
    /\ connTxn \in [State : {"Idle", "InTransaction", "Failed"}, XID : 0 .. nextXID]
    /\ table \in Seq(Columns)
    /\ \A i \in 1 .. Len(heap) :
        /\ heap[i].xmin \in 1 .. nextXID /\ heap[i].xmax \in 0 .. nextXID
        /\ heap[i].data \in Seq(Bytes)
        /\ Len(heap[i].want) = Len(table)
        /\ \A k \in 1 .. Len(table) : LiteralOK(heap[i].want[k])
    /\ parsed.ok => StatementOK(parsed.out)

IsStatement(kind) == query # <<>> /\ parsed.ok /\ stmt.stmt = kind

Errored == \E i \in 1 .. Len(answer) : answer[i].type = "E"

TypesOf(messages) == [i \in 1 .. Len(messages) |-> messages[i].type]

\* n rows: their description, one DataRow each with a value for each field, and
\* a completion that counts them.
RowsAnswered(n) ==
    /\ n > 0
    /\ TypesOf(answer) = <<"T">> \o [i \in 1 .. n |-> "D"] \o <<"C", "Z">>
    /\ \A i \in 2 .. n + 1 : Len(answer[i].values) = Len(answer[1].fields)
    /\ answer[n + 2] = CommandComplete("SELECT", n)

\* One completion, with the tag of the statement; a SELECT that is answered with
\* nothing else has found no row.
Completed ==
    /\ TypesOf(answer) = <<"C", "Z">>
    /\ query # <<>> /\ parsed.ok
    /\ answer[1].tag = stmt.stmt
    /\ stmt.stmt = "SELECT" => answer[1].n = 0

\* How the server answers.  One ReadyForQuery, at the end, with the state of the
\* transaction.  Before it: one error; or one completion, that of the statement,
\* which for a SELECT that has found rows follows their description and as many
\* DataRows as it counts, each with a value for every field.  This is
\* not the whole of the simple query protocol.  The code departs from it in two
\* ways, each admitted here for the one case in which it happens: a SELECT that
\* finds no row gets no description, although README 3.5 says "Return
\* RowDescription + DataRow messages", and BEGIN inside a transaction gets an
\* error and a completion, with the transaction still open.
AnswerWellFormed ==
    answer # <<>> =>
        /\ answer[Len(answer)] = ReadyForQuery(txnStatusByte(connTxn.State))
        /\ \/ TypesOf(answer) = <<"E", "Z">>
           \/ Completed
           \/ IsStatement("SELECT") /\ \E n \in 1 .. Len(answer) : RowsAnswered(n)
           \/ /\ IsStatement("BEGIN") /\ connTxn.State = "InTransaction"
              /\ TypesOf(answer) = <<"E", "C", "Z">>

\* What the columns of a tuple were given, in SQL's terms.
SQLRow(t) == [i \in 1 .. Len(table) |-> StoredValue(t.want[i], table[i].TypeOID)]

\* Whether the value a scan decodes is the one the column was given.
Faithful(v, sql) ==
    CASE sql.sort = "null"   -> IsNil(v)
      [] sql.sort = "bool"   -> v.kind = "bool" /\ v.val = sql.v
      [] sql.sort = "string" -> v.kind = "string" /\ v.val = sql.v
      [] OTHER               -> v.kind \in {"int16", "int32", "int64", "uint32"} /\ 2 * v.val = sql.v

ReadsBack(t) ==
    LET d == DecodeTuple(t.data, table)
    IN  d.ok /\ \A i \in 1 .. Len(table) : Faithful(d.values[i], SQLRow(t)[i])

\* Every tuple in the file, the dead ones included, decodes with the table's
\* columns to the values it was made of, NULLs, empty strings and the ends of
\* every integer range included, so no tuple can make a scan of the table fail.
\* An integer literal that its column cannot hold counts as the one it wraps
\* around to (StoredValue): the code does not refuse it.  This holds of tuples
\* that go back to INSERTs of all columns in table order.
InOrderReadsBack == \A i \in 1 .. Len(heap) : heap[i].inOrder => ReadsBack(heap[i])

\* What a statement starting now can see, by the places of the tuples.
VisibleRows ==
    [i \in {j \in 1 .. Len(heap) : IsVisible(heap[j].xmin, heap[j].xmax, TakeSnapshot)} |->
        <<heap[i].data, heap[i].want>>]

\* A transaction's effects are withheld: it has failed, or this is no COMMIT.
Withheld ==
    \/ connTxn.State = "Failed"
    \/ connTxn.State = "InTransaction" /\ ~IsStatement("COMMIT")

ShowsNothing ==
    /\ query # <<>> /\ answer = <<>>
    /\ table # <<>> /\ table' = table
    /\ Errored' \/ Withheld
    => VisibleRows' = VisibleRows

\* A statement that fails, after however many rows it has marked or appended,
\* changes nothing visible, and neither does anything inside a transaction
\* before a COMMIT that finds it not failed; nor does that COMMIT if it has
\* failed.  (CREATE and DROP TABLE take effect at once.)
InvisibleUntilCommitted == [][ShowsNothing]_qvars

-----------------------------------------------------------------------------
(***************************************************************************)
(* Properties in the terms of SQL.                                         *)
(***************************************************************************)
AllInOrder == \A i \in 1 .. Len(heap) : heap[i].inOrder

\* The rows a statement starting now can see, in SQL's terms, by their places.
SQLRows ==
    [i \in {j \in 1 .. Len(heap) : IsVisible(heap[j].xmin, heap[j].xmax, TakeSnapshot)} |->
        SQLRow(heap[i])]

\* Whether SQL has a verdict on each of the rows, and the places of those for
\* which the condition is true.
Judged   == \A i \in DOMAIN SQLRows : SQLHolds(query, SQLRows[i], table) # "X"
Selected == {i \in DOMAIN SQLRows : SQLHolds(query, SQLRows[i], table) = "T"}

Rank(places, i) == Cardinality({j \in places : j <= i})

ExpectedText(sql) ==
    CASE sql.sort = "null"   -> NullText
      [] sql.sort = "bool"   -> Text("word", IF sql.v THEN "t" ELSE "f")
      [] sql.sort = "string" -> Text("chars", sql.v)
      [] OTHER               -> Text("decimal", sql.v \div 2)

\* The parser reads a condition as SQL does: wherever SQL has a verdict, the tree
\* means the same for every row in the file, so the precedence of AND and OR,
\* parentheses and operators are those of the language.
ReadAsWritten ==
    query # <<>> /\ parsed.ok /\ stmt.stmt \in {"SELECT", "UPDATE", "DELETE"} =>
        \A i \in 1 .. Len(heap) :
            SQLHolds(query, SQLRow(heap[i]), table)
                \in {"X", Means(stmt.Where, SQLRow(heap[i]), table)}

\* End to end: the DataRows that answer a SELECT are exactly the texts of the
\* rows whose condition is true in SQL's three-valued logic, in the order of the
\* file, although the evaluator knows only true and false; parsing, narrowing,
\* encoding, decoding and evaluation lie between the two.  The rows are those
\* a statement can see, which leaves out what the connection's own transaction
\* has written and not yet committed, and their values are the stored ones,
\* integers wrapped around.  (A bytea column is left out: its text is always
\* empty.)
SelectsTheTrue ==
    LET all    == stmt.Columns = <<"*">>
        places == IF all THEN Everywhere ELSE Indexes(stmt.Columns)
    IN  /\ IsStatement("SELECT") /\ answer # <<>> /\ table # <<>>
        /\ all \/ AllFound(stmt.Columns)
        /\ connTxn.State # "Failed" /\ AllInOrder /\ Judged
        => /\ ~Errored
           /\ Cardinality({k \in 1 .. Len(answer) : answer[k].type = "D"})
                = Cardinality(Selected)
           /\ \A i \in Selected, j \in 1 .. Len(places) :
                table[places[j]].TypeOID # "bytea" =>
                    answer[1 + Rank(Selected, i)].values[j] = ExpectedText(SQLRows[i][places[j]])

\* The values of a row after the SET clauses of a statement, in SQL's terms.
SQLSet(row, clauses) ==
    [i \in 1 .. Len(table) |->
        IF SetBy(clauses, i) = {} THEN row[i]
        ELSE StoredValue(clauses[Max(SetBy(clauses, i))].Value, table[i].TypeOID)]

\* The rows left alone stay as they are; the others are the given places.
Leaves(rows, places) ==
    /\ DOMAIN SQLRows' = rows \cup places
    /\ \A i \in rows : SQLRows'[i] = SQLRows[i]

\* What an autocommit statement does to the visible rows, and its count.
AsAsked ==
    LET s        == stmt
        kept     == DOMAIN SQLRows \ Selected
        inserted == [i \in 1 .. Len(table) |-> StoredValue(s.Values[i], table[i].TypeOID)]
        count(n) == answer'[1].n = n
    IN  CASE s.stmt = "INSERT" ->
                /\ Leaves(DOMAIN SQLRows, {Len(heap) + 1}) /\ count(1)
                /\ SQLRows'[Len(heap) + 1] = inserted
                /\ \A i \in 1 .. Len(table) : table[i].NotNull => inserted[i] # SQLNull
          [] s.stmt = "DELETE" -> Leaves(kept, {}) /\ count(Cardinality(Selected))
          [] s.stmt = "UPDATE" ->
                /\ Leaves(kept, Len(heap) + 1 .. Len(heap) + Cardinality(Selected))
                /\ \A i \in Selected :
                    SQLRows'[Len(heap) + Rank(Selected, i)] = SQLSet(SQLRows[i], s.SetClauses)
                /\ count(Cardinality(Selected))
          [] s.stmt = "SELECT" -> SQLRows' = SQLRows
          [] OTHER -> TRUE

ActsAsAsked ==
    /\ query # <<>> /\ answer = <<>> /\ parsed.ok
    /\ table # <<>> /\ table' = table
    /\ ~Errored' /\ connTxn.State = "Idle" /\ AllInOrder' /\ Judged
    => AsAsked

\* Outside a transaction an INSERT, UPDATE or DELETE that succeeds changes the
\* visible rows its condition is true of, and no others, and reports their
\* number; an INSERT leaves no NULL in a NOT NULL column.  Three things SQL asks
\* for are not asked for here, because the code does not do them: integers that
\* are out of range wrap around, UPDATE does not check NOT NULL, and nothing
\* checks PRIMARY KEY.
EffectsAsAsked == [][ActsAsAsked]_qvars
=============================================================================
