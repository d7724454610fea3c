# A verification project for gopostgres

gopostgres is a small PostgreSQL-like server: clients connect over TCP, send
queries, and their statements run against heap files with multi-version
concurrency control. This directory holds TLA+ models of it, the TLC runs that
check them and the TLAPS proofs about them. `PROJECT.json` relates every
definition to the lines of code it models.

## 1. The system

| Part | State | Operations | Interacts with |
|---|---|---|---|
| `txn.TxnManager` | atomic XID counter; map from XID to outcome, under a lock | `NextXID`, `Commit`, `Abort`, `TakeSnapshot`, `IsVisible` | shared by all connections |
| `storage.HeapFile` | one file per table OID, pages of 8 KB | `PageCount`, `ReadPage`, `WritePage`, `InsertTuple`, `UpdateTupleHeader` | opened by every statement for itself; no lock |
| `storage.Page` | header words, item pointers, tuple bytes | `InitPage`, `AddTuple`, `GetTuple` | private copy of whoever read the page |
| `executor.Executor` | the XID, the snapshot and the loop variables of one statement | `SELECT`, `INSERT`, `UPDATE`, `DELETE`, `CREATE TABLE`, `DROP TABLE` | catalog, heap file, transaction manager |
| `catalog.Catalog` | map from names to table definitions; next OID, under a lock | `CreateTable`, `DropTable`, `GetTable` | shared by all connections; in memory only |
| message loop of `handleConnection` | the connection's `ConnTransaction` (state and XID) | `BEGIN`, `COMMIT`, `ROLLBACK`, parse error, statement, disconnect | one goroutine per connection |
| `Server.Start`, `Shutdown`, `main` | listener, context, connection counter, wait group | listen, accept, refuse, spawn, shut down | main goroutine, signal goroutine, handlers |
| `storage` tuple codec, `types` | none | encoding and decoding of values, text output | executor, message loop |
| `evalExpr` and helpers | none | evaluation of WHERE clauses and literals | executor |
| `parser`, `ast` | the tokens left to read | tokens to syntax tree | message loop |
| lexer | none | characters to tokens | parser |
| `protocol` | none | reading and writing messages | message loop |
| `cmd/loadtest` | each worker's connection, its deadline, the counters, the timer | connect, wait for ReadyForQuery, leave | the server, over TCP |

What is hard about it: connections run in parallel on unlocked heap files, so a
page can change between the read and the write of a read-modify-write, and
between two pages of a scan; transactions end at any point of another
statement's scan; error paths leave a statement half done; the main goroutine,
the signal goroutine and the handlers end in any order; and a restart forgets
the catalog and all outcomes but keeps the heap files.

What makes each part correct:

* transaction manager: an XID belongs to one transaction, outcomes are final,
  a new snapshot passes exactly the headers of committed data;
* heap file and executor: accesses stay inside the file, reported rows are
  stored, headers say who created and who deleted a tuple, scans end and do not
  meet their own writes;
* page: nothing is written over, accepted tuples fit;
* message loop: a transaction ends at most once, a failed one never commits;
* catalog: a table never shows rows of another one;
* server: counters are exact, no place among the connections is lost, a signal
  ends the process, a client that leaves is noticed;
* codec, types, expressions, parser: what was stored is read back, a condition
  selects what SQL says, a statement changes what was asked for or nothing;
* protocol: every query gets one answer, of the form its statement has;
* load test: it ends, and counts no more successes than there were.

`PROJECT.json` lists the hazards at their lines, with the properties that would
catch each one going wrong.

## 2. Modules

| Module | Models | Uses |
|---|---|---|
| `TxnManager` | `txn.go` | |
| `Heap` | `heap.go`, on pages that are sequences of tuples | |
| `Executor` | the four row statements of `executor.go`, step by step | `TxnManager`, `Heap` |
| `Session` | the message loop of `server.go`; the composed system | `Executor` |
| `TxnLifecycle` | abstract specification: what is promised about transactions | |
| `Page` | `page.go` and the placing of tuples, at the level of byte offsets | |
| `Catalog` | `catalog.go` | |
| `Restart` | tables, files and XIDs over several runs of the server | `Catalog`, `TxnManager` |
| `Server` | `Start`, the frame of `handleConnection`, `Shutdown`, `main.go` | |
| `LoadTest` | `cmd/loadtest/main.go`, composed with the server it measures | `Server` |
| `Types` | `types.go`: widths, narrowing, text output | |
| `TupleCodec` | `tuple.go`: null bitmap, fixed and variable-length values | `Types` |
| `Syntax` | the tokens of `lexer.go`, the trees of `ast.go` and the conditions of a given height | `Types` |
| `Parser` | `parser.go` on token sequences | `Syntax` |
| `Expressions` | literals and comparisons of `executor.go` | `Types` |
| `Evaluator` | `evalExpr`, by recursion on the height of a condition | `Expressions`, `Syntax` |
| `SQLValues` | reference definition: the SQL value of a literal or a stored one | `Syntax` |
| `SQLMeaning` | reference definition: three-valued logic on the tree of a condition and SQL values | `SQLValues` |
| `SQLReference` | reference definition: the same on the tokens of a query | `SQLMeaning` |
| `Query` | a query from its tokens to the messages that answer it, and its properties in SQL's terms; the parser is a parameter | `TxnManager`, `TupleCodec`, `Evaluator`, `SQLMeaning` |
| `QuerySQL` | `Query` with the parser and the reference on tokens | `Query`, `Parser`, `SQLReference` |
| `MCSession`, `MCPage`, `MCRestart`, `MCServer`, `MCQuery` | instances for TLC | |
| `SessionProofs`, `HeapProofs`, `PageProofs`, `RestartProofs`, `ServerProofs`, `CodecProofs`, `EvaluatorProofs`, `QueryProofs` | proofs | |

### Session, Executor, TxnManager, Heap

One table, any number of connections. `pc[c]` is where connection `c` is:

    closed -> idle -> open -> count -> page <-> item            (scan)
                              item -> hdrRead -> hdrWrite        (mark a row)
                              insCount -> insRead -> insWrite    (append a row)
                              commit -> ok | err -> idle

A step of the model is what the code does between two accesses to shared state:
one stat, one page read, one page write, one call of the transaction manager.
Everything else is local to the goroutine. In particular:

* `InsertTuple` is three steps (page count, last page, write) and
  `UpdateTupleHeader` two (read, write), on private copies. This is where
  connections race.
* `SetStatus`, `GetStatus` and `TakeSnapshot` hold the lock for their whole body
  and are atomic. `IsVisible` looks up two XIDs; since outcomes are final (which
  is checked and proved), its result is that of one atomic evaluation.
* `TakeSnapshot` collects XIDs whose recorded status is InProgress, as the code
  does. Nothing records that status, so `Xip` is always empty; this is a result
  (lemma `SnapshotOfNow`), not an assumption.
* Rows have no column values. Whether a WHERE clause holds of a visible row and
  whether decoding, evaluating, encoding or I/O fails are free choices. An error
  leaves through `FailPlain` (the paths that do not touch the transaction) or
  `FailAbort` (those that abort an autocommit XID).
* An error answer moves an open transaction to Failed (`Respond`, `ParseError`);
  a disconnect forgets it and records nothing.
* A CREATE TABLE or DROP TABLE on a connection, and a message of an unsupported
  type, change none of this state except that an error fails the transaction;
  they look like a SELECT that ends at once or like a `ParseError`.
* A page read or write is one atomic step. The operating system promises this
  for the page cache on common file systems; torn and short writes are left out.
* Pages and items are numbered from 1, in the code from 0.
* `UpdateTupleHeader` reads the page again and writes both header words, xmin as
  the scan has read it, over whatever tuple is in the slot by then. A tuple
  carries its `row`, with the XID of its real creator (`row.by`), beside the
  words, so that the two can be compared.

History variables record what no variable of the code holds: `acked` the rows
reported as stored, `marked` the pairs of row and XID for every header rewrite,
`raced` whether two read-modify-writes have ever overlapped. `raced` is about the
file, not about one page: an overlap on two different pages sets it too, which
makes the properties that ask for its absence slightly weaker than they could be.
`SeesLatestCommitted` is about header words and holds even after a race;
`NoDirtyRead`, `NoSelfUpdate` and `HeapIntactUnlessRaced` are about the rows
themselves and hold only while there was none.

### Page

`PageSize`, the header sizes and uint16 wrap-around are the code's. A page is
its header words and item pointers; `Layout` says that the regions they
describe are disjoint, which is what entitles `Heap` to treat a page as a
sequence of whole tuples. `RefuseTuple` and `InsertTuple` are the two outcomes
of the size check.

### Catalog and Restart

The server takes a statement's snapshot (`StartStatement`), the executor looks
the table up (`LookUp`, another lock) and then keeps the definition, a pointer in
the code, while other connections create and drop tables. A definition carries
the number of the CREATE TABLE that made it (`made`, history), as two pointers
differ even if name and OID agree. Heap files are named after OIDs. `RestartServer` may happen at any moment (main exits without waiting for
handlers): memory starts from nothing, files stay. A row records the table and
the run of the server it was inserted in, and `durable` the transactions that
really committed. The steps inside a heap file are `Session`'s; here a file is a
set of rows, which are inserted and read; DELETE and UPDATE are left out.

### Server

The main goroutine (`listen`, `accept`, `check`, and the two exits), the signal
goroutine (`wait`, `close`, `waitGroup`, `returned`) and one handler per
connection, with the deferred calls as steps of their own in the order Go runs
them. The listen queue, signals and the errors of `Accept` are external. A
handler is either reading or busy with a statement. When main returns, the
process is gone and nothing else can move.

### LoadTest

Composes with `Server`: some clients, the `Slots`, are connections of the load
test's workers, the others remain free to do as they please. A worker dials,
sends the startup message, waits for ReadyForQuery or its deadline, and leaves,
with Terminate if it was answered. The server may still be busy with a
connection the worker has given up. `Serve` is the part of the handler that
depends on what the client has sent: the handshake, and the read that finds
Terminate or the end of the stream. `ready` is a history variable. The goroutine
that prints statistics only reads counters and is left out.

### Query, and what it composes

One connection and one table name, so a whole query is one step; what happens
between the steps of concurrent statements is `Session`'s matter. In exchange
rows have values, and a query is a sequence of tokens that goes the whole way:
`ReceiveQuery` parses it, a handler of the message loop (`ParseError`,
`RejectFailed`, `BeginStatement`, `CommitStatement`, `RollbackStatement`,
`ExecuteStatement`, `InsertTupleFails`, `UnsupportedMessage`) answers it with messages, and
`ClientReads` takes them away.

* The parser is an operator parameter of `Query` (`ParseQuery`), and so is what
  SQL says of a query as it is written (`SQLHolds`). Both are recursive operators
  on tokens, about which nothing can be proved here; as parameters they stay out
  of the way of what follows from the trees of statements. The configurations
  put `Parse` and `Holds` in their places, so TLC runs the whole path.
  `QueryAssumption` asks of the parser that its trees have the fields the
  executor reads and conditions of at most `MaxHeight`; TLC evaluates it with
  `Parse`. How tokens and trees relate is one property, `ReadAsWritten`: wherever
  the reference on tokens has a verdict on a row, it is that of the reference on
  the parser's tree.
* The code evaluates a tree by recursion on the tree, `Evaluator` by recursion on
  its height: `Exprs[n]` is the set of conditions of height up to `n`, and the
  values of those of height `n` come from the values of height `n - 1`. A tree
  has a finite height, and `MaxHeight` is any number.
* `Types` takes the number of bits of a byte as a parameter, so that with small
  bytes every integer type wraps around within TLC's reach; `MantissaBits` does
  the same for float64, in which the code compares all numbers. Numbers are
  counted in halves, so that 7.5 is a number.
* `TupleCodec` writes and reads sequences of bytes, with the bounds checks of
  the code; its loops are recursive functions. A tuple also carries history: `want`, the literals given, and
  `inOrder`, whether it goes back to an INSERT in the table's column order.
* `Parser` is the recursive descent parser function by function; a parser is the
  record of the tokens, the place and the tree so far.
* `Scan` decodes every tuple before it asks whether it is visible, and stops at
  the first error, as the loops of the executor do. What a statement has marked
  or appended by then stays in the file. `InsertTupleFails` is an INSERT or UPDATE
  whose tuple the file does not take (too large, or an I/O error), after whatever
  rows the UPDATE had replaced by then.
* Visibility asks for a committed xmin, so a transaction does not see its own
  uncommitted writes: a SELECT after an INSERT in the same transaction does not
  show the row, and an UPDATE does not find it.
* `StoredValue`, in the reference, is what a column holds after it was given a
  literal. Integers out of range wrap around there as they do in the code, so the
  properties say that the wrapped value is stored, compared and shown alike, not
  that wrapping is right.
* `SQLMeaning` and `SQLReference` share with the code only tokens, tree nodes and
  type sizes. `SQLReference` reads a condition by splitting its tokens at the
  outermost OR, then AND. Numbers are mathematical numbers. No verdict (X) is
  given where SQL and this program differ by design or SQL has no answer; these
  cases are listed in section 3.
* `SelectsTheTrue` names columns by their places: nothing keeps a table from
  having two columns of one name, and `*` then shows both.

### TxnLifecycle

The abstract specification: transactions are started in order, may be active or
doomed, and end at most once, in `committed` or `aborted`; an abandoned one
belongs to no set and never gets an outcome. The refinement mapping of `Session`
(`Lifecycle`) reads the sets off the connections' states and the recorded
outcomes.

## 3. Runs

Passing runs:

| Run | Checks |
|---|---|
| `Session` | `TypeOK`, `XIDsExclusive`, `XIDStates`, `WithinFile`, `SeesLatestCommitted`, `StatusFinal`, and that `Session` implements `TxnLifecycle`; as long as no two read-modify-writes have overlapped, also that the heap is what the statements made it (`HeapIntactUnlessRaced`), that SELECTs collect only rows of committed creators (`NoDirtyRead`) and that nobody marks a row of its own transaction (`NoSelfUpdate`) |
| `SessionLive` | every statement is answered |
| `Page` | `PTypeOK`, `NoClobber`, `StoredInFull` |
| `Server` | module `LoadTest`: `STypeOK`, `CountersExact`, `NoSpuriousRefusal`, `ExitOnlyWhenSignalled`, `SuccessesServed`; a signal that finds the server listening ends it (`SignalEndsServer`), the load test ends (`LoadTestEnds`), and no handler outlives its client (`HandlersDrain`) |
| `Query` | `QTypeOK`; tuples decode to what was stored (`InOrderReadsBack`); the parser's trees mean what the tokens say (`ReadAsWritten`); a SELECT shows exactly the rows for which SQL says true (`SelectsTheTrue`); INSERT, UPDATE and DELETE change the rows of which SQL says the condition is true, and count them (`EffectsAsAsked`); a statement that fails, or that runs inside a transaction, changes nothing that others can see (`InvisibleUntilCommitted`); every answer ends with its one ReadyForQuery and before it has one of the sequences the server has for the statement (`AnswerWellFormed`) |
| `Restart` | `RTypeOK`; of the rows inserted in this run, a SELECT returns only those of the very CREATE TABLE it looked up (`ReadsOwnTable`) and only committed ones (`ReadsOwnRunCommitted`) |

Runs in which TLC finds that the code does not do what the repository says:

| Run | What the code does |
|---|---|
| `ColumnListMisread` | INSERT with a column list stores the values in the list's order, and scans decode them in the table's: another value, or an error of every later statement on the table (README Day 3) |
| `SnapshotMoves` | a transaction that commits during a statement becomes visible to the rest of it (README lines 182-183) |
| `TupleLost` | one of two overlapping page writes loses a row that was reported as stored (README line 99) |
| `DeleteUndone` | a second deleter overwrites xmax, and its abort revives a row whose deletion was committed, without any overlap of page writes (`tuple.go:14`) |
| `ExitDuringStatement` | the process exits in the middle of a statement (README line 49) |
| `AbortedReturns` | after a restart a reused XID makes rows visible whose transaction never committed (README line 151; that outcomes are kept in memory only, line 156 says itself) |

Related behaviour that the models contain but no run states as a property:

* a dirty read after a lost write, against README line 152 ("each statement sees
  latest committed data"): two INSERTs read the same page; the first writes it and
  commits; an UPDATE copies the page with the first one's tuple; the second INSERT
  writes its page, in which its own tuple has the same slot; the UPDATE then writes
  its header there, with the xmin of the first (`heap.go:121`), and fails, so that
  its xmax is aborted. The slot now looks like a committed row, and a SELECT
  collects it although the second INSERT is not finished. TLC finds this when
  `NoDirtyRead` is stated without `~raced` (four queries, one tuple per page, an
  empty table). In the same way an UPDATE can come to mark its own new version,
  which is why `NoSelfUpdate` asks for no overlap;
* a SELECT that finds no row is answered without a RowDescription, because
  `result.Rows` is then nil (`server.go:248`, `executor.go:118`), although README
  line 127 says "Return RowDescription + DataRow messages"; `AnswerWellFormed`
  admits it for a SELECT that counts no row;
* BEGIN in a failed transaction is accepted and opens a new one, although the
  repository's README (line 178) lets it accept only ROLLBACK; the failed XID
  never gets an outcome (`BeginStatement`, an abandoned transaction of
  `TxnLifecycle`). BEGIN inside a healthy transaction sends an error and then a
  completion, the one case of both that `AnswerWellFormed` admits;
* the text of a bytea value is always empty, because the error of `TextEncode` is
  dropped; `SelectsTheTrue` leaves bytea columns out;
* an oid column compares with nothing (`toFloat64` does not know uint32), two
  int8 values beyond 2^53 may compare as equal, and a comparison used as an
  operand turns unknown into false: `SQLMeaning` gives no verdict on these;
* tokens after a complete statement are ignored;
* UPDATE does not check NOT NULL, and neither does INSERT for omitted columns;
  nothing checks that a PRIMARY KEY is unique;
* a message of an unsupported type is answered with an error but does not fail
  an open transaction (`UnsupportedMessage`);
* the limit is compared with `activeConn` in the accept loop, and `activeConn` is
  increased later by the handler (`CheckLimit`, `CountIn`), so a burst of clients
  passes the limit (README line 50); `NoSpuriousRefusal` is the other direction;
* a signal handled before `Start` has set the listener closes nothing, and the
  server goes on (`CloseListener` with a nil listener), which is why
  `SignalEndsServer` asks for a listening server;
* too many open files is not a timeout for `net.Error`, so it ends the server,
  although the comment at `server.go:68` means it to be retried (`AcceptError`);
* OIDs start again at 16384 after a restart (`catalog.go:36`), so a new table takes
  over the file of an old one with its rows, although README line 107 says "One
  file per table"; this is why `ReadsOwnTable` is about the rows of this run;
* a late answer of the server, after the worker has given up, counts as a handshake
  completed (`ready`): `SuccessesServed` compares two numbers and does not match
  successes with connections.

Each property of a passing run has a mutant in `PROJECT.json`: a plausible slip
in the code (a forgotten reset, an off-by-one, a dropped check) under which TLC
finds that property violated.

### Bounds

* `Session`: two connections, three queries, two tuples per page, one preloaded
  row, so that one query can block out a scan of the other connection, a page
  can fill up and a second one be added, and a transaction (BEGIN, statement)
  can meet a statement of the other connection. The races need two connections
  and two statements.
* `SessionLive`: two queries and one tuple per page, so that insertions grow
  the file under a scan.
* `Page`: the real page size, six insertions, lengths that fill a page exactly
  in one, two or four tuples, leave a remainder, exceed the page by one byte or
  by the header, and wrap uint16.
* `Server`: a limit of one, one free client, and one worker with two connections
  and two attempts: the worker can be refused because of the client or because
  of the connection it gave up before, a late answer can meet the next attempt,
  and the signal can come at any moment. The bound on attempts does not cut the
  test short: the timer ends it.
* `Query`: bytes of two bits (int2 from -8 to 7, int4 to 127, int8 to 32767), a
  mantissa of 13 bits, so that 8192 and 8193 are the first integers a float64
  confuses. Two tables, of two and three columns (a NOT NULL column, text, bool,
  bytea), because the null bitmap then ends within a byte or spills over into a
  second one. Two XIDs drawn and up to four tuples, so that a statement can fail
  on a later row after changing an earlier one, a transaction can be committed
  or rolled back over rows of another, and a table can be dropped and created
  again. The queries have literals at and beyond the ends of the types, NULLs,
  empty strings, every operator, both groupings of AND and OR, unknown columns
  and types, and syntax errors. `MaxHeight` is 3, the height of the tallest of
  their conditions.
* `ColumnListMisread`: the same tables, three column lists.
* `Restart`: two names, two tables and two XIDs per run, one restart, two
  connections: one to keep a stale definition, one to read.

Symmetry is used where only invariants and step properties are checked; liveness
is checked without it.

### Fairness

* `FairSpec`: weak fairness of each connection's `Working` steps. A goroutine
  that handles a query holds no lock across steps and waits for nobody, so the
  Go scheduler runs it on. Nothing is assumed of clients.
* `LFairSpec`: of the server (`SFairness`) weak fairness of `Listen`, of `Accept`
  returning once the listener is closed, of the limit check, of the signal
  goroutine and of the short steps of handlers; accepting a waiting client is
  not fair, because it may fail instead. Weak fairness of the load test's timer,
  of its workers, which never wait longer than their deadline, and of handlers
  that have something to read on a load test's connection, the end of the stream
  included. Other clients and running statements owe nothing.

`CHECK_DEADLOCK FALSE` appears in the runs of `Server` only: the process exits.

## 4. Proofs

All theorems hold for every value of the constants that satisfies the named
assumptions `PageCapacityAssumption`, `SessionAssumption`, `PageAssumption`,
`RestartAssumption`, `ServerAssumption`, `LoadTestAssumption`,
`WidthAssumption`, `HeightAssumption` and `QueryAssumption`.

* `SessionProofs`. The inductive invariant is
  `Inv == TypeOK /\ XIDStates /\ XIDsExclusive /\ WithinFile`. No conjunct is
  inductive alone: exclusiveness of XIDs needs to know which copies of an XID a
  connection keeps in which state (`XIDStates`), typing of the heap needs the
  page numbers to be in range (`WithinFile`), and those depend on what the
  statement is doing. `Frame` reduces the proof to the one connection that
  moves; one lemma per action does the rest. Theorems: `TypeCorrect`,
  `XIDsInTheirPlaces`, `XIDsAreExclusive`, `StaysWithinFile`.
  From `Inv`, an outcome is only recorded for an XID somebody holds, and held
  XIDs have none yet: `OutcomesAreFinal`. Finality and the empty `Xip` give
  `ReadCommitted` (a snapshot taken now passes exactly the tuples whose header
  words name a committed creator and no committed deleter). `OnlyCommitted` says
  of the words that scans have passed that their xmin is committed; `HeapProofs`
  uses it.
  `LifecycleImplemented`: `Session` implements `TxnLifecycle`. A step changes the
  contribution of one connection to the mapped sets (`LocalChange`), and
  contributions of different connections are disjoint because held XIDs are;
  each action is then one of five kinds of step (`Silent`, `Start`, `LetGo`,
  `Fail`, nothing).
* `HeapProofs`. `HeapStaysIntact`: as long as `raced` is false, every reported
  row is in the file once and headers are true. The counting in
  `HeapIntactUnlessRaced` is replaced by `StoredOnce` (rows and places correspond
  one to one), from which it follows by an injection. The inductive invariant
  `HInv` holds while nothing has raced and needs, beside `Inv`: `OneWindow` (at
  most one connection is between a read and a write of the file, or the next
  write would set `raced`); `BufOf` (what it is about to write is the page as it
  is now, with its own change, the only reason its write loses nothing); `CopyOf`
  (the copy a scan holds may be stale, but others only append tuples and change
  `xmax`, so the row and xmin that the scan puts back are those on the page);
  `HeadersTrue`; and `Numbered` (the number of a new row is not yet in use by its
  transaction). `ReadsAreClean` and `NobodyMarksItsOwn` combine the two: by
  `OnlyCommitted` the xmin word a scan passed is committed, and while nothing has
  raced the word names the creator of the tuple in the slot, in the scan's copy
  and in the file (`CreatorsTrue`), so no SELECT has collected, and no UPDATE or
  DELETE has marked, a row of an unfinished transaction, and its own is one.
  After a race both can be false: see section 3. TLC has checked `HInv` on the instance of the run `Session`.
* `PageProofs`. `PageTypeCorrect`, `PageNeverClobbered` and `InsertStoresInFull`, for every page
  size below 2^16 and every set of lengths. The invariant keeps `lower` below
  `upper`, which is what makes the uint16 subtraction in `FreeSpace` exact.
* `RestartProofs`. `TablesStayApart`: within a run, an OID in use by the
  catalog, by a statement or by a row of this run stands for one definition
  (`OIDsUnique`), the one of a single CREATE TABLE, and new OIDs are above all of
  them. `RestartTypeCorrect`: the XIDs that are held or decided were drawn in this
  run, an INSERT about to end has one, and the definition of a statement at work
  has an OID of this run. That an INSERT has an XID is what makes a commit keep
  `statuses` typed; that the OIDs in the catalog lie below the next one comes from
  `OIDsUnique`, proved with `TablesStayApart`.
  `ReadsCommittedRows`: an outcome recorded in this run is durable
  (`OutcomesOfRun`), and a row of this run that a scan sees has an XID whose
  outcome is recorded in this run. This is the half of the visibility rule that
  survives restarts; `AbortedReturns` shows the half that does not.
* `ServerProofs`. A step moves one connection from one set of states to another
  (`MoveCount`), and changes the counters as the move demands
  (`MoveKeepsCounters`): `ServerTypeCorrect`, `CountersAreExact`, and from them
  `NoRefusalIsSpurious`. `ExitsOnlyWhenSignalled` needs that only the signal
  goroutine cancels the context. `CompositionIsServer`: every step of the
  composition with the load test is a step of the server or leaves it alone, so
  these theorems hold of the composition, which the run checks.
  `SuccessesAreServed` needs to count the answers that a worker has yet to read
  (`AnswersBackSuccesses`), and that no two workers share a connection.

* `CodecProofs`. `CodecRoundTrip`: a row of values that the column types hold
  comes back from its tuple value by value, for every list of columns and every
  width of a byte. `DecodedRowIsTyped`: whatever the bytes, a row decoded
  without an error has a value of its type for each column, so that an UPDATE
  can encode it again. The codec recurs over columns, bytes and bits. The
  library's induction theorems cannot be applied here, so each recursive
  function gets a lemma that it exists and satisfies its equation, and inductions
  go by the least number of the set of counterexamples. The heart is that the
  decoder, after `n` columns, stands where the encoder stood after `n` columns.
  A string has to be shorter than the length word can count, as the text of a
  query is, whose own length is a word of the same size.
* `EvaluatorProofs`. `EvaluatorAgrees`: for a row of Go values that stands for a
  row of SQL values (`RowDenotes`) and a condition of any height, `evalExpr`
  succeeds wherever SQL has a verdict, and is true exactly when the verdict is
  true. The code has no unknown: a comparison with NULL is false. What makes this
  right is that no operator turns false into true, so false and unknown need not
  be told apart; the induction over the height carries exactly that (`Agrees`).
  The comparisons are compared case by case, numbers through `toFloat64`, which
  is exact up to 2^`MantissaBits`, and strings through the order on bytes.
* `QueryProofs`. The theorems hold for every parser that satisfies
  `QueryAssumption`. The inductive invariant `QInv` says:
  outcomes belong to XIDs that were drawn and the connection's XID has none
  (`StatusesOK`, `ConnOK`); tuples are typed, carry drawn XIDs and a literal for
  each column, and an `inOrder` one decodes to the values of its literals
  (`HeapOK`). The last part is what makes an UPDATE preserve it: the new tuple
  encodes a decoded row in which some columns are replaced, so it reads back only
  because the old one did and because every decoded value is one that encoding
  keeps. From it: `QueryTypeCorrect` and `RowsReadBack`. `AnswersAreWellFormed` is
  about the sequences of messages, tag and counts of each handler. For
  `NothingUncommittedShows`, a statement only marks tuples it sees and only
  appends tuples under its own XID (`Keeps`), and an XID without an outcome
  changes the visibility of neither (`CommittedXIDs`), however far the scan came
  before an error. TLC has checked `QInv` on the instance of the run `Query`.

  `SelectFindsTheTrue` and `StatementsActAsAsked` (the properties `SelectsTheTrue`
  and `EffectsAsAsked`) have `[]ReadAsWritten` as a hypothesis: they say that
  nothing is lost between the tree of a statement and its answer or its effect,
  if the parser reads conditions as they are written. The run `Query` checks the
  hypothesis with the code's parser. From `HeapOK` a tuple decodes to Go values
  that stand for its SQL row (`TupleDenoted`), so by `EvaluatorAgrees` a scan ends
  without an error and finds the places of the rows SQL selects (`ScanSelects`);
  the k-th of them is the k-th DataRow (`RankPlace`, `RowsInAnswer`). A statement
  that commits makes its new tuples visible and hides those it has marked, and
  touches no other (`RowsAfter`); `DeleteActs`, `InsertActs` and `UpdateActs` say
  which tuples these are. The first attempt at `SelectFindsTheTrue` failed because
  `SelectsTheTrue` then spoke of column names: see section 2.

Only model-checked: `ReadAsWritten`, which compares two recursive operators on
tokens, and the liveness properties (`StatementCompletes`, `SignalEndsServer`,
`LoadTestEnds`, `HandlersDrain`); both are beyond this prover.

## 5. Not modelled

* The lexer: a pure function from characters to tokens. The model starts from
  its tokens and has its token types and keywords.
* float4 and float8 columns (the bits of a float), and `TextDecode`, which
  nothing calls.
* The bytes of messages and their length words, startup parameters, and the
  refusal of SSL; which messages are sent, in which order and with what contents
  is modelled.
* In `Query`, I/O errors other than those of `InsertTuple` (page reads, header
  writes, opening the file): `Executor` has them all (`FailPlain`, `FailAbort`).
* In `Restart`, DELETE and UPDATE: that a restart can undo a committed deletion,
  because the XID in xmax is in progress again until it is reused, follows from
  the same reset of `statuses` but no run shows it.
* Concurrent statements with column values: `Session` has the interleavings and
  `Query` the values. They share `TxnManager`.
* Decoding a file with another table's columns after a restart: `Restart` has
  tables without columns.
* Crashes in the middle of a page write, and durability of the page cache: the
  code has no fsync and no log, and the repository lists both as future work.
* The load test's printing of statistics.

## 6. Plan

Done: the core (transactions, heap, executor, message loop), page layout,
server life cycle with the load test, catalog and restart, and the path of a
query from tokens to messages. Proved: every invariant and step property of the
passing runs except `ReadAsWritten`. Left: first-updater-wins for two UPDATEs of
a row, once the code has row locks.
