------------------------------ MODULE Session -------------------------------
(***************************************************************************)
(* internal/server/server.go, handleConnection's message loop: the         *)
(* transaction state of every connection, and the statements it hands to   *)
(* the executor.  This is the composition of TxnManager, Heap and Executor *)
(* that the transaction properties are about.                              *)
(***************************************************************************)
EXTENDS Executor

CONSTANTS
    Preloaded,    \* rows stored by earlier, committed autocommit INSERTs
    MaxQueries    \* bound: the number of queries the clients send

ASSUME SessionAssumption ==
    /\ Preloaded \in 0 .. PageCapacity
    /\ MaxQueries \in Nat

VARIABLES
    connTxn,      \* the connection's ConnTransaction: State and XID
    queries       \* the number of queries received so far

vars == <<nextXID, statuses, heap, pc, stmt, snap, xid, autoCommit, scan, buf,
          rows, acked, marked, raced, connTxn, queries>>

\* What handling BEGIN, COMMIT, ROLLBACK or a parse error leaves alone.
executorVars == <<heap, stmt, snap, xid, autoCommit, scan, buf, rows, history>>

TxnStates == {"Idle", "InTransaction", "Failed"}

NoTxn == [State |-> "Idle", XID |-> 0]

-----------------------------------------------------------------------------
\* The table holds Preloaded rows, inserted one by one by XIDs 1, 2, ...
PreloadedPage ==
    [i \in 1 .. Preloaded |->
        [xmin |-> i, xmax |-> 0, row |-> [by |-> i, n |-> 1]]]

Init ==
    /\ nextXID = Preloaded
    /\ statuses = [x \in 1 .. Preloaded |-> Committed]
    /\ heap = IF Preloaded = 0 THEN <<>> ELSE <<PreloadedPage>>
    /\ pc = [c \in Conns |-> "closed"]
    /\ stmt = [c \in Conns |-> "SELECT"]
    /\ snap = [c \in Conns |-> NoSnapshot]
    /\ xid = [c \in Conns |-> 0]
    /\ autoCommit = [c \in Conns |-> FALSE]
    /\ scan = [c \in Conns |-> NoScan]
    /\ buf = [c \in Conns |-> NoBuf]
    /\ rows = [c \in Conns |-> {}]
    /\ acked = {[by |-> i, n |-> 1] : i \in 1 .. Preloaded}
    /\ marked = {}
    /\ raced = FALSE
    /\ connTxn = [c \in Conns |-> NoTxn]
    /\ queries = 0

-----------------------------------------------------------------------------
\* The handshake has succeeded: the message loop starts with no transaction.
Connect(c) ==
    /\ pc[c] = "closed"
    /\ Goto(c, "idle")
    /\ connTxn' = [connTxn EXCEPT ![c] = NoTxn]
    /\ UNCHANGED <<nextXID, statuses, executorVars, queries>>

\* Terminate, a failed read, or a panic recovered at the connection boundary:
\* the handler returns and does nothing about an open transaction.
Disconnect(c) ==
    /\ pc[c] = "idle"
    /\ Goto(c, "closed")
    /\ connTxn' = [connTxn EXCEPT ![c] = NoTxn]
    /\ UNCHANGED <<nextXID, statuses, executorVars, queries>>

Receive(c) ==
    /\ pc[c] = "idle"
    /\ queries < MaxQueries
    /\ queries' = queries + 1

\* An error while a transaction is open makes it a failed one.
FailTxn(c) ==
    connTxn' = [connTxn EXCEPT ![c].State =
                    IF @ = "InTransaction" THEN "Failed" ELSE @]

ParseError(c) ==
    /\ Receive(c)
    /\ FailTxn(c)
    /\ UNCHANGED <<pc, nextXID, statuses, executorVars>>

\* BEGIN inside a transaction is answered with a warning and changes nothing.
\* In every other state, the failed one included, it opens a new transaction.
BeginStatement(c) ==
    /\ Receive(c)
    /\ IF connTxn[c].State = "InTransaction"
       THEN UNCHANGED <<nextXID, connTxn>>
       ELSE /\ nextXID' = NextXID
            /\ connTxn' = [connTxn EXCEPT ![c] =
                              [State |-> "InTransaction", XID |-> NextXID]]
    /\ UNCHANGED <<pc, statuses, executorVars>>

\* Mutant: COMMIT forgets to reset the connection's XID.
CommitKeepsXID(c) ==
    /\ Receive(c)
    /\ CASE connTxn[c].State = "InTransaction" -> CommitXID(connTxn[c].XID)
         [] connTxn[c].State = "Failed"        -> AbortXID(connTxn[c].XID)
         [] OTHER                              -> UNCHANGED statuses
    /\ connTxn' = [connTxn EXCEPT ![c].State = "Idle"]
    /\ UNCHANGED <<pc, nextXID, executorVars>>

\* Mutant: COMMIT does not look whether the transaction has failed.
CommitFailedToo(c) ==
    /\ Receive(c)
    /\ IF connTxn[c].State # "Idle" THEN CommitXID(connTxn[c].XID)
                                    ELSE UNCHANGED statuses
    /\ connTxn' = [connTxn EXCEPT ![c] = NoTxn]
    /\ UNCHANGED <<pc, nextXID, executorVars>>

\* COMMIT of a failed transaction aborts it.
CommitStatement(c) ==
    /\ Receive(c)
    /\ CASE connTxn[c].State = "InTransaction" -> CommitXID(connTxn[c].XID)
         [] connTxn[c].State = "Failed"        -> AbortXID(connTxn[c].XID)
         [] OTHER                              -> UNCHANGED statuses
    /\ connTxn' = [connTxn EXCEPT ![c] = NoTxn]
    /\ UNCHANGED <<pc, nextXID, executorVars>>

\* Mutant: ROLLBACK forgets to reset the connection's XID.
RollbackKeepsXID(c) ==
    /\ Receive(c)
    /\ IF connTxn[c].State \in {"InTransaction", "Failed"}
       THEN AbortXID(connTxn[c].XID)
       ELSE UNCHANGED statuses
    /\ connTxn' = [connTxn EXCEPT ![c].State = "Idle"]
    /\ UNCHANGED <<pc, nextXID, executorVars>>

RollbackStatement(c) ==
    /\ Receive(c)
    /\ IF connTxn[c].State \in {"InTransaction", "Failed"}
       THEN AbortXID(connTxn[c].XID)
       ELSE UNCHANGED statuses
    /\ connTxn' = [connTxn EXCEPT ![c] = NoTxn]
    /\ UNCHANGED <<pc, nextXID, executorVars>>

\* Any other statement in a failed transaction is refused.
RejectFailed(c) ==
    /\ Receive(c)
    /\ connTxn[c].State = "Failed"
    /\ UNCHANGED <<pc, nextXID, statuses, executorVars, connTxn>>

\* The snapshot is taken before the executor exists, and so before an
\* autocommit statement draws its XID.
StartStatement(c, op) ==
    /\ Receive(c)
    /\ connTxn[c].State # "Failed"
    /\ snap' = [snap EXCEPT ![c] = TakeSnapshot]
    /\ stmt' = [stmt EXCEPT ![c] = op]
    /\ xid' = [xid EXCEPT ![c] = connTxn[c].XID]
    /\ Goto(c, "open")
    /\ UNCHANGED <<nextXID, statuses, heap, autoCommit, scan, buf, rows,
                   history, connTxn>>

\* The result or the error goes to the client and the loop continues.
Respond(c) ==
    /\ pc[c] \in {"ok", "err"}
    /\ Goto(c, "idle")
    /\ IF pc[c] = "err" THEN FailTxn(c) ELSE UNCHANGED connTxn
    /\ rows' = [rows EXCEPT ![c] = {}]
    /\ stmt' = [stmt EXCEPT ![c] = "SELECT"]
    /\ snap' = [snap EXCEPT ![c] = NoSnapshot]
    /\ UNCHANGED <<nextXID, statuses, heap, xid, autoCommit, scan, buf,
                   history, queries>>

\* A step of the goroutine that is already handling a query.
Working(c) == (Execute(c) /\ UNCHANGED <<connTxn, queries>>) \/ Respond(c)

Next ==
    \E c \in Conns :
        \/ Connect(c) \/ Disconnect(c)
        \/ ParseError(c) \/ RejectFailed(c)
        \/ BeginStatement(c) \/ CommitStatement(c) \/ RollbackStatement(c)
        \/ \E op \in Ops : StartStatement(c, op)
        \/ Working(c)

Spec == Init /\ [][Next]_vars

\* A goroutine that handles a query takes no lock across a step and waits for
\* nobody, so the Go scheduler lets it go on.  Clients owe nothing.
FairSpec == Spec /\ \A c \in Conns : WF_vars(Working(c))

-----------------------------------------------------------------------------
(***************************************************************************)
(* Invariants.                                                             *)
(***************************************************************************)

ScanStates == [pageCount : Nat, pageNum : Nat, itemIdx : Nat, page : Seq(Tuples)]
Buffers    == [num : Nat, page : Seq(Tuples)]

TypeOK ==
    /\ nextXID \in Nat
    /\ statuses \in [DOMAIN statuses -> {Committed, Aborted}]
    /\ heap \in Seq(Seq(Tuples))
    /\ pc \in [Conns -> Locations]
    /\ stmt \in [Conns -> Ops]
    /\ snap \in [Conns -> Snapshots]
    /\ xid \in [Conns -> Nat]
    /\ autoCommit \in [Conns -> BOOLEAN]
    /\ scan \in [Conns -> ScanStates]
    /\ buf \in [Conns -> Buffers]
    /\ rows \in [Conns -> SUBSET Tuples]
    /\ acked \subseteq Rows /\ IsFiniteSet(acked)
    /\ marked \subseteq Rows \X XIDs
    /\ raced \in BOOLEAN
    /\ connTxn \in [Conns -> [State : TxnStates, XID : Nat]]
    /\ queries \in 0 .. MaxQueries

\* The XIDs under which the connection can still write or end a transaction.
Held(c) == {connTxn[c].XID, xid[c]} \ {0}

\* No two connections ever hold the same XID, and an XID that is held has been
\* handed out and has no outcome yet: no code path gives one transaction to two
\* writers, or goes on writing under an XID that is already decided.
XIDsExclusive ==
    /\ \A c \in Conns : Held(c) \subseteq 1 .. nextXID \ DOMAIN statuses
    /\ \A c, d \in Conns : c # d => Held(c) \cap Held(d) = {}

\* How the copies of an XID that one connection keeps hang together, with the
\* state of its transaction and with what its goroutine is doing: a transaction
\* block and an autocommit statement never mix, a failed transaction executes
\* nothing, and whatever writes to the heap has an XID.
XIDStateOf(c) ==
    /\ connTxn[c].State = "Idle" <=> connTxn[c].XID = 0
    /\ xid[c] # 0 => pc[c] \in Running
    /\ autoCommit[c] => connTxn[c].XID = 0 /\ xid[c] # 0
    /\ ~autoCommit[c] => xid[c] \in {0, connTxn[c].XID}
    /\ pc[c] = "open" => ~autoCommit[c]
    /\ pc[c] \in Running => connTxn[c].State # "Failed"
    /\ pc[c] \in Running /\ connTxn[c].XID # 0 => xid[c] = connTxn[c].XID
    /\ pc[c] \in Running \ {"open"} /\ stmt[c] # "SELECT" => xid[c] # 0
    /\ pc[c] \in Headers => stmt[c] \in {"UPDATE", "DELETE"}
    /\ pc[c] \in Inserts => stmt[c] \in {"INSERT", "UPDATE"}
    /\ pc[c] \in Scans => stmt[c] \in Scanning

XIDStates ==
    /\ DOMAIN statuses \subseteq 1 .. nextXID
    /\ \A c \in Conns : XIDStateOf(c)

\* Whatever other connections write meanwhile, a scan or a read-modify-write
\* only touches pages the file has and items its own copy of the page has; a
\* write extends the file by at most the next page, never leaving a hole.
WithinFileOf(c) ==
    /\ scan[c].pageCount <= Len(heap)
    /\ pc[c] = "page" => scan[c].pageNum >= 1
    /\ \/ pc[c] \in {"item"} \cup Headers
       \/ pc[c] \in Inserts /\ stmt[c] = "UPDATE"
       => scan[c].pageNum \in 1 .. scan[c].pageCount /\ scan[c].itemIdx >= 1
    /\ pc[c] \in Headers => scan[c].itemIdx <= Len(scan[c].page)
    /\ pc[c] \in {"hdrWrite", "insRead"} => buf[c].num \in 1 .. Len(heap)
    /\ pc[c] = "hdrWrite" => scan[c].itemIdx <= Len(buf[c].page)
    /\ pc[c] = "insWrite" => /\ buf[c].num \in 1 .. Len(heap) + 1
                             /\ Len(buf[c].page) >= 1

WithinFile == \A c \in Conns : WithinFileOf(c)

\* While no two read-modify-writes have overlapped, every row a SELECT collects
\* was created by a committed transaction, although the scan reads copies of
\* pages on which others mark and append meanwhile.  This is about the row's
\* creator, not about the xmin word of the tuple: a header rewrite puts the xmin
\* that its scan has read over the word of whatever tuple is in the slot by then,
\* which after a lost write can be the tuple of an unfinished transaction.
NoDirtyRead ==
    ~raced => \A c \in Conns : \A t \in rows[c] : GetStatus(t.row.by) = Committed

\* While no two read-modify-writes have overlapped, no UPDATE or DELETE marks a
\* row of its own transaction: neither a version that the same UPDATE has just
\* appended to a page its scan has yet to reach, nor a row of an earlier
\* statement of the transaction.  marked holds the rows UpdateTupleHeader really
\* rewrote, on the page it reads again, not the ones the scan's copy shows.
NoSelfUpdate ==
    ~raced => \A m \in marked : m[1].by # m[2]

\* The places of the heap, and the tuple at each.
Slots == UNION {{<<p, i>> : i \in 1 .. Len(heap[p])} : p \in 1 .. Len(heap)}
At(s) == heap[s[1]][s[2]]

\* While no two read-modify-writes of a page have overlapped, the heap is what
\* the statements made it: every row whose insertion was reported is stored
\* exactly once and under its creator's XID, and a tuple has an xmax just when
\* the row was marked, by a transaction that marked it.
HeapIntactUnlessRaced ==
    ~raced =>
        /\ \A r \in acked : Cardinality({s \in Slots : At(s).row = r}) = 1
        /\ \A s \in Slots :
            /\ At(s).xmin = At(s).row.by
            /\ IF At(s).xmax = 0
               THEN \A m \in marked : m[1] # At(s).row
               ELSE <<At(s).row, At(s).xmax>> \in marked

\* READ COMMITTED, of the header words: in every state, a snapshot taken now
\* passes exactly the tuples whose xmin word names a committed transaction and
\* whose xmax word names none.  The snapshot's bounds neither hide a committed
\* XID nor let an unfinished one through.  Whether the words are true is the
\* subject of HeapIntactUnlessRaced and CommittedDeleteStays.
SeesLatestCommitted ==
    \A s \in Slots :
        IsVisible(At(s).xmin, At(s).xmax, TakeSnapshot)
            <=> /\ GetStatus(At(s).xmin) = Committed
                /\ At(s).xmax # 0 => GetStatus(At(s).xmax) # Committed

-----------------------------------------------------------------------------
(***************************************************************************)
(* Action properties, the abstract specification and liveness.             *)
(***************************************************************************)

\* The outcome recorded for an XID is never changed or forgotten: what one
\* visibility check has seen of a transaction holds for all later ones.
StatusFinal ==
    [][\A x \in DOMAIN statuses :
          x \in DOMAIN statuses' /\ statuses'[x] = statuses[x]]_vars

\* XIDs a connection may still commit, and those of failed transactions.
Active == {connTxn[c].XID : c \in {d \in Conns : connTxn[d].State = "InTransaction"}}
            \cup {xid[c] : c \in {d \in Conns : autoCommit[d]}}
Doomed == {connTxn[c].XID : c \in {d \in Conns : connTxn[d].State = "Failed"}}

Ended(status) == {x \in DOMAIN statuses : statuses[x] = status}

Lifecycle == INSTANCE TxnLifecycle
    WITH last <- nextXID, active <- Active, doomed <- Doomed,
         committed <- Ended(Committed), aborted <- Ended(Aborted)

\* The connections, executors and the transaction manager together implement
\* the transaction life cycle: in particular a transaction that met an error
\* never commits, and one that was abandoned never gets an outcome.
ImplementsLifecycle == Lifecycle!LSpec

\* Every statement that starts is answered, however often other connections
\* change the pages its scan visits.
StatementCompletes ==
    \A c \in Conns : pc[c] = "open" ~> pc[c] = "idle"

-----------------------------------------------------------------------------
(***************************************************************************)
(* What comments and the README say, and the code does not do.             *)
(***************************************************************************)

\* README 5.2: the statement's snapshot decides all its visibility checks.  So
\* no verdict on a transaction changes while the statement runs.
SnapshotStable ==
    [][\A c \in Conns :
          pc[c] \in Running /\ pc'[c] \in Running =>
              \A x \in 1 .. nextXID :
                  isXIDCommitted(x, snap[c]) = isXIDCommitted(x, snap[c])']_vars

\* README Day 3: what an INSERT or UPDATE has reported as stored can be read
\* back from the heap file.
NoTupleLost == \A r \in acked : \E s \in Slots : At(s).row = r

\* TupleHeader.Xmax is the XID of the transaction that deleted the tuple.  So a
\* row deleted or replaced by a committed transaction stays deleted, at least
\* while no two page writes have raced.
CommittedDeleteStays ==
    ~raced =>
        \A m \in marked : \A s \in Slots :
            GetStatus(m[2]) = Committed /\ At(s).row = m[1] =>
                GetStatus(At(s).xmax) = Committed
=============================================================================
