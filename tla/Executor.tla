------------------------------ MODULE Executor ------------------------------
(***************************************************************************)
(* internal/executor/executor.go: SELECT, INSERT, UPDATE and DELETE of one *)
(* connection, as the steps between which other connections can run.       *)
(*                                                                         *)
(* Rows carry no column values.  Whether a WHERE clause selects a row, and *)
(* whether evaluating, decoding, encoding or an I/O call fails, is a free  *)
(* choice of the step: a row can hold anything, so every pattern of        *)
(* matches is that of some clause.  What a tuple version holds is its row: *)
(* the XID that encoded it and a number that tells that XID's rows apart.  *)
(***************************************************************************)
EXTENDS TxnManager, Heap

CONSTANT Conns   \* the connections, each served by a goroutine of its own

VARIABLES
    pc,          \* where the connection's goroutine is
    stmt,        \* the kind of statement it executes
    snap,        \* the statement's snapshot
    xid,         \* the executor's XID; 0 while none has been drawn
    autoCommit,  \* whether the statement ends its own transaction
    scan,        \* the sequential scan: pages counted, position, page copy
    buf,         \* the page a read-modify-write is about to write back
    rows,        \* the tuples a SELECT has collected
    acked,       \* history: the rows InsertTuple has reported as stored
    marked,      \* history: <<row, XID>> for every UpdateTupleHeader done
    raced        \* history: two read-modify-writes have overlapped

execLocals == <<stmt, snap, xid, autoCommit>>
history    == <<acked, marked, raced>>

Ops      == {"SELECT", "INSERT", "UPDATE", "DELETE"}
Scanning == {"SELECT", "UPDATE", "DELETE"}

Scans   == {"count", "page", "item"}              \* inside the scan loops
Headers == {"hdrRead", "hdrWrite"}                \* UpdateTupleHeader
Inserts == {"insCount", "insRead", "insWrite"}    \* InsertTuple
Running == {"open", "commit"} \cup Scans \cup Headers \cup Inserts
Locations == {"closed", "idle", "ok", "err"} \cup Running

\* Between the read and the write of a page, or of the page count.
Window == {"hdrWrite", "insRead", "insWrite"}

Rows   == [by : XIDs, n : XIDs]
Tuples == [xmin : XIDs, xmax : Nat, row : Rows]

NoSnapshot == [Xmin |-> 1, Xmax |-> 1, Xip |-> {}]
NoScan     == [pageCount |-> 0, pageNum |-> 0, itemIdx |-> 0, page |-> <<>>]
NoBuf      == [num |-> 0, page |-> <<>>]

Goto(c, l) == pc' = [pc EXCEPT ![c] = l]

OpenWindow(c) ==
    raced' = (raced \/ \E d \in Conns \ {c} : pc[d] \in Window)

-----------------------------------------------------------------------------
\* Mutant: the statement runs in autocommit mode without an XID.
getAutoCommitWithoutXID(c) ==
    /\ autoCommit' = [autoCommit EXCEPT ![c] = (xid[c] = 0)]
    /\ UNCHANGED <<nextXID, xid>>

getAutoCommitWithXID(c) ==
    /\ autoCommit' = [autoCommit EXCEPT ![c] = (xid[c] = 0)]
    /\ IF xid[c] = 0
       THEN nextXID' = NextXID /\ xid' = [xid EXCEPT ![c] = NextXID]
       ELSE UNCHANGED <<nextXID, xid>>

\* The table is found, the statement's columns and literals are valid and the
\* heap file opens.  A SELECT draws no XID.
OpenTable(c) ==
    /\ pc[c] = "open"
    /\ Goto(c, IF stmt[c] \in Scanning THEN "count" ELSE "insCount")
    /\ IF stmt[c] = "SELECT"
       THEN UNCHANGED <<nextXID, xid, autoCommit>>
       ELSE getAutoCommitWithXID(c)
    /\ UNCHANGED <<statuses, heap, stmt, snap, scan, buf, rows, history>>

\* Mutant: the page loop's bound is inclusive.
CountPagesInclusive(c) ==
    /\ pc[c] = "count"
    /\ scan' = [scan EXCEPT ![c] = [NoScan EXCEPT !.pageCount = PageCount + 1,
                                                  !.pageNum = 1]]
    /\ Goto(c, "page")
    /\ UNCHANGED <<nextXID, statuses, heap, execLocals, buf, rows, history>>

\* The scan's bound is read once: pages added later are not visited.
CountPages(c) ==
    /\ pc[c] = "count"
    /\ scan' = [scan EXCEPT ![c] = [NoScan EXCEPT !.pageCount = PageCount,
                                                  !.pageNum = 1]]
    /\ Goto(c, "page")
    /\ UNCHANGED <<nextXID, statuses, heap, execLocals, buf, rows, history>>

ScanPage(c) ==
    /\ pc[c] = "page"
    /\ scan[c].pageNum <= scan[c].pageCount
    /\ scan' = [scan EXCEPT ![c].page = ReadPage(scan[c].pageNum),
                            ![c].itemIdx = 1]
    /\ Goto(c, "item")
    /\ UNCHANGED <<nextXID, statuses, heap, execLocals, buf, rows, history>>

ScanEnd(c) ==
    /\ pc[c] = "page"
    /\ scan[c].pageNum > scan[c].pageCount
    /\ scan' = [scan EXCEPT ![c] = NoScan]
    /\ Goto(c, "commit")
    /\ UNCHANGED <<nextXID, statuses, heap, execLocals, buf, rows, history>>

-----------------------------------------------------------------------------
\* The item the scan is at, as it was when its page was read.
Item(c) == scan[c].page[scan[c].itemIdx]

AtItem(c) == pc[c] = "item" /\ scan[c].itemIdx <= Len(scan[c].page)

\* Mutant: the loop's continue forgets to advance the item index.
StuckItem(c) == scan' = scan

NextItem(c) == scan' = [scan EXCEPT ![c].itemIdx = @ + 1]

\* The item is not visible, or the WHERE clause is not true of it.
SkipItem(c) ==
    /\ AtItem(c)
    /\ NextItem(c)
    /\ UNCHANGED <<pc, nextXID, statuses, heap, execLocals, buf, rows, history>>

\* A visible item that satisfies the WHERE clause: SELECT keeps the row,
\* UPDATE and DELETE go on to mark it.
MatchItem(c) ==
    /\ AtItem(c)
    /\ IsVisible(Item(c).xmin, Item(c).xmax, snap[c])
    /\ IF stmt[c] = "SELECT"
       THEN /\ rows' = [rows EXCEPT ![c] = @ \cup {Item(c)}]
            /\ NextItem(c)
            /\ UNCHANGED pc
       ELSE Goto(c, "hdrRead") /\ UNCHANGED <<rows, scan>>
    /\ UNCHANGED <<nextXID, statuses, heap, execLocals, buf, history>>

PageDone(c) ==
    /\ pc[c] = "item"
    /\ scan[c].itemIdx > Len(scan[c].page)
    /\ scan' = [scan EXCEPT ![c].pageNum = @ + 1, ![c].itemIdx = 0,
                            ![c].page = <<>>]
    /\ Goto(c, "page")
    /\ UNCHANGED <<nextXID, statuses, heap, execLocals, buf, rows, history>>

-----------------------------------------------------------------------------
\* The header that marks the item: xmin as the scan read it, xmax = xid.
MarkedHeader(c) == [xmin |-> Item(c).xmin, xmax |-> xid[c]]

\* UpdateTupleHeader reads the page again, and patches its copy.
HeaderRead(c) ==
    LET page == ReadPage(scan[c].pageNum)
    IN  /\ pc[c] = "hdrRead"
        /\ scan[c].itemIdx <= Len(page)
        /\ buf' = [buf EXCEPT ![c] =
                [num  |-> scan[c].pageNum,
                 page |-> SetHeader(page, scan[c].itemIdx, MarkedHeader(c))]]
        /\ Goto(c, "hdrWrite")
        /\ OpenWindow(c)
        /\ UNCHANGED <<nextXID, statuses, heap, execLocals, scan, rows,
                       acked, marked>>

\* DELETE continues with the next item, UPDATE inserts the new version first.
HeaderWrite(c) ==
    /\ pc[c] = "hdrWrite"
    /\ WritePage(buf[c].num, buf[c].page)
    /\ marked' = marked \cup {<<buf[c].page[scan[c].itemIdx].row, xid[c]>>}
    /\ buf' = [buf EXCEPT ![c] = NoBuf]
    /\ IF stmt[c] = "UPDATE"
       THEN Goto(c, "insCount") /\ UNCHANGED scan
       ELSE Goto(c, "item") /\ NextItem(c)
    /\ UNCHANGED <<nextXID, statuses, execLocals, rows, acked, raced>>

-----------------------------------------------------------------------------
\* The tuple EncodeTuple builds for an INSERT or for an UPDATE's new version.
NewTuple(c) ==
    [xmin |-> xid[c], xmax |-> 0,
     row  |-> [by |-> xid[c],
               n  |-> Cardinality({r \in acked : r.by = xid[c]}) + 1]]

\* InsertTuple: the page count, then the last page, then the write.  An empty
\* file has no page to read.
InsertCount(c) ==
    /\ pc[c] = "insCount"
    /\ IF PageCount > 0
       THEN /\ buf' = [buf EXCEPT ![c].num = PageCount]
            /\ Goto(c, "insRead")
       ELSE /\ buf' = [buf EXCEPT ![c] = [num |-> 1, page |-> <<NewTuple(c)>>]]
            /\ Goto(c, "insWrite")
    /\ OpenWindow(c)
    /\ UNCHANGED <<nextXID, statuses, heap, execLocals, scan, rows,
                   acked, marked>>

InsertRead(c) ==
    /\ pc[c] = "insRead"
    /\ buf' = [buf EXCEPT ![c] =
                PlaceTuple(buf[c].num, ReadPage(buf[c].num), NewTuple(c))]
    /\ Goto(c, "insWrite")
    /\ UNCHANGED <<nextXID, statuses, heap, execLocals, scan, rows, history>>

InsertWrite(c) ==
    /\ pc[c] = "insWrite"
    /\ WritePage(buf[c].num, buf[c].page)
    /\ acked' = acked \cup {buf[c].page[Len(buf[c].page)].row}
    /\ buf' = [buf EXCEPT ![c] = NoBuf]
    /\ IF stmt[c] = "UPDATE"
       THEN Goto(c, "item") /\ NextItem(c)
       ELSE Goto(c, "commit") /\ UNCHANGED scan
    /\ UNCHANGED <<nextXID, statuses, execLocals, rows, marked, raced>>

-----------------------------------------------------------------------------
\* Execute returns: the executor and its locals are gone, the rows of a
\* successful SELECT go to the server.
Return(c, outcome) ==
    /\ Goto(c, outcome)
    /\ xid' = [xid EXCEPT ![c] = 0]
    /\ autoCommit' = [autoCommit EXCEPT ![c] = FALSE]
    /\ scan' = [scan EXCEPT ![c] = NoScan]
    /\ buf' = [buf EXCEPT ![c] = NoBuf]
    /\ UNCHANGED <<nextXID, heap, stmt, snap, history>>

\* Mutant: a statement of a transaction block commits the block's XID.
FinishAlwaysCommits(c) ==
    /\ pc[c] = "commit"
    /\ IF xid[c] # 0 THEN CommitXID(xid[c]) ELSE UNCHANGED statuses
    /\ Return(c, "ok")
    /\ UNCHANGED rows

Finish(c) ==
    /\ pc[c] = "commit"
    /\ IF autoCommit[c] THEN CommitXID(xid[c]) ELSE UNCHANGED statuses
    /\ Return(c, "ok")
    /\ UNCHANGED rows

\* Error paths that return without touching the transaction: everything
\* before the XID is drawn, every error inside the scan, an INSERT's encoding
\* and file opening, and UPDATE's header rewrite.  An autocommit XID that was
\* drawn stays in progress for ever.
FailPlain(c) ==
    /\ \/ pc[c] \in {"open"} \cup Scans
       \/ pc[c] = "insCount" /\ stmt[c] = "INSERT"
       \/ pc[c] \in Headers /\ stmt[c] = "UPDATE"
    /\ Return(c, "err")
    /\ rows' = [rows EXCEPT ![c] = {}]
    /\ UNCHANGED statuses

\* Error paths that abort an autocommit XID first: DELETE's header rewrite,
\* a SET clause that cannot be evaluated, and InsertTuple.
FailAbort(c) ==
    /\ \/ pc[c] \in Inserts
       \/ pc[c] \in Headers /\ stmt[c] = "DELETE"
    /\ IF autoCommit[c] THEN AbortXID(xid[c]) ELSE UNCHANGED statuses
    /\ Return(c, "err")
    /\ UNCHANGED rows

Execute(c) ==
    \/ OpenTable(c) \/ CountPages(c) \/ ScanPage(c) \/ ScanEnd(c)
    \/ SkipItem(c) \/ MatchItem(c) \/ PageDone(c)
    \/ HeaderRead(c) \/ HeaderWrite(c)
    \/ InsertCount(c) \/ InsertRead(c) \/ InsertWrite(c)
    \/ Finish(c) \/ FailPlain(c) \/ FailAbort(c)
=============================================================================
