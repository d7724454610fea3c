----------------------------- MODULE HeapProofs -----------------------------
(***************************************************************************)
(* While no two read-modify-writes of a page have overlapped, the heap     *)
(* holds every row exactly once, with the header its writers gave it: for  *)
(* any set of connections, any page capacity and any number of queries.    *)
(***************************************************************************)
EXTENDS SessionProofs

\* The rows of one transaction that were reported as stored, and the places.
RowsOf(x) == {r \in acked : r.by = x}

\* Only one connection is between a read and a write of the file.
OneWindow ==
    \A c, d \in Conns : pc[c] \in Window /\ pc[d] \in Window => c = d

\* What c is about to write is the present page, with its own change.
BufOf(c) ==
    /\ pc[c] = "hdrWrite" =>
        /\ buf[c].num = scan[c].pageNum
        /\ scan[c].itemIdx <= Len(heap[scan[c].pageNum])
        /\ buf[c].page = SetHeader(heap[scan[c].pageNum], scan[c].itemIdx, MarkedHeader(c))
    /\ pc[c] = "insRead" => buf[c].num = Len(heap)
    /\ pc[c] = "insWrite" =>
        buf[c] = IF Len(heap) = 0 THEN [num |-> 1, page |-> <<NewTuple(c)>>]
                 ELSE PlaceTuple(Len(heap), heap[Len(heap)], NewTuple(c))

\* Where a connection holds a copy of a page for its scan.
HasCopy(c) ==
    \/ pc[c] \in {"item"} \cup Headers
    \/ pc[c] \in Inserts /\ stmt[c] = "UPDATE"

\* new has every tuple of old in its place, except perhaps for its xmax.
Extends(old, new) ==
    /\ Len(old) <= Len(new)
    /\ \A i \in 1 .. Len(old) : old[i].row = new[i].row /\ old[i].xmin = new[i].xmin

CopyOf(c) == HasCopy(c) => Extends(scan[c].page, heap[scan[c].pageNum])

\* A row is stored in one place, and only stored rows have been reported.
StoredOnce ==
    /\ \A p, q \in 1 .. Len(heap) : \A i \in 1 .. Len(heap[p]), j \in 1 .. Len(heap[q]) :
        heap[p][i].row = heap[q][j].row => p = q /\ i = j
    /\ \A p \in 1 .. Len(heap) : \A i \in 1 .. Len(heap[p]) : heap[p][i].row \in acked
    /\ \A r \in acked : \E p \in 1 .. Len(heap) : \E i \in 1 .. Len(heap[p]) : heap[p][i].row = r

\* Headers say who created a tuple and who marked it.
HeadersTrue ==
    \A p \in 1 .. Len(heap) : \A i \in 1 .. Len(heap[p]) :
        /\ heap[p][i].xmin = heap[p][i].row.by
        /\ heap[p][i].xmax = 0 => \A m \in marked : m[1] # heap[p][i].row
        /\ heap[p][i].xmax # 0 => <<heap[p][i].row, heap[p][i].xmax>> \in marked

\* A transaction's rows are numbered without gaps, so the next number is free.
Numbered ==
    /\ \A r \in acked : r.n <= Cardinality(RowsOf(r.by))
    /\ \A m \in marked : m[1] \in acked

HInv ==
    ~raced => /\ OneWindow
              /\ \A c \in Conns : BufOf(c) /\ CopyOf(c)
              /\ StoredOnce /\ HeadersTrue /\ Numbered

Consistent == StoredOnce /\ HeadersTrue /\ Numbered

-----------------------------------------------------------------------------
(***************************************************************************)
(* The operators of Heap.                                                  *)
(***************************************************************************)

\* A page write changes one page, or adds one.
LEMMA WritePageAt ==
    ASSUME heap \in Seq(Seq(Tuples)), NEW n \in 1 .. Len(heap) + 1,
           NEW page \in Seq(Tuples), WritePage(n, page)
    PROVE  /\ Len(heap') = IF n > Len(heap) THEN n ELSE Len(heap)
           /\ heap'[n] = page
           /\ \A m \in 1 .. Len(heap) : m # n => heap'[m] = heap[m]
  <1> DEFINE size == IF n > Len(heap) THEN n ELSE Len(heap)
  <1>1. /\ size \in Nat /\ n \in 1 .. size /\ 1 .. Len(heap) \subseteq 1 .. size
        /\ \A m \in 1 .. size : m # n => m \in 1 .. Len(heap)
    OBVIOUS
  <1>2. heap' = [m \in 1 .. size |-> IF m = n THEN page ELSE heap[m]]
    BY DEF WritePage
  <1> HIDE DEF size
  <1>3. \A m \in 1 .. size : (IF m = n THEN page ELSE heap[m]) \in Seq(Tuples)
    BY <1>1
  <1>4. heap' \in Seq(Seq(Tuples)) /\ Len(heap') = size
    BY <1>1, <1>2, <1>3
  <1>5. heap'[n] = page /\ \A m \in 1 .. Len(heap) : m # n => heap'[m] = heap[m]
    BY <1>1, <1>2
  <1> QED
    BY <1>4, <1>5 DEF size

\* A header rewrite leaves all rows in place and all other headers alone.
LEMMA SetHeaderEffect ==
    ASSUME NEW page \in Seq(Tuples), NEW i \in 1 .. Len(page),
           NEW h \in [xmin : XIDs, xmax : Nat]
    PROVE  /\ Len(SetHeader(page, i, h)) = Len(page)
           /\ SetHeader(page, i, h)[i].row = page[i].row
           /\ SetHeader(page, i, h)[i].xmin = h.xmin
           /\ SetHeader(page, i, h)[i].xmax = h.xmax
           /\ \A j \in 1 .. Len(page) : j # i => SetHeader(page, i, h)[j] = page[j]
  <1> DEFINE t == [page[i] EXCEPT !.xmin = h.xmin, !.xmax = h.xmax]
  <1>1. page[i] \in Tuples
    OBVIOUS
  <1>2. t \in Tuples /\ t.row = page[i].row /\ t.xmin = h.xmin /\ t.xmax = h.xmax
    BY <1>1 DEF Tuples
  <1>3. SetHeader(page, i, h) = [page EXCEPT ![i] = t]
    BY DEF SetHeader
  <1> HIDE DEF t
  <1>4. \A j \in 1 .. Len(page) : j # i => SetHeader(page, i, h)[j] = page[j]
    BY <1>3
  <1>5. SetHeader(page, i, h)[i] = t
    BY <1>3
  <1> QED
    BY <1>2, <1>4, <1>5, SetHeaderType

\* A page extends itself, and extension is transitive.
LEMMA ExtendsTrans ==
    ASSUME NEW a \in Seq(Tuples), NEW b \in Seq(Tuples), NEW d \in Seq(Tuples),
           Extends(a, b), Extends(b, d)
    PROVE  Extends(a, d)
  BY DEF Extends

\* A page extends itself.
LEMMA ExtendsSelf ==
    ASSUME NEW a \in Seq(Tuples)
    PROVE  Extends(a, a)
  BY DEF Extends

-----------------------------------------------------------------------------
(***************************************************************************)
(* A step is taken by one connection.                                      *)
(***************************************************************************)

\* Every page is still there, and has kept its tuples.
FileGrows ==
    /\ Len(heap) <= Len(heap')
    /\ \A p \in 1 .. Len(heap) : Extends(heap[p], heap'[p])

\* Where a copy is held, it is of a page the file has.
LEMMA CopyInFile ==
    ASSUME Inv, NEW c \in Conns, HasCopy(c)
    PROVE  /\ scan[c].pageNum \in 1 .. Len(heap)
           /\ scan[c].page \in Seq(Tuples) /\ scan[c].itemIdx \in Nat \ {0}
           /\ heap[scan[c].pageNum] \in Seq(Tuples)
  <1>1. WithinFileOf(c) /\ heap \in Seq(Seq(Tuples)) /\ scan[c] \in ScanStates
    BY DEF Inv, WithinFile, TypeOK
  <1>2. scan[c].pageNum \in 1 .. scan[c].pageCount /\ scan[c].pageCount <= Len(heap)
    BY <1>1 DEF HasCopy, WithinFileOf
  <1>3. scan[c].pageNum \in 1 .. Len(heap)
    BY <1>1, <1>2 DEF ScanStates
  <1>4. scan[c].itemIdx >= 1 /\ scan[c].itemIdx \in Nat
    BY <1>1 DEF HasCopy, WithinFileOf, ScanStates
  <1> QED
    BY <1>1, <1>3, <1>4 DEF ScanStates

\* What has to be shown of a step by c: of c itself, and of the heap.  Others in
\* the middle of a read-modify-write only see steps that leave the heap alone.
LEMMA HFrame ==
    ASSUME Inv, Inv', HInv, ~raced, NEW c \in Conns,
           \A d \in Conns \ {c} : Same(d),
           FileGrows,
           UNCHANGED <<heap, acked>> \/ pc[c] \in Window,
           pc'[c] \in Window =>
               pc[c] \in Window \/ \A d \in Conns \ {c} : pc[d] \notin Window,
           BufOf(c)', CopyOf(c)', Consistent'
    PROVE  HInv'
  <1>1. OneWindow'
    BY DEF HInv, OneWindow, Same
  <1>2. ASSUME NEW d \in Conns, d # c
        PROVE  BufOf(d)'
    <2>1. CASE pc[c] \in Window
      BY <1>2, <2>1 DEF HInv, OneWindow, BufOf, Same, Window
    <2>2. CASE UNCHANGED <<heap, acked>>
      <3>1. BufOf(d) /\ Same(d)
        BY <1>2 DEF HInv
      <3>2. MarkedHeader(d)' = MarkedHeader(d) /\ NewTuple(d)' = NewTuple(d)
        BY <2>2, <3>1 DEF Same, MarkedHeader, Item, NewTuple
      <3> QED
        BY <2>2, <3>1, <3>2 DEF BufOf, Same
    <2> QED
      BY <2>1, <2>2
  <1>3. ASSUME NEW d \in Conns, d # c, HasCopy(d)
        PROVE  Extends(scan[d].page, heap'[scan[d].pageNum])
    <2>1. /\ scan[d].pageNum \in 1 .. Len(heap) /\ scan[d].page \in Seq(Tuples)
          /\ heap[scan[d].pageNum] \in Seq(Tuples)
      BY <1>3, CopyInFile
    <2>2. heap'[scan[d].pageNum] \in Seq(Tuples)
      <3>1. heap' \in Seq(Seq(Tuples)) /\ Len(heap) \in Nat /\ Len(heap') \in Nat
        BY DEF Inv, TypeOK
      <3>2. scan[d].pageNum \in 1 .. Len(heap')
        BY <2>1, <3>1 DEF FileGrows
      <3> QED
        BY <3>1, <3>2
    <2>3. Extends(scan[d].page, heap[scan[d].pageNum])
      BY <1>3 DEF HInv, CopyOf
    <2> QED
      BY <2>1, <2>2, <2>3, ExtendsTrans DEF FileGrows
  <1>4. ASSUME NEW d \in Conns, d # c
        PROVE  CopyOf(d)'
    BY <1>3, <1>4 DEF CopyOf, HasCopy, Same
  <1> QED
    BY <1>1, <1>2, <1>4 DEF HInv, Consistent

\* A step that leaves the heap and its history alone, outside the windows.
LEMMA QuietStep ==
    ASSUME Inv, Inv', HInv, NEW c \in Conns,
           \A d \in Conns \ {c} : Same(d),
           UNCHANGED <<heap, acked, marked, raced>>,
           pc'[c] \notin Window, CopyOf(c)'
    PROVE  HInv'
  <1>1. CASE raced
    BY <1>1 DEF HInv
  <1>2. CASE ~raced
    <2>1. Consistent'
      <3>1. StoredOnce /\ HeadersTrue /\ Numbered
        BY <1>2 DEF HInv
      <3>2. StoredOnce'
        BY <3>1 DEF StoredOnce
      <3>3. HeadersTrue'
        BY <3>1 DEF HeadersTrue
      <3>4. \A x : RowsOf(x)' = RowsOf(x)
        BY DEF RowsOf
      <3>5. Numbered'
        BY <3>1, <3>4 DEF Numbered
      <3> QED
        BY <3>2, <3>3, <3>5 DEF Consistent
    <2>2. FileGrows
      BY DEF Inv, TypeOK, FileGrows, Extends
    <2>3. BufOf(c)'
      BY DEF BufOf, Window
    <2> QED
      BY <1>2, <2>1, <2>2, <2>3, HFrame
  <1> QED
    BY <1>1, <1>2

\* The messages of the loop, and what begins and ends a statement or a page: no
\* copy of a page is held afterwards.
LEMMA NoCopyStep ==
    ASSUME Inv, Inv', HInv, NEW c \in Conns,
           \A d \in Conns \ {c} : Same(d),
           UNCHANGED <<heap, acked, marked, raced>>,
           \/ pc'[c] \in {"closed", "idle", "open", "count", "page", "commit", "ok", "err"}
           \/ pc'[c] = "insCount" /\ stmt'[c] = "INSERT"
    PROVE  HInv'
  <1>1. pc'[c] \notin Window
    BY DEF Window
  <1>2. CopyOf(c)'
    BY DEF CopyOf, HasCopy, Headers, Inserts
  <1> QED
    BY <1>1, <1>2, QuietStep

\* The steps of the message loop.
LEMMA ControlH ==
    ASSUME Inv, Inv', HInv, NEW c \in Conns,
           \/ Connect(c) \/ Disconnect(c) \/ ParseError(c) \/ RejectFailed(c)
           \/ BeginStatement(c) \/ CommitStatement(c) \/ RollbackStatement(c)
           \/ \E op \in Ops : StartStatement(c, op)
           \/ Respond(c)
    PROVE  HInv'
  <1>0. /\ pc \in [Conns -> Locations] /\ stmt \in [Conns -> Ops]
        /\ snap \in [Conns -> Snapshots] /\ xid \in [Conns -> Nat]
        /\ rows \in [Conns -> SUBSET Tuples]
        /\ connTxn \in [Conns -> [State : TxnStates, XID : Nat]]
    BY DEF Inv, TypeOK
  <1>1. CASE \/ Connect(c) \/ Disconnect(c) \/ ParseError(c) \/ RejectFailed(c)
             \/ BeginStatement(c) \/ CommitStatement(c) \/ RollbackStatement(c)
    <2> USE DEF Connect, Disconnect, ParseError, RejectFailed, BeginStatement,
                CommitStatement, RollbackStatement, Receive, FailTxn, Goto,
                executorVars, history
    <2>1. UNCHANGED executorVars
      BY <1>1
    <2>2. pc'[c] \in {"closed", "idle"} /\ \A d \in Conns \ {c} : pc'[d] = pc[d]
      BY <1>0, <1>1
    <2>3. \A d \in Conns \ {c} : connTxn'[d] = connTxn[d]
      BY <1>0, <1>1
    <2>4. \A d \in Conns \ {c} : Same(d)
      BY <2>1, <2>2, <2>3 DEF Same
    <2> QED
      BY <2>1, <2>2, <2>4, NoCopyStep
  <1>2. ASSUME NEW op \in Ops, StartStatement(c, op) PROVE HInv'
    <2>1. /\ UNCHANGED <<heap, acked, marked, raced>> /\ pc'[c] = "open"
          /\ \A d \in Conns \ {c} : Same(d)
      BY <1>0, <1>2 DEF StartStatement, Goto, history, Same
    <2> QED
      BY <2>1, NoCopyStep
  <1>3. CASE Respond(c)
    <2>1. /\ UNCHANGED <<heap, acked, marked, raced>> /\ pc'[c] = "idle"
          /\ \A d \in Conns \ {c} : Same(d)
      BY <1>0, <1>3 DEF Respond, FailTxn, Goto, history, Same
    <2> QED
      BY <2>1, NoCopyStep
  <1> QED
    BY <1>1, <1>2, <1>3

\* The steps of a statement after which it holds no copy of a page.
LEMMA StatementH ==
    ASSUME Inv, Inv', HInv, NEW c \in Conns, UNCHANGED <<connTxn, queries>>,
           \/ OpenTable(c) \/ CountPages(c) \/ ScanEnd(c) \/ PageDone(c)
           \/ Finish(c) \/ FailPlain(c) \/ FailAbort(c)
    PROVE  HInv'
  <1>0. /\ pc \in [Conns -> Locations] /\ stmt \in [Conns -> Ops]
        /\ xid \in [Conns -> Nat] /\ autoCommit \in [Conns -> BOOLEAN]
        /\ scan \in [Conns -> ScanStates] /\ buf \in [Conns -> Buffers]
        /\ rows \in [Conns -> SUBSET Tuples]
    BY DEF Inv, TypeOK
  <1>1. CASE OpenTable(c)
    <2>1. \A d \in Conns \ {c} : Same(d)
      BY <1>0, <1>1 DEF OpenTable, getAutoCommitWithXID, Goto, Same
    <2>2. /\ UNCHANGED <<heap, acked, marked, raced>>
          /\ pc'[c] = "count" \/ (pc'[c] = "insCount" /\ stmt'[c] = "INSERT")
      <3>1. /\ UNCHANGED <<heap, acked, marked, raced>> /\ stmt' = stmt
            /\ pc'[c] = IF stmt[c] \in Scanning THEN "count" ELSE "insCount"
        BY <1>0, <1>1 DEF OpenTable, Goto, history
      <3>2. stmt[c] \in Scanning \/ stmt[c] = "INSERT"
        BY <1>0 DEF Ops, Scanning
      <3> QED
        BY <3>1, <3>2
    <2> QED
      BY <2>1, <2>2, NoCopyStep
  <1>2. CASE CountPages(c) \/ ScanEnd(c) \/ PageDone(c)
    <2>1. /\ \A d \in Conns \ {c} : Same(d)
          /\ UNCHANGED <<heap, acked, marked, raced>> /\ pc'[c] \in {"page", "commit"}
      BY <1>0, <1>2 DEF CountPages, ScanEnd, PageDone, Goto, execLocals, history, Same
    <2> QED
      BY <2>1, NoCopyStep
  <1>3. CASE Finish(c) \/ FailPlain(c) \/ FailAbort(c)
    <2>1. /\ \A d \in Conns \ {c} : Same(d)
          /\ UNCHANGED <<heap, acked, marked, raced>> /\ pc'[c] \in {"ok", "err"}
      BY <1>0, <1>3 DEF Finish, FailPlain, FailAbort, Return, Goto, history, Same
    <2> QED
      BY <2>1, NoCopyStep
  <1> QED
    BY <1>1, <1>2, <1>3

\* The scan copies a page of the file as it is.
LEMMA ScanPageH ==
    ASSUME Inv, Inv', HInv, NEW c \in Conns, UNCHANGED <<connTxn, queries>>, ScanPage(c)
    PROVE  HInv'
  <1> USE DEF ScanPage, Goto, execLocals, history
  <1>0. pc \in [Conns -> Locations] /\ scan \in [Conns -> ScanStates]
    BY DEF Inv, TypeOK
  <1>1. /\ \A d \in Conns \ {c} : Same(d)
        /\ UNCHANGED <<heap, acked, marked, raced>> /\ pc'[c] = "item"
    BY <1>0 DEF Same
  <1>2. scan'[c].page = heap[scan[c].pageNum] /\ scan'[c].pageNum = scan[c].pageNum
    <2>1. scan[c] \in ScanStates
      BY <1>0
    <2> QED
      BY <1>0, <2>1 DEF ReadPage, ScanStates
  <1>3. HasCopy(c)'
    BY <1>1 DEF HasCopy
  <1>4. scan'[c].page \in Seq(Tuples)
    BY DEF Inv, TypeOK, ScanStates
  <1>5. CopyOf(c)'
    BY <1>1, <1>2, <1>4, ExtendsSelf DEF CopyOf
  <1> QED
    BY <1>1, <1>5, QuietStep DEF Window

\* The scan looks at an item, and keeps its copy.
LEMMA ItemH ==
    ASSUME Inv, Inv', HInv, NEW c \in Conns, UNCHANGED <<connTxn, queries>>,
           SkipItem(c) \/ MatchItem(c)
    PROVE  HInv'
  <1> USE DEF SkipItem, MatchItem, AtItem, Goto, execLocals, history
  <1>0. /\ pc \in [Conns -> Locations] /\ scan \in [Conns -> ScanStates]
        /\ rows \in [Conns -> SUBSET Tuples] /\ TypeOK
    BY DEF Inv, TypeOK
  <1>1. /\ scan'[c].page = scan[c].page /\ scan'[c].pageNum = scan[c].pageNum
        /\ \A d \in Conns \ {c} : scan'[d] = scan[d]
    BY <1>0, NextItemEffect
  <1>2. /\ UNCHANGED <<heap, acked, marked, raced>>
        /\ pc[c] = "item" /\ pc'[c] \in {"item", "hdrRead"}
    BY <1>0
  <1>3. \A d \in Conns \ {c} : Same(d)
    BY <1>0, <1>1 DEF Same
  <1>4. CASE ~raced
    <2>1. CopyOf(c)'
      BY <1>1, <1>2, <1>4 DEF HInv, CopyOf, HasCopy
    <2> QED
      BY <1>2, <1>3, <2>1, QuietStep DEF Window
  <1>5. CASE raced
    BY <1>2, <1>5 DEF HInv
  <1> QED
    BY <1>4, <1>5

-----------------------------------------------------------------------------
(***************************************************************************)
(* The read-modify-writes.                                                 *)
(***************************************************************************)

\* A step into or within a window that leaves the heap alone.
LEMMA WindowStep ==
    ASSUME Inv, Inv', HInv, NEW c \in Conns,
           \A d \in Conns \ {c} : Same(d),
           UNCHANGED <<heap, acked, marked>>,
           OpenWindow(c) \/ (pc[c] \in Window /\ UNCHANGED raced),
           ~raced => BufOf(c)' /\ CopyOf(c)'
    PROVE  HInv'
  <1>1. CASE raced'
    BY <1>1 DEF HInv
  <1>2. CASE ~raced'
    <2>1. /\ ~raced
          /\ pc[c] \in Window \/ \A d \in Conns \ {c} : pc[d] \notin Window
      <3> DEFINE open == raced \/ \E d \in Conns \ {c} : pc[d] \in Window
      <3>1. CASE OpenWindow(c)
        <4>1. raced' = open /\ open \in BOOLEAN
          BY <3>1 DEF OpenWindow
        <4>2. ~open
          BY <1>2, <4>1
        <4> QED
          BY <4>2
      <3>2. CASE pc[c] \in Window /\ UNCHANGED raced
        BY <1>2, <3>2
      <3> QED
        BY <3>1, <3>2
    <2>2. Consistent'
      <3>1. StoredOnce /\ HeadersTrue /\ Numbered
        BY <2>1 DEF HInv
      <3>2. StoredOnce'
        BY <3>1 DEF StoredOnce
      <3>3. HeadersTrue'
        BY <3>1 DEF HeadersTrue
      <3>4. \A x : RowsOf(x)' = RowsOf(x)
        BY DEF RowsOf
      <3>5. Numbered'
        BY <3>1, <3>4 DEF Numbered
      <3> QED
        BY <3>2, <3>3, <3>5 DEF Consistent
    <2>3. FileGrows
      BY DEF Inv, TypeOK, FileGrows, Extends
    <2> QED
      BY <2>1, <2>2, <2>3, HFrame
  <1> QED
    BY <1>1, <1>2

\* UpdateTupleHeader reads the page as it is.
LEMMA HeaderReadH ==
    ASSUME Inv, Inv', HInv, NEW c \in Conns, UNCHANGED <<connTxn, queries>>, HeaderRead(c)
    PROVE  HInv'
  <1> USE DEF HeaderRead, Goto, execLocals
  <1>0. pc \in [Conns -> Locations] /\ buf \in [Conns -> Buffers]
    BY DEF Inv, TypeOK
  <1>1. /\ \A d \in Conns \ {c} : Same(d)
        /\ UNCHANGED <<heap, acked, marked, scan, xid, stmt>>
        /\ pc[c] = "hdrRead" /\ pc'[c] = "hdrWrite"
    BY <1>0 DEF Same
  <1>2. ASSUME ~raced PROVE BufOf(c)'
    <2>1. MarkedHeader(c)' = MarkedHeader(c)
      BY <1>1 DEF MarkedHeader, Item
    <2>2. /\ buf'[c].num = scan[c].pageNum
          /\ buf'[c].page = SetHeader(heap[scan[c].pageNum], scan[c].itemIdx, MarkedHeader(c))
          /\ scan[c].itemIdx <= Len(heap[scan[c].pageNum])
      BY <1>0 DEF ReadPage
    <2> QED
      BY <1>1, <2>1, <2>2 DEF BufOf
  <1>3. ASSUME ~raced PROVE CopyOf(c)'
    BY <1>1, <1>3 DEF HInv, CopyOf, HasCopy, Headers
  <1>4. OpenWindow(c)
    OBVIOUS
  <1> QED
    BY <1>1, <1>2, <1>3, <1>4, WindowStep

\* InsertTuple counts the pages, and prepares the first page of an empty file.
LEMMA InsertCountH ==
    ASSUME Inv, Inv', HInv, NEW c \in Conns, UNCHANGED <<connTxn, queries>>, InsertCount(c)
    PROVE  HInv'
  <1> USE DEF InsertCount, Goto, execLocals
  <1>0. pc \in [Conns -> Locations] /\ buf \in [Conns -> Buffers] /\ Len(heap) \in Nat
    BY DEF Inv, TypeOK
  <1>1. /\ \A d \in Conns \ {c} : Same(d)
        /\ UNCHANGED <<heap, acked, marked, scan, xid, stmt>>
        /\ pc[c] = "insCount" /\ pc'[c] \in {"insRead", "insWrite"}
    BY <1>0 DEF Same
  <1>2. ASSUME ~raced PROVE BufOf(c)'
    <2>1. NewTuple(c)' = NewTuple(c)
      BY <1>1 DEF NewTuple
    <2>2. CASE Len(heap) > 0
      <3>1. buf'[c].num = Len(heap) /\ pc'[c] = "insRead"
        BY <1>0, <2>2 DEF PageCount, Buffers
      <3> QED
        BY <1>1, <3>1 DEF BufOf
    <2>3. CASE Len(heap) = 0
      <3>1. buf'[c] = [num |-> 1, page |-> <<NewTuple(c)>>] /\ pc'[c] = "insWrite"
        BY <1>0, <2>3 DEF PageCount
      <3> QED
        BY <1>1, <2>1, <2>3, <3>1 DEF BufOf
    <2> QED
      BY <1>0, <2>2, <2>3
  <1>3. ASSUME ~raced PROVE CopyOf(c)'
    BY <1>1, <1>3 DEF HInv, CopyOf, HasCopy, Inserts, Headers
  <1>4. OpenWindow(c)
    OBVIOUS
  <1> QED
    BY <1>1, <1>2, <1>3, <1>4, WindowStep

\* InsertTuple reads the last page as it is.
LEMMA InsertReadH ==
    ASSUME Inv, Inv', HInv, NEW c \in Conns, UNCHANGED <<connTxn, queries>>, InsertRead(c)
    PROVE  HInv'
  <1> USE DEF InsertRead, Goto, execLocals, history
  <1>0. pc \in [Conns -> Locations] /\ buf \in [Conns -> Buffers] /\ Len(heap) \in Nat
    BY DEF Inv, TypeOK
  <1>1. /\ \A d \in Conns \ {c} : Same(d)
        /\ UNCHANGED <<heap, acked, marked, raced, scan, xid, stmt>>
        /\ pc[c] = "insRead" /\ pc'[c] = "insWrite"
    BY <1>0 DEF Same
  <1>2. ASSUME ~raced PROVE BufOf(c)'
    <2>1. NewTuple(c)' = NewTuple(c)
      BY <1>1 DEF NewTuple
    <2>2. buf[c].num = Len(heap)
      BY <1>1, <1>2 DEF HInv, BufOf
    <2>3. buf[c].num \in 1 .. Len(heap)
      BY <1>1 DEF Inv, WithinFile, WithinFileOf
    <2>4. buf'[c] = PlaceTuple(Len(heap), heap[Len(heap)], NewTuple(c)) /\ Len(heap) # 0
      BY <1>0, <2>2, <2>3 DEF ReadPage
    <2> QED
      BY <1>1, <2>1, <2>4 DEF BufOf
  <1>3. ASSUME ~raced PROVE CopyOf(c)'
    BY <1>1, <1>3 DEF HInv, CopyOf, HasCopy, Inserts, Headers
  <1>4. pc[c] \in Window
    BY <1>1 DEF Window
  <1> QED
    BY <1>1, <1>2, <1>3, <1>4, WindowStep

\* A copy that is kept over a step of a growing file is still a copy.
LEMMA CopyKept ==
    ASSUME Inv, Inv', NEW c \in Conns, FileGrows, HasCopy(c), CopyOf(c),
           scan'[c].page = scan[c].page, scan'[c].pageNum = scan[c].pageNum
    PROVE  CopyOf(c)'
  <1>1. /\ scan[c].pageNum \in 1 .. Len(heap) /\ scan[c].page \in Seq(Tuples)
        /\ heap[scan[c].pageNum] \in Seq(Tuples)
    BY CopyInFile
  <1>2. heap'[scan[c].pageNum] \in Seq(Tuples)
    <2>1. heap' \in Seq(Seq(Tuples)) /\ Len(heap) \in Nat /\ Len(heap') \in Nat
      BY DEF Inv, TypeOK
    <2>2. scan[c].pageNum \in 1 .. Len(heap')
      BY <1>1, <2>1 DEF FileGrows
    <2> QED
      BY <2>1, <2>2
  <1>3. Extends(scan[c].page, heap[scan[c].pageNum])
    BY DEF CopyOf
  <1>4. Extends(heap[scan[c].pageNum], heap'[scan[c].pageNum])
    BY <1>1 DEF FileGrows
  <1> QED
    BY <1>1, <1>2, <1>3, <1>4, ExtendsTrans DEF CopyOf

\* The header that a connection writes is that of the slot, with its own XID:
\* the slot holds the tuple that the scan has seen.
LEMMA HeaderWriteEffect ==
    ASSUME Inv, HInv, ~raced, NEW c \in Conns, HeaderWrite(c),
           NEW n, n = scan[c].pageNum, NEW i, i = scan[c].itemIdx
    PROVE  /\ n \in 1 .. Len(heap) /\ i \in 1 .. Len(heap[n]) /\ xid[c] # 0
           /\ Len(heap') = Len(heap)
           /\ \A p \in 1 .. Len(heap) :
                /\ Len(heap'[p]) = Len(heap[p])
                /\ \A j \in 1 .. Len(heap[p]) :
                    /\ heap'[p][j].row = heap[p][j].row
                    /\ heap'[p][j].xmin = heap[p][j].xmin
                    /\ p # n \/ j # i => heap'[p][j].xmax = heap[p][j].xmax
           /\ heap'[n][i].xmax = xid[c]
           /\ marked' = marked \cup {<<heap[n][i].row, xid[c]>>}
  <1> DEFINE h == MarkedHeader(c)
  <1>0. pc[c] = "hdrWrite" /\ HasCopy(c) /\ pc[c] \in Headers
    BY DEF HeaderWrite, HasCopy, Headers
  <1>1. /\ n \in 1 .. Len(heap) /\ scan[c].page \in Seq(Tuples)
        /\ i \in Nat \ {0} /\ heap[n] \in Seq(Tuples) /\ heap \in Seq(Seq(Tuples))
    BY <1>0, CopyInFile DEF Inv, TypeOK
  <1>2. i \in 1 .. Len(scan[c].page)
    BY <1>0, <1>1 DEF Inv, WithinFile, WithinFileOf
  <1>3. /\ BufOf(c) /\ Extends(scan[c].page, heap[n])
    BY <1>0 DEF HInv, CopyOf
  <1>4. /\ buf[c].num = n /\ i <= Len(heap[n])
        /\ buf[c].page = SetHeader(heap[n], i, h)
    BY <1>0, <1>3 DEF BufOf
  <1>5. i \in 1 .. Len(heap[n])
    BY <1>1, <1>4
  <1>6. xid[c] \in Nat /\ xid[c] # 0
    BY <1>0 DEF Inv, TypeOK, XIDStates, XIDStateOf, Headers, Running
  <1>7. /\ h \in [xmin : XIDs, xmax : Nat]
        /\ h.xmin = heap[n][i].xmin /\ h.xmax = xid[c]
    <2>0. scan[c].page[i] \in Tuples
      BY <1>1, <1>2
    <2>1. scan[c].page[i].xmin = heap[n][i].xmin
      BY <1>2, <1>3 DEF Extends
    <2>2. h = [xmin |-> scan[c].page[i].xmin, xmax |-> xid[c]]
      BY DEF MarkedHeader, Item
    <2> QED
      BY <1>6, <2>0, <2>1, <2>2 DEF Tuples
  <1> DEFINE page == SetHeader(heap[n], i, h)
  <1> HIDE DEF h
  <1>8. /\ page \in Seq(Tuples) /\ Len(page) = Len(heap[n])
        /\ page[i].row = heap[n][i].row
        /\ page[i].xmin = heap[n][i].xmin
        /\ page[i].xmax = xid[c]
        /\ \A j \in 1 .. Len(heap[n]) : j # i => page[j] = heap[n][j]
    <2>1. page \in Seq(Tuples) /\ Len(page) = Len(heap[n])
      BY <1>1, <1>5, <1>7, SetHeaderType, SetHeaderEffect
    <2>2. /\ page[i].row = heap[n][i].row /\ page[i].xmin = h.xmin /\ page[i].xmax = h.xmax
          /\ \A j \in 1 .. Len(heap[n]) : j # i => page[j] = heap[n][j]
      BY <1>1, <1>5, <1>7, SetHeaderEffect
    <2> QED
      BY <1>7, <2>1, <2>2
  <1>9. WritePage(n, page) /\ marked' = marked \cup {<<page[i].row, xid[c]>>}
    BY <1>4 DEF HeaderWrite
  <1> HIDE DEF page
  <1>10. /\ Len(heap') = Len(heap) /\ heap'[n] = page
         /\ \A p \in 1 .. Len(heap) : p # n => heap'[p] = heap[p]
    <2>1. n \in 1 .. Len(heap) + 1 /\ Len(heap) \in Nat
      BY <1>1
    <2>2. /\ Len(heap') = IF n > Len(heap) THEN n ELSE Len(heap)
          /\ heap'[n] = page
          /\ \A p \in 1 .. Len(heap) : p # n => heap'[p] = heap[p]
      BY <1>1, <1>8, <1>9, <2>1, WritePageAt
    <2> QED
      BY <1>1, <2>1, <2>2
  <1> QED
    BY <1>1, <1>5, <1>6, <1>8, <1>9, <1>10

\* A marked row stays where it is; only its xmax is new.
LEMMA HeaderWriteH ==
    ASSUME Inv, Inv', HInv, NEW c \in Conns, UNCHANGED <<connTxn, queries>>, HeaderWrite(c)
    PROVE  HInv'
  <1>0. /\ pc \in [Conns -> Locations] /\ buf \in [Conns -> Buffers]
        /\ scan \in [Conns -> ScanStates] /\ TypeOK
    BY DEF Inv, TypeOK
  <1>1. /\ scan'[c].page = scan[c].page /\ scan'[c].pageNum = scan[c].pageNum
        /\ \A d \in Conns \ {c} : scan'[d] = scan[d]
    BY <1>0, NextItemEffect DEF HeaderWrite
  <1>2. /\ \A d \in Conns \ {c} : Same(d)
        /\ pc[c] = "hdrWrite" /\ pc'[c] \in {"insCount", "item"}
        /\ UNCHANGED <<acked, raced>>
    BY <1>0, <1>1 DEF HeaderWrite, Goto, execLocals, Same
  <1>3. CASE raced
    BY <1>2, <1>3 DEF HInv
  <1>4. CASE ~raced
    <2> DEFINE n == scan[c].pageNum
               i == scan[c].itemIdx
    <2>1. /\ n \in 1 .. Len(heap) /\ i \in 1 .. Len(heap[n]) /\ xid[c] # 0
          /\ Len(heap') = Len(heap)
          /\ \A p \in 1 .. Len(heap) :
               /\ Len(heap'[p]) = Len(heap[p])
               /\ \A j \in 1 .. Len(heap[p]) :
                   /\ heap'[p][j].row = heap[p][j].row
                   /\ heap'[p][j].xmin = heap[p][j].xmin
                   /\ p # n \/ j # i => heap'[p][j].xmax = heap[p][j].xmax
          /\ heap'[n][i].xmax = xid[c]
          /\ marked' = marked \cup {<<heap[n][i].row, xid[c]>>}
      BY <1>4, HeaderWriteEffect
    <2> HIDE DEF n, i
    <2>2. StoredOnce /\ HeadersTrue /\ Numbered
      BY <1>4 DEF HInv
    <2>3. StoredOnce'
      <3>1. \A p, q \in 1 .. Len(heap') : \A k \in 1 .. Len(heap'[p]), j \in 1 .. Len(heap'[q]) :
                heap'[p][k].row = heap'[q][j].row => p = q /\ k = j
        BY <2>1, <2>2 DEF StoredOnce
      <3>2. ASSUME NEW p \in 1 .. Len(heap'), NEW k \in 1 .. Len(heap'[p])
            PROVE  heap'[p][k].row \in acked'
        <4>1. p \in 1 .. Len(heap) /\ k \in 1 .. Len(heap[p]) /\ heap'[p][k].row = heap[p][k].row
          BY <2>1, <3>2
        <4> QED
          BY <1>2, <2>2, <4>1 DEF StoredOnce
      <3>3. ASSUME NEW r \in acked
            PROVE  \E p \in 1 .. Len(heap') : \E k \in 1 .. Len(heap'[p]) : heap'[p][k].row = r
        <4>1. PICK p \in 1 .. Len(heap) : \E k \in 1 .. Len(heap[p]) : heap[p][k].row = r
          BY <2>2 DEF StoredOnce
        <4>2. PICK k \in 1 .. Len(heap[p]) : heap[p][k].row = r
          BY <4>1
        <4>3. p \in 1 .. Len(heap') /\ k \in 1 .. Len(heap'[p]) /\ heap'[p][k].row = r
          BY <2>1, <4>2
        <4> QED
          BY <4>3
      <3> QED
        BY <1>2, <3>1, <3>2, <3>3 DEF StoredOnce
    <2>4. ASSUME NEW p \in 1 .. Len(heap), NEW j \in 1 .. Len(heap[p])
          PROVE  /\ heap'[p][j].xmin = heap'[p][j].row.by
                 /\ heap'[p][j].xmax = 0 => \A m \in marked' : m[1] # heap'[p][j].row
                 /\ heap'[p][j].xmax # 0 => <<heap'[p][j].row, heap'[p][j].xmax>> \in marked'
      <3>1. /\ heap[p][j].xmin = heap[p][j].row.by
            /\ heap[p][j].xmax = 0 => \A m \in marked : m[1] # heap[p][j].row
            /\ heap[p][j].xmax # 0 => <<heap[p][j].row, heap[p][j].xmax>> \in marked
        BY <2>2, <2>4 DEF HeadersTrue
      <3>2. CASE p = n /\ j = i
        BY <2>1, <3>1, <3>2
      <3>3. CASE p # n \/ j # i
        <4>1. heap[p][j].row # heap[n][i].row
          BY <2>1, <2>2, <3>3 DEF StoredOnce
        <4>2. /\ heap'[p][j].row = heap[p][j].row
              /\ heap'[p][j].xmin = heap[p][j].xmin
              /\ heap'[p][j].xmax = heap[p][j].xmax
          BY <2>1, <3>3
        <4> QED
          BY <2>1, <3>1, <4>1, <4>2
      <3> QED
        BY <3>2, <3>3
    <2>5. HeadersTrue'
      BY <2>1, <2>4 DEF HeadersTrue
    <2>6. Numbered'
      <3>1. \A x : RowsOf(x)' = RowsOf(x)
        BY <1>2 DEF RowsOf
      <3>2. heap[n][i].row \in acked
        BY <2>1, <2>2 DEF StoredOnce
      <3>3. \A m \in marked' : m[1] \in acked
        BY <2>1, <2>2, <3>2 DEF Numbered
      <3> QED
        BY <1>2, <2>2, <3>1, <3>3 DEF Numbered
    <2>7. FileGrows
      <3>1. Len(heap) \in Nat /\ \A p \in 1 .. Len(heap) : Len(heap[p]) \in Nat
        BY <1>0 DEF TypeOK
      <3> QED
        BY <2>1, <3>1 DEF FileGrows, Extends
    <2>8. CopyOf(c)'
      <3>1. HasCopy(c) /\ CopyOf(c)
        BY <1>2, <1>4 DEF HInv, HasCopy, Headers
      <3> QED
        BY <1>1, <2>7, <3>1, CopyKept
    <2>9. BufOf(c)' /\ pc[c] \in Window /\ pc'[c] \notin Window
      BY <1>2 DEF BufOf, Window
    <2> QED
      BY <1>2, <1>4, <2>3, <2>5, <2>6, <2>7, <2>8, <2>9, HFrame DEF Consistent
  <1> QED
    BY <1>3, <1>4

\* InsertTuple's write puts the new tuple in a place of its own, and leaves all
\* others where they were.
LEMMA InsertWriteEffect ==
    ASSUME Inv, HInv, ~raced, NEW c \in Conns, InsertWrite(c), NewTuple(c) \in Tuples,
           NEW n, n = buf[c].num, NEW k, k = Len(buf[c].page)
    PROVE  /\ n \in 1 .. Len(heap') /\ k \in 1 .. Len(heap'[n])
           /\ heap'[n][k] = NewTuple(c)
           /\ Len(heap) <= Len(heap')
           /\ \A p \in 1 .. Len(heap) :
                /\ Len(heap[p]) <= Len(heap'[p])
                /\ \A j \in 1 .. Len(heap[p]) : heap'[p][j] = heap[p][j]
           /\ \A p \in 1 .. Len(heap') : \A j \in 1 .. Len(heap'[p]) :
                \/ p = n /\ j = k
                \/ p \in 1 .. Len(heap) /\ j \in 1 .. Len(heap[p])
           /\ acked' = acked \cup {NewTuple(c).row}
  <1> DEFINE t == NewTuple(c)
             page == buf[c].page
  <1>1. /\ heap \in Seq(Seq(Tuples)) /\ Len(heap) \in Nat
        /\ \A p \in 1 .. Len(heap) : heap[p] \in Seq(Tuples) /\ Len(heap[p]) \in Nat
    BY DEF Inv, TypeOK
  <1>2. pc[c] = "insWrite" /\ WritePage(n, page) /\ acked' = acked \cup {page[k].row}
    BY DEF InsertWrite
  <1>3. buf[c] = IF Len(heap) = 0 THEN [num |-> 1, page |-> <<t>>]
                 ELSE PlaceTuple(Len(heap), heap[Len(heap)], t)
    BY <1>2 DEF HInv, BufOf
  <1>4. \/ n = Len(heap) + 1 /\ page = <<t>>
        \/ n = Len(heap) /\ n \in 1 .. Len(heap) /\ page = Append(heap[n], t)
    BY <1>1, <1>3 DEF PlaceTuple, HasSpace, AddTuple
  <1> HIDE DEF t, page
  <1>0. t \in Tuples /\ k = Len(page)
    BY DEF t, page
  <1>5. CASE n = Len(heap) + 1 /\ page = <<t>>
    <2>1. page \in Seq(Tuples) /\ k = 1 /\ page[k] = t /\ n \in 1 .. Len(heap) + 1
      BY <1>0, <1>1, <1>5
    <2>2. /\ Len(heap') = n /\ heap'[n] = page
          /\ \A p \in 1 .. Len(heap) : heap'[p] = heap[p]
      <3>1. n > Len(heap) /\ \A p \in 1 .. Len(heap) : p # n
        BY <1>1, <1>5
      <3>2. /\ Len(heap') = IF n > Len(heap) THEN n ELSE Len(heap)
            /\ heap'[n] = page
            /\ \A p \in 1 .. Len(heap) : p # n => heap'[p] = heap[p]
        BY <1>1, <1>2, <2>1, WritePageAt
      <3> QED
        BY <3>1, <3>2
    <2>3. \A p \in 1 .. Len(heap') : \A j \in 1 .. Len(heap'[p]) :
                \/ p = n /\ j = k
                \/ p \in 1 .. Len(heap) /\ j \in 1 .. Len(heap[p])
      <3>0. \A j \in 1 .. Len(heap'[n]) : j = k
        <4>1. Len(heap'[n]) = 1
          BY <1>0, <2>1, <2>2
        <4> QED
          BY <2>1, <4>1
      <3> SUFFICES ASSUME NEW p \in 1 .. Len(heap'), NEW j \in 1 .. Len(heap'[p]), p # n
                   PROVE  p \in 1 .. Len(heap) /\ j \in 1 .. Len(heap[p])
        BY <3>0
      <3>1. p \in 1 .. Len(heap)
        BY <1>1, <1>5, <2>2
      <3> QED
        BY <2>2, <3>1
    <2>4. n \in 1 .. Len(heap') /\ k \in 1 .. Len(heap'[n])
      BY <1>0, <1>1, <1>5, <2>1, <2>2
    <2>5. /\ Len(heap) <= Len(heap')
          /\ \A p \in 1 .. Len(heap) : Len(heap[p]) <= Len(heap'[p])
      BY <1>1, <1>5, <2>2
    <2> QED
      BY <1>2, <2>1, <2>2, <2>3, <2>4, <2>5 DEF t
  <1>6. CASE n = Len(heap) /\ n \in 1 .. Len(heap) /\ page = Append(heap[n], t)
    <2>1. /\ page \in Seq(Tuples) /\ k = Len(heap[n]) + 1 /\ page[k] = t
          /\ \A j \in 1 .. Len(heap[n]) : page[j] = heap[n][j]
      BY <1>0, <1>1, <1>6
    <2>2. /\ Len(heap') = Len(heap) /\ heap'[n] = page
          /\ \A p \in 1 .. Len(heap) : p # n => heap'[p] = heap[p]
      <3>1. n \in 1 .. Len(heap) + 1 /\ ~(n > Len(heap))
        BY <1>1, <1>6
      <3> QED
        BY <1>1, <1>2, <2>1, <3>1, WritePageAt
    <2>3. \A p \in 1 .. Len(heap') : \A j \in 1 .. Len(heap'[p]) :
                \/ p = n /\ j = k
                \/ p \in 1 .. Len(heap) /\ j \in 1 .. Len(heap[p])
      <3> SUFFICES ASSUME NEW p \in 1 .. Len(heap), NEW j \in 1 .. Len(heap'[p]),
                          p # n \/ j # k
                   PROVE  j \in 1 .. Len(heap[p])
        BY <2>2
      <3>1. CASE p # n
        BY <2>2, <3>1
      <3>2. CASE p = n
        <4>1. Len(heap'[p]) = Len(heap[p]) + 1 /\ j # Len(heap[p]) + 1 /\ Len(heap[p]) \in Nat
          BY <1>0, <1>1, <2>1, <2>2, <3>2
        <4> QED
          BY <4>1
      <3> QED
        BY <3>1, <3>2
    <2>4. \A p \in 1 .. Len(heap) :
                /\ Len(heap[p]) <= Len(heap'[p])
                /\ \A j \in 1 .. Len(heap[p]) : heap'[p][j] = heap[p][j]
      <3>1. /\ Len(heap[n]) <= Len(heap'[n])
            /\ \A j \in 1 .. Len(heap[n]) : heap'[n][j] = heap[n][j]
        BY <1>0, <1>1, <1>6, <2>1, <2>2
      <3>2. \A p \in 1 .. Len(heap) : p # n => Len(heap[p]) <= Len(heap'[p])
        BY <1>1, <2>2
      <3>3. \A p \in 1 .. Len(heap) : p # n => heap'[p] = heap[p]
        BY <2>2
      <3> QED
        BY <3>1, <3>2, <3>3
    <2>5. k \in 1 .. Len(heap'[n])
      BY <1>0, <1>1, <1>6, <2>1, <2>2
    <2> QED
      BY <1>1, <1>2, <1>6, <2>1, <2>2, <2>3, <2>4, <2>5 DEF t
  <1> QED
    BY <1>4, <1>5, <1>6

\* The number of the next row of a transaction is free.
LEMMA NewRow ==
    ASSUME Inv, Numbered, NEW c \in Conns, xid[c] # 0
    PROVE  /\ NewTuple(c) \in Tuples /\ NewTuple(c).row \notin acked
           /\ NewTuple(c).row.by = xid[c] /\ NewTuple(c).xmin = xid[c] /\ NewTuple(c).xmax = 0
           /\ NewTuple(c).row.n = Cardinality(RowsOf(xid[c])) + 1
           /\ Cardinality(RowsOf(xid[c])) \in Nat
  <1> DEFINE size == Cardinality(RowsOf(xid[c]))
  <1>1. NewTuple(c) = [xmin |-> xid[c], xmax |-> 0, row |-> [by |-> xid[c], n |-> size + 1]]
    BY DEF NewTuple, RowsOf
  <1>2. size \in Nat
    <2>1. IsFiniteSet(acked) /\ RowsOf(xid[c]) \subseteq acked
      BY DEF Inv, TypeOK, RowsOf
    <2> QED
      BY <2>1, FS_Subset, FS_CardinalityType
  <1>3. \A r \in acked : r.by = xid[c] => r.n <= size
    BY DEF Numbered
  <1>4. xid[c] \in XIDs
    BY DEF Inv, TypeOK, XIDs
  <1> HIDE DEF size
  <1>5. NewTuple(c) \in Tuples
    BY <1>1, <1>2, <1>4 DEF Tuples, Rows, XIDs
  <1>6. NewTuple(c).row \notin acked
    <2>1. /\ NewTuple(c).row.by = xid[c] /\ NewTuple(c).row.n = size + 1
          /\ ~(size + 1 <= size)
      BY <1>1, <1>2
    <2> QED
      BY <1>3, <2>1
  <1> QED
    BY <1>1, <1>2, <1>5, <1>6 DEF size

\* A new row is stored in a new place, with the header of its creator.
LEMMA InsertWriteH ==
    ASSUME Inv, Inv', HInv, NEW c \in Conns, UNCHANGED <<connTxn, queries>>, InsertWrite(c)
    PROVE  HInv'
  <1>0. /\ pc \in [Conns -> Locations] /\ buf \in [Conns -> Buffers]
        /\ scan \in [Conns -> ScanStates] /\ TypeOK
    BY DEF Inv, TypeOK
  <1>1. /\ scan'[c].page = scan[c].page /\ scan'[c].pageNum = scan[c].pageNum
        /\ \A d \in Conns \ {c} : scan'[d] = scan[d]
    BY <1>0, NextItemEffect DEF InsertWrite
  <1>2. /\ \A d \in Conns \ {c} : Same(d)
        /\ UNCHANGED <<marked, raced, xid, stmt>> /\ pc[c] = "insWrite"
        /\ pc'[c] = IF stmt[c] = "UPDATE" THEN "item" ELSE "commit"
    BY <1>0, <1>1 DEF InsertWrite, Goto, execLocals, Same
  <1>3. CASE raced
    BY <1>2, <1>3 DEF HInv
  <1>4. CASE ~raced
    <2> DEFINE t == NewTuple(c)
    <2>0. PICK n, k : n = buf[c].num /\ k = Len(buf[c].page)
      OBVIOUS
    <2>1. StoredOnce /\ HeadersTrue /\ Numbered
      BY <1>4 DEF HInv
    <2>2. xid[c] # 0
      BY <1>2 DEF Inv, XIDStates, XIDStateOf, Inserts, Running
    <2>3. /\ t \in Tuples /\ t.row \notin acked
          /\ t.row.by = xid[c] /\ t.xmin = xid[c] /\ t.xmax = 0
          /\ t.row.n = Cardinality(RowsOf(xid[c])) + 1
          /\ Cardinality(RowsOf(xid[c])) \in Nat
      BY <2>1, <2>2, NewRow
    <2>4. /\ n \in 1 .. Len(heap') /\ k \in 1 .. Len(heap'[n]) /\ heap'[n][k] = t
          /\ Len(heap) <= Len(heap')
          /\ \A p \in 1 .. Len(heap) :
               /\ Len(heap[p]) <= Len(heap'[p])
               /\ \A j \in 1 .. Len(heap[p]) : heap'[p][j] = heap[p][j]
          /\ \A p \in 1 .. Len(heap') : \A j \in 1 .. Len(heap'[p]) :
               \/ p = n /\ j = k
               \/ p \in 1 .. Len(heap) /\ j \in 1 .. Len(heap[p])
          /\ acked' = acked \cup {t.row}
      <3>1. NewTuple(c) \in Tuples
        BY <2>3
      <3> QED
        BY <1>4, <2>0, <3>1, InsertWriteEffect
    <2> HIDE DEF t
    <2>5. ASSUME NEW p \in 1 .. Len(heap'), NEW j \in 1 .. Len(heap'[p])
          PROVE  \/ p = n /\ j = k /\ heap'[p][j].row = t.row
                 \/ /\ p \in 1 .. Len(heap) /\ j \in 1 .. Len(heap[p])
                    /\ heap'[p][j] = heap[p][j] /\ heap'[p][j].row \in acked
      BY <2>1, <2>4, <2>5 DEF StoredOnce
    <2>6. StoredOnce'
      <3>1. ASSUME NEW p \in 1 .. Len(heap'), NEW q \in 1 .. Len(heap'),
                   NEW i \in 1 .. Len(heap'[p]), NEW j \in 1 .. Len(heap'[q]),
                   heap'[p][i].row = heap'[q][j].row
            PROVE  p = q /\ i = j
        <4>1. CASE heap'[p][i].row = t.row
          BY <2>3, <2>5, <3>1, <4>1
        <4>2. CASE heap'[p][i].row # t.row
          <5>1. /\ p \in 1 .. Len(heap) /\ i \in 1 .. Len(heap[p]) /\ heap'[p][i] = heap[p][i]
                /\ q \in 1 .. Len(heap) /\ j \in 1 .. Len(heap[q]) /\ heap'[q][j] = heap[q][j]
            BY <2>5, <3>1, <4>2
          <5> QED
            BY <2>1, <3>1, <5>1 DEF StoredOnce
        <4> QED
          BY <4>1, <4>2
      <3>2. \A p \in 1 .. Len(heap') : \A j \in 1 .. Len(heap'[p]) : heap'[p][j].row \in acked'
        BY <2>4, <2>5
      <3>3. ASSUME NEW r \in acked
            PROVE  \E p \in 1 .. Len(heap') : \E i \in 1 .. Len(heap'[p]) : heap'[p][i].row = r
        <4>1. PICK p \in 1 .. Len(heap) : \E i \in 1 .. Len(heap[p]) : heap[p][i].row = r
          BY <2>1 DEF StoredOnce
        <4>2. PICK i \in 1 .. Len(heap[p]) : heap[p][i].row = r
          BY <4>1
        <4>3. Len(heap) \in Nat /\ Len(heap') \in Nat /\ Len(heap[p]) \in Nat /\ Len(heap'[p]) \in Nat
          <5>1. heap \in Seq(Seq(Tuples)) /\ heap' \in Seq(Seq(Tuples))
            BY DEF Inv, TypeOK
          <5>2. Len(heap) \in Nat /\ Len(heap') \in Nat /\ p \in 1 .. Len(heap')
            BY <2>4, <5>1
          <5> QED
            BY <5>1, <5>2
        <4>4. p \in 1 .. Len(heap') /\ i \in 1 .. Len(heap'[p]) /\ heap'[p][i] = heap[p][i]
          BY <2>4, <4>3
        <4> QED
          BY <4>2, <4>4
      <3>4. \A r \in acked' : \E p \in 1 .. Len(heap') : \E i \in 1 .. Len(heap'[p]) :
                heap'[p][i].row = r
        BY <2>4, <3>3
      <3> QED
        BY <3>1, <3>2, <3>4 DEF StoredOnce
    <2>7. HeadersTrue'
      <3>1. ASSUME NEW p \in 1 .. Len(heap'), NEW j \in 1 .. Len(heap'[p])
            PROVE  /\ heap'[p][j].xmin = heap'[p][j].row.by
                   /\ heap'[p][j].xmax = 0 => \A m \in marked : m[1] # heap'[p][j].row
                   /\ heap'[p][j].xmax # 0 => <<heap'[p][j].row, heap'[p][j].xmax>> \in marked
        <4>1. CASE p = n /\ j = k
          <5>1. heap'[p][j] = t
            BY <2>4, <4>1
          <5>2. \A m \in marked : m[1] # t.row
            BY <2>1, <2>3 DEF Numbered
          <5> QED
            BY <2>3, <5>1, <5>2
        <4>2. CASE p \in 1 .. Len(heap) /\ j \in 1 .. Len(heap[p]) /\ heap'[p][j] = heap[p][j]
          BY <2>1, <4>2 DEF HeadersTrue
        <4> QED
          BY <2>5, <4>1, <4>2
      <3> QED
        BY <1>2, <3>1 DEF HeadersTrue
    <2>8. Numbered'
      <3>1. IsFiniteSet(RowsOf(xid[c])) /\ t.row \notin RowsOf(xid[c])
        <4>1. IsFiniteSet(acked) /\ RowsOf(xid[c]) \subseteq acked
          BY <1>0 DEF TypeOK, RowsOf
        <4> QED
          BY <2>3, <4>1, FS_Subset
      <3>2. RowsOf(xid[c])' = RowsOf(xid[c]) \cup {t.row}
        BY <1>2, <2>3, <2>4 DEF RowsOf
      <3>3. Cardinality(RowsOf(xid[c])') = Cardinality(RowsOf(xid[c])) + 1
        BY <3>1, <3>2, FS_AddElement
      <3>4. ASSUME NEW x, x # xid[c] PROVE RowsOf(x)' = RowsOf(x)
        BY <2>3, <2>4, <3>4 DEF RowsOf
      <3>5. ASSUME NEW r \in acked' PROVE r.n <= Cardinality(RowsOf(r.by)')
        <4>1. CASE r = t.row
          BY <1>2, <2>3, <3>3, <4>1
        <4>2. CASE r \in acked /\ r.by = xid[c]
          <5>1. r.n \in Nat /\ r.n <= Cardinality(RowsOf(xid[c]))
            BY <1>0, <2>1, <4>2 DEF TypeOK, Rows, XIDs, Numbered
          <5>2. r.n <= Cardinality(RowsOf(xid[c])')
            BY <2>3, <3>3, <5>1
          <5> QED
            BY <1>2, <4>2, <5>2
        <4>3. CASE r \in acked /\ r.by # xid[c]
          BY <2>1, <3>4, <4>3 DEF Numbered
        <4> QED
          BY <2>4, <4>1, <4>2, <4>3
      <3>6. \A m \in marked' : m[1] \in acked'
        BY <1>2, <2>1, <2>4 DEF Numbered
      <3> QED
        BY <3>5, <3>6 DEF Numbered
    <2>9. FileGrows
      BY <2>4 DEF FileGrows, Extends
    <2>10. CopyOf(c)'
      <3>1. CASE stmt[c] = "UPDATE"
        <4>1. HasCopy(c) /\ CopyOf(c)
          BY <1>2, <1>4, <3>1 DEF HInv, HasCopy, Inserts
        <4> QED
          BY <1>1, <2>9, <4>1, CopyKept
      <3>2. CASE stmt[c] # "UPDATE"
        BY <1>2, <3>2 DEF CopyOf, HasCopy, Inserts, Headers
      <3> QED
        BY <3>1, <3>2
    <2>11. BufOf(c)' /\ pc[c] \in Window /\ pc'[c] \notin Window
      BY <1>2 DEF BufOf, Window
    <2> QED
      BY <1>2, <1>4, <2>6, <2>7, <2>8, <2>9, <2>10, <2>11, HFrame DEF Consistent
  <1> QED
    BY <1>3, <1>4

-----------------------------------------------------------------------------
(***************************************************************************)
(* The invariant, and the theorem.                                         *)
(***************************************************************************)

\* The preloaded rows are stored once each, in one page.
LEMMA HInitInv == Init => HInv
  <1> SUFFICES ASSUME Init PROVE HInv
    OBVIOUS
  <1>1. Preloaded \in Nat /\ (\A c \in Conns : pc[c] = "closed") /\ marked = {}
    BY SessionAssumption, PageCapacityAssumption DEF Init
  <1>2. OneWindow /\ \A c \in Conns : BufOf(c) /\ CopyOf(c)
    BY <1>1 DEF OneWindow, BufOf, CopyOf, HasCopy, Window, Headers, Inserts
  <1>3. acked = {[by |-> i, n |-> 1] : i \in 1 .. Preloaded}
    BY DEF Init
  <1>4. /\ Preloaded = 0 => Len(heap) = 0
        /\ Preloaded # 0 =>
            /\ Len(heap) = 1 /\ Len(heap[1]) = Preloaded
            /\ \A i \in 1 .. Preloaded :
                heap[1][i] = [xmin |-> i, xmax |-> 0, row |-> [by |-> i, n |-> 1]]
    <2>1. heap = IF Preloaded = 0 THEN <<>> ELSE <<PreloadedPage>>
      BY DEF Init
    <2>2. /\ Len(PreloadedPage) = Preloaded
          /\ \A i \in 1 .. Preloaded :
                PreloadedPage[i] = [xmin |-> i, xmax |-> 0, row |-> [by |-> i, n |-> 1]]
      BY <1>1 DEF PreloadedPage
    <2> QED
      BY <2>1, <2>2
  <1>5. ASSUME NEW p \in 1 .. Len(heap), NEW i \in 1 .. Len(heap[p])
        PROVE  /\ p = 1 /\ i \in 1 .. Preloaded
               /\ heap[p][i].xmin = i /\ heap[p][i].xmax = 0
               /\ heap[p][i].row = [by |-> i, n |-> 1]
               /\ heap[p][i].row.by = i
    <2>1. Preloaded # 0 /\ p = 1
      BY <1>4
    <2>2. i \in 1 .. Preloaded
      BY <1>4, <2>1
    <2>3. heap[p][i] = [xmin |-> i, xmax |-> 0, row |-> [by |-> i, n |-> 1]]
      BY <1>4, <2>1, <2>2
    <2> QED
      BY <2>1, <2>2, <2>3
  <1>6. StoredOnce
    <2>1. \A p, q \in 1 .. Len(heap) : \A i \in 1 .. Len(heap[p]), j \in 1 .. Len(heap[q]) :
            heap[p][i].row = heap[q][j].row => p = q /\ i = j
      <3> SUFFICES ASSUME NEW p \in 1 .. Len(heap), NEW q \in 1 .. Len(heap),
                          NEW i \in 1 .. Len(heap[p]), NEW j \in 1 .. Len(heap[q]),
                          heap[p][i].row = heap[q][j].row
                   PROVE  p = q /\ i = j
        OBVIOUS
      <3>1. p = q /\ heap[p][i].row.by = i /\ heap[q][j].row.by = j
        BY <1>5
      <3> QED
        BY <3>1
    <2>2. \A p \in 1 .. Len(heap) : \A i \in 1 .. Len(heap[p]) : heap[p][i].row \in acked
      BY <1>3, <1>5
    <2>3. ASSUME NEW r \in acked
          PROVE  \E p \in 1 .. Len(heap) : \E i \in 1 .. Len(heap[p]) : heap[p][i].row = r
      <3>1. PICK i \in 1 .. Preloaded : r = [by |-> i, n |-> 1]
        BY <1>3
      <3>2. 1 \in 1 .. Len(heap) /\ i \in 1 .. Len(heap[1]) /\ heap[1][i].row = r
        <4>1. Preloaded # 0
          BY <1>1, <3>1
        <4>2. heap[1][i] = [xmin |-> i, xmax |-> 0, row |-> [by |-> i, n |-> 1]]
          BY <1>4, <4>1
        <4> QED
          BY <1>4, <3>1, <4>1, <4>2
      <3> QED
        BY <3>2
    <2> QED
      BY <2>1, <2>2, <2>3 DEF StoredOnce
  <1>7. HeadersTrue
    <2> SUFFICES ASSUME NEW p \in 1 .. Len(heap), NEW i \in 1 .. Len(heap[p])
                 PROVE  heap[p][i].xmin = heap[p][i].row.by /\ heap[p][i].xmax = 0
      BY <1>1 DEF HeadersTrue
    <2> QED
      BY <1>5
  <1>8. Numbered
    <2> SUFFICES ASSUME NEW r \in acked PROVE r.n <= Cardinality(RowsOf(r.by))
      BY <1>1 DEF Numbered
    <2>1. PICK i \in 1 .. Preloaded : r = [by |-> i, n |-> 1]
      BY <1>3
    <2>2. RowsOf(r.by) = {r}
      BY <1>3, <2>1 DEF RowsOf
    <2>3. Cardinality(RowsOf(r.by)) = 1
      BY <2>2, FS_Singleton
    <2> QED
      BY <2>1, <2>3
  <1> QED
    BY <1>2, <1>6, <1>7, <1>8 DEF HInv

\* Every step, of whatever connection, keeps the invariant.
LEMMA HNextInv == Inv /\ HInv /\ [Next]_vars => HInv'
  <1> SUFFICES ASSUME Inv, HInv, [Next]_vars PROVE HInv'
    OBVIOUS
  <1>0. Inv'
    BY NextInv
  <1>1. CASE UNCHANGED vars
    <2> USE <1>1 DEF vars
    <2>1. (\A c : Item(c)' = Item(c)) /\ \A x : RowsOf(x)' = RowsOf(x)
      BY DEF Item, RowsOf
    <2>2. \A c : MarkedHeader(c)' = MarkedHeader(c) /\ NewTuple(c)' = NewTuple(c)
      BY <2>1 DEF MarkedHeader, NewTuple
    <2>3. OneWindow' = OneWindow /\ \A c : BufOf(c)' = BufOf(c) /\ CopyOf(c)' = CopyOf(c)
      BY <2>2 DEF OneWindow, BufOf, CopyOf, HasCopy
    <2>4. StoredOnce' = StoredOnce /\ HeadersTrue' = HeadersTrue /\ Numbered' = Numbered
      BY <2>1 DEF StoredOnce, HeadersTrue, Numbered
    <2> QED
      BY <2>3, <2>4 DEF HInv
  <1>2. ASSUME NEW c \in Conns, Execute(c), UNCHANGED <<connTxn, queries>>
        PROVE  HInv'
    BY <1>0, <1>2, StatementH, ScanPageH, ItemH, HeaderReadH, HeaderWriteH,
       InsertCountH, InsertReadH, InsertWriteH
       DEF Execute
  <1> QED
    BY <1>0, <1>1, <1>2, ControlH DEF Next, Working

\* The invariant, in terms of the places of the heap.
LEMMA IntactFromInv == Inv /\ HInv => HeapIntactUnlessRaced
  <1> SUFFICES ASSUME Inv, HInv, ~raced
               PROVE  /\ \A r \in acked : Cardinality({s \in Slots : At(s).row = r}) = 1
                      /\ \A s \in Slots :
                          /\ At(s).xmin = At(s).row.by
                          /\ IF At(s).xmax = 0
                             THEN \A m \in marked : m[1] # At(s).row
                             ELSE <<At(s).row, At(s).xmax>> \in marked
    BY DEF HeapIntactUnlessRaced
  <1>1. StoredOnce /\ HeadersTrue
    BY DEF HInv
  <1>2. ASSUME NEW s \in Slots
        PROVE  \E p \in 1 .. Len(heap) : \E i \in 1 .. Len(heap[p]) :
                    s = <<p, i>> /\ At(s) = heap[p][i]
    BY DEF Slots, At
  <1>3. ASSUME NEW r \in acked
        PROVE  Cardinality({s \in Slots : At(s).row = r}) = 1
    <2>1. PICK p \in 1 .. Len(heap) : \E i \in 1 .. Len(heap[p]) : heap[p][i].row = r
      BY <1>1 DEF StoredOnce
    <2>2. PICK i \in 1 .. Len(heap[p]) : heap[p][i].row = r
      BY <2>1
    <2>3. <<p, i>> \in Slots /\ At(<<p, i>>).row = r
      BY <2>2 DEF Slots, At
    <2>4. ASSUME NEW s \in Slots, At(s).row = r PROVE s = <<p, i>>
      <3>1. PICK q \in 1 .. Len(heap) : \E j \in 1 .. Len(heap[q]) :
                    s = <<q, j>> /\ At(s) = heap[q][j]
        BY <1>2
      <3>2. PICK j \in 1 .. Len(heap[q]) : s = <<q, j>> /\ At(s) = heap[q][j]
        BY <3>1
      <3>3. q = p /\ j = i
        BY <1>1, <2>2, <2>4, <3>2 DEF StoredOnce
      <3> QED
        BY <3>2, <3>3
    <2>5. {s \in Slots : At(s).row = r} = {<<p, i>>}
      BY <2>3, <2>4
    <2> QED
      BY <2>5, FS_Singleton
  <1>4. ASSUME NEW s \in Slots
        PROVE  /\ At(s).xmin = At(s).row.by
               /\ IF At(s).xmax = 0
                  THEN \A m \in marked : m[1] # At(s).row
                  ELSE <<At(s).row, At(s).xmax>> \in marked
    BY <1>1, <1>2 DEF HeadersTrue
  <1> QED
    BY <1>3, <1>4

\* As long as no two read-modify-writes of a page have overlapped, the heap is
\* what the statements made it, however the connections interleave otherwise.
THEOREM HeapStaysIntact == Spec => []HeapIntactUnlessRaced
  BY InitInv, NextInv, HInitInv, HNextInv, IntactFromInv, PTL DEF Spec

-----------------------------------------------------------------------------
(***************************************************************************)
(* What scans read and mark, by the creators of the rows.  A scan works on *)
(* copies, and decides by the xmin words in them; HInv says that the words *)
(* are the creators and that a copied item is still in its slot.           *)
(***************************************************************************)

\* Collected rows have their creators' XIDs as xmin, and nobody has marked a row
\* of its own.
CreatorsTrue ==
    ~raced => /\ \A c \in Conns : \A t \in rows[c] : t.xmin = t.row.by
              /\ NoSelfUpdate

\* Overlapping read-modify-writes are not forgotten.
LEMMA RacedStays ==
    ASSUME TypeOK, [Next]_vars, ~raced'
    PROVE  ~raced
  <1> DEFINE Overlap(c) == raced \/ \E d \in Conns \ {c} : pc[d] \in Window
  <1>1. ASSUME NEW c \in Conns, OpenWindow(c) PROVE ~raced
    <2>1. raced' = Overlap(c) /\ Overlap(c) \in BOOLEAN
      BY <1>1 DEF OpenWindow
    <2>2. ~Overlap(c)
      BY <2>1
    <2> QED
      BY <2>2
  <1>2. ASSUME NEW c \in Conns, Execute(c) PROVE OpenWindow(c) \/ raced' = raced
    BY <1>2 DEF Execute, OpenTable, CountPages, ScanPage, ScanEnd, SkipItem, MatchItem,
                PageDone, HeaderRead, HeaderWrite, InsertCount, InsertRead, InsertWrite,
                Finish, FailPlain, FailAbort, Return, history
  <1>3. ASSUME NEW c \in Conns,
               \/ Connect(c) \/ Disconnect(c) \/ ParseError(c) \/ RejectFailed(c)
               \/ BeginStatement(c) \/ CommitStatement(c) \/ RollbackStatement(c)
               \/ (\E op \in Ops : StartStatement(c, op)) \/ Respond(c)
        PROVE  raced' = raced
    BY <1>3 DEF Connect, Disconnect, ParseError, RejectFailed, BeginStatement, CommitStatement,
                RollbackStatement, StartStatement, Respond, executorVars, history
  <1>4. CASE UNCHANGED vars
    BY <1>4 DEF vars
  <1> QED
    BY <1>1, <1>2, <1>3, <1>4 DEF Next, Working

\* Only UpdateTupleHeader's write marks a row.
LEMMA MarkedStep ==
    ASSUME Next
    PROVE  marked' = marked \/ \E c \in Conns : HeaderWrite(c)
  <1>1. ASSUME NEW c \in Conns, Execute(c) PROVE HeaderWrite(c) \/ marked' = marked
    BY <1>1 DEF Execute, OpenTable, CountPages, ScanPage, ScanEnd, SkipItem, MatchItem,
                PageDone, HeaderRead, InsertCount, InsertRead, InsertWrite,
                Finish, FailPlain, FailAbort, Return, history
  <1>2. ASSUME NEW c \in Conns,
               \/ Connect(c) \/ Disconnect(c) \/ ParseError(c) \/ RejectFailed(c)
               \/ BeginStatement(c) \/ CommitStatement(c) \/ RollbackStatement(c)
               \/ (\E op \in Ops : StartStatement(c, op)) \/ Respond(c)
        PROVE  marked' = marked
    BY <1>2 DEF Connect, Disconnect, ParseError, RejectFailed, BeginStatement, CommitStatement,
                RollbackStatement, StartStatement, Respond, executorVars, history
  <1> QED
    BY <1>1, <1>2 DEF Next, Working

\* An item of a copy is the tuple in its slot, up to its xmax, and its xmin word
\* is its creator.
LEMMA ItemTrue ==
    ASSUME Inv, HInv, ~raced, NEW c \in Conns, HasCopy(c),
           scan[c].itemIdx <= Len(scan[c].page)
    PROVE  /\ Item(c).xmin = Item(c).row.by
           /\ heap[scan[c].pageNum][scan[c].itemIdx].row = Item(c).row
  <1> DEFINE n == scan[c].pageNum
             i == scan[c].itemIdx
  <1>1. /\ n \in 1 .. Len(heap) /\ i \in Nat \ {0}
        /\ scan[c].page \in Seq(Tuples) /\ heap[n] \in Seq(Tuples)
    BY CopyInFile
  <1>2. Extends(scan[c].page, heap[n]) /\ HeadersTrue
    BY DEF HInv, CopyOf
  <1>3. i \in 1 .. Len(scan[c].page) /\ i \in 1 .. Len(heap[n])
    BY <1>1, <1>2 DEF Extends
  <1>4. /\ scan[c].page[i].row = heap[n][i].row /\ scan[c].page[i].xmin = heap[n][i].xmin
        /\ heap[n][i].xmin = heap[n][i].row.by
    BY <1>1, <1>2, <1>3 DEF Extends, HeadersTrue
  <1> QED
    BY <1>4 DEF Item

\* The rows a connection marks are of committed transactions, its own has no
\* outcome yet.
LEMMA MarksOthers ==
    ASSUME Inv, HInv, OnlyCommitted, ~raced, NEW c \in Conns, HeaderWrite(c),
           NEW m \in marked', m \notin marked
    PROVE  m[1].by # m[2]
  <1>1. pc[c] \in Headers /\ HasCopy(c) /\ scan[c].itemIdx <= Len(scan[c].page)
    <2>1. pc[c] \in Headers
      BY DEF HeaderWrite, Headers
    <2> QED
      BY <2>1 DEF HasCopy, Inv, WithinFile, WithinFileOf
  <1>2. PICK n, i : n = scan[c].pageNum /\ i = scan[c].itemIdx
    OBVIOUS
  <1>3. marked' = marked \cup {<<heap[n][i].row, xid[c]>>}
    BY <1>2, HeaderWriteEffect
  <1>4. m = <<Item(c).row, xid[c]>> /\ Item(c).xmin = Item(c).row.by
    BY <1>1, <1>2, <1>3, ItemTrue
  <1>5. Item(c).xmin \in DOMAIN statuses
    BY <1>1 DEF OnlyCommitted, GetStatus, InProgress, Committed
  <1>6. xid[c] \in Held(c)
    BY <1>1 DEF Inv, XIDStates, XIDStateOf, Held, Headers, Running
  <1>7. Item(c).xmin # xid[c]
    BY <1>5, <1>6 DEF Inv, XIDsExclusive
  <1> QED
    BY <1>4, <1>7

\* CreatorsTrue is inductive relative to the other invariants.
LEMMA CreatorsTrueInv ==
    /\ Init => CreatorsTrue
    /\ Inv /\ HInv /\ OnlyCommitted /\ CreatorsTrue /\ [Next]_vars => CreatorsTrue'
  <1>1. Init => CreatorsTrue
    BY DEF Init, CreatorsTrue, NoSelfUpdate
  <1>2. ASSUME Inv, HInv, OnlyCommitted, CreatorsTrue, Next, ~raced'
        PROVE  CreatorsTrue'
    <2>1. ~raced /\ CreatorsTrue
      BY <1>2, RacedStays DEF Inv
    <2>2. PICK c \in Conns : ReadStep(c)
      BY <1>2, ExecuteReads, ControlReads DEF Next, Working
    <2>3. ASSUME NEW d \in Conns, NEW t \in rows'[d]
          PROVE  t.xmin = t.row.by
      <3>1. CASE t \in rows[d]
        BY <2>1, <3>1 DEF CreatorsTrue
      <3>2. CASE t \notin rows[d]
        <4>1. d = c /\ t = Item(c) /\ AtItem(c)
          BY <2>2, <2>3, <3>2 DEF ReadStep, Same
        <4>2. HasCopy(c) /\ scan[c].itemIdx <= Len(scan[c].page)
          BY <4>1 DEF AtItem, HasCopy
        <4> QED
          BY <1>2, <2>1, <4>1, <4>2, ItemTrue
      <3> QED
        BY <3>1, <3>2
    <2>4. ASSUME NEW m \in marked' PROVE m[1].by # m[2]
      <3>1. CASE m \in marked
        BY <2>1, <3>1 DEF CreatorsTrue, NoSelfUpdate
      <3>2. CASE m \notin marked
        BY <1>2, <2>1, <2>4, <3>2, MarkedStep, MarksOthers
      <3> QED
        BY <3>1, <3>2
    <2> QED
      BY <2>3, <2>4 DEF CreatorsTrue, NoSelfUpdate
  <1>3. ASSUME CreatorsTrue, UNCHANGED vars PROVE CreatorsTrue'
    BY <1>3 DEF CreatorsTrue, NoSelfUpdate, vars
  <1>4. ASSUME raced' PROVE CreatorsTrue'
    BY <1>4 DEF CreatorsTrue
  <1> QED
    BY <1>1, <1>2, <1>3, <1>4

\* As long as no two read-modify-writes have overlapped, every row that a SELECT
\* collects was created by a committed transaction.
THEOREM ReadsAreClean == Spec => []NoDirtyRead
  <1>1. OnlyCommitted /\ CreatorsTrue => NoDirtyRead
    BY DEF OnlyCommitted, CreatorsTrue, NoDirtyRead
  <1> QED
    BY <1>1, InitInv, NextInv, HInitInv, HNextInv, OnlyCommittedInv, CreatorsTrueInv,
       PTL DEF Spec

\* As long as no two read-modify-writes have overlapped, no transaction marks a
\* row it has created itself.
THEOREM NobodyMarksItsOwn == Spec => []NoSelfUpdate
  <1>1. CreatorsTrue => NoSelfUpdate
    BY DEF CreatorsTrue, NoSelfUpdate
  <1> QED
    BY <1>1, InitInv, NextInv, HInitInv, HNextInv, OnlyCommittedInv, CreatorsTrueInv,
       PTL DEF Spec
=============================================================================
