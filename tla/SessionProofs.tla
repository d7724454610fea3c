--------------------------- MODULE SessionProofs ----------------------------
(***************************************************************************)
(* Theorems about module Session, for any set of connections, any page     *)
(* capacity, any number of queries and any number of preloaded rows.       *)
(***************************************************************************)
EXTENDS Session, FiniteSetTheorems, TLAPS

Inv == TypeOK /\ XIDStates /\ XIDsExclusive /\ WithinFile

-----------------------------------------------------------------------------
(***************************************************************************)
(* The operators of TxnManager and Heap.                                   *)
(***************************************************************************)

\* Nobody records the status InProgress, so a snapshot's Xip is empty.
LEMMA SnapshotOfNow ==
    ASSUME TypeOK
    PROVE  /\ TakeSnapshot = [Xmin |-> nextXID + 1, Xmax |-> nextXID + 1, Xip |-> {}]
           /\ TakeSnapshot \in Snapshots
  <1>1. nextXID + 1 \in XIDs
    BY DEF TypeOK, XIDs
  <1>2. {x \in DOMAIN statuses : statuses[x] = InProgress} = {}
    BY DEF TypeOK, InProgress, Committed, Aborted
  <1>3. Min({nextXID + 1}) = nextXID + 1
    BY <1>1 DEF Min, XIDs
  <1>4. {nextXID + 1} \cup {} = {nextXID + 1}
    OBVIOUS
  <1>5. TakeSnapshot = [Xmin |-> nextXID + 1, Xmax |-> nextXID + 1, Xip |-> {}]
    BY <1>2, <1>3, <1>4, Zenon DEF TakeSnapshot
  <1> QED
    BY <1>1, <1>5 DEF Snapshots

\* SetStatus adds one XID to the map and leaves the others as they are.
LEMMA SetStatusEffect ==
    ASSUME TypeOK, NEW x, NEW s \in {Committed, Aborted}, SetStatus(x, s)
    PROVE  /\ DOMAIN statuses' = DOMAIN statuses \cup {x}
           /\ statuses'[x] = s
           /\ \A y \in DOMAIN statuses : y # x => statuses'[y] = statuses[y]
           /\ statuses' \in [DOMAIN statuses' -> {Committed, Aborted}]
  BY DEF SetStatus, TypeOK

\* A step that records at most one outcome keeps the map well typed.
LEMMA StatusStep ==
    ASSUME TypeOK, NEW x,
           UNCHANGED statuses \/ \E s \in {Committed, Aborted} : SetStatus(x, s)
    PROVE  /\ statuses' \in [DOMAIN statuses' -> {Committed, Aborted}]
           /\ DOMAIN statuses' \subseteq DOMAIN statuses \cup {x}
  <1>1. CASE UNCHANGED statuses
    BY <1>1 DEF TypeOK
  <1>2. CASE \E s \in {Committed, Aborted} : SetStatus(x, s)
    BY <1>2, SetStatusEffect
  <1> QED
    BY <1>1, <1>2

\* A page write replaces one page or adds the next one.
LEMMA WritePageEffect ==
    ASSUME heap \in Seq(Seq(Tuples)), NEW n \in 1 .. Len(heap) + 1,
           NEW page \in Seq(Tuples), WritePage(n, page)
    PROVE  heap' \in Seq(Seq(Tuples)) /\ Len(heap') >= Len(heap) /\ Len(heap') \in Nat
  <1> DEFINE size == IF n > Len(heap) THEN n ELSE Len(heap)
  <1>1. /\ size \in Nat /\ size >= Len(heap)
        /\ \A m \in 1 .. size : m # n => m \in 1 .. Len(heap)
    OBVIOUS
  <1>2. heap' = [m \in 1 .. size |-> IF m = n THEN page ELSE heap[m]]
    BY DEF WritePage
  <1> HIDE DEF size
  <1>3. \A m \in 1 .. size : (IF m = n THEN page ELSE heap[m]) \in Seq(Tuples)
    BY <1>1
  <1>4. heap' \in Seq(Seq(Tuples)) /\ Len(heap') = size
    BY <1>1, <1>2, <1>3
  <1> QED
    BY <1>1, <1>4

\* Rewriting the header of a slot keeps the page well formed.
LEMMA SetHeaderType ==
    ASSUME NEW page \in Seq(Tuples), NEW i \in 1 .. Len(page),
           NEW h \in [xmin : XIDs, xmax : Nat]
    PROVE  SetHeader(page, i, h) \in Seq(Tuples) /\ Len(SetHeader(page, i, h)) = Len(page)
  <1> DEFINE t == [page[i] EXCEPT !.xmin = h.xmin, !.xmax = h.xmax]
  <1>1. page[i] \in Tuples
    OBVIOUS
  <1>2. t \in Tuples
    BY <1>1 DEF Tuples
  <1>3. SetHeader(page, i, h) = [page EXCEPT ![i] = t]
    BY DEF SetHeader
  <1> HIDE DEF t
  <1> QED
    BY <1>2, <1>3

\* A tuple built for a drawn XID is well formed.
LEMMA NewTupleType ==
    ASSUME TypeOK, NEW c \in Conns, xid[c] # 0
    PROVE  NewTuple(c) \in Tuples
  <1>1. Cardinality({r \in acked : r.by = xid[c]}) \in Nat
    <2>1. IsFiniteSet({r \in acked : r.by = xid[c]})
      BY FS_Subset DEF TypeOK
    <2> QED
      BY <2>1, FS_CardinalityType
  <1>2. xid[c] \in XIDs
    BY DEF TypeOK, XIDs
  <1> QED
    BY <1>1, <1>2 DEF NewTuple, Tuples, Rows, XIDs

\* InsertTuple writes a non-empty page, the last one or the one after it.
LEMMA PlaceTupleType ==
    ASSUME NEW n \in Nat, NEW page \in Seq(Tuples), NEW t \in Tuples
    PROVE  /\ PlaceTuple(n, page, t) \in [num : {n, n + 1}, page : Seq(Tuples)]
           /\ Len(PlaceTuple(n, page, t).page) >= 1
  <1>1. /\ Append(page, t) \in Seq(Tuples) /\ Len(Append(page, t)) >= 1
        /\ <<t>> \in Seq(Tuples) /\ Len(<<t>>) >= 1
    OBVIOUS
  <1> QED
    BY <1>1 DEF PlaceTuple, AddTuple

-----------------------------------------------------------------------------
(***************************************************************************)
(* The inductive invariant.  A step is taken by one connection; Frame says *)
(* what has to be shown of that connection so that Inv holds of all.       *)
(***************************************************************************)

\* The step leaves the state of connection d alone.
Same(d) ==
    /\ pc'[d] = pc[d] /\ stmt'[d] = stmt[d] /\ snap'[d] = snap[d]
    /\ xid'[d] = xid[d] /\ autoCommit'[d] = autoCommit[d]
    /\ scan'[d] = scan[d] /\ buf'[d] = buf[d] /\ rows'[d] = rows[d]
    /\ connTxn'[d] = connTxn[d]

\* A step of c only gives outcomes to XIDs c holds, and c only comes to hold
\* XIDs it has just drawn.
XIDStep(c) ==
    /\ nextXID' >= nextXID
    /\ DOMAIN statuses' \subseteq DOMAIN statuses \cup Held(c)
    /\ Held(c)' \subseteq (Held(c) \cup {x \in Nat : x > nextXID /\ x <= nextXID'})
                             \ DOMAIN statuses'

\* If one connection takes the step and keeps its own part, Inv is kept.
LEMMA Frame ==
    ASSUME Inv, TypeOK', NEW c \in Conns,
           \A d \in Conns \ {c} : Same(d),
           Len(heap') >= Len(heap),
           XIDStep(c), XIDStateOf(c)', WithinFileOf(c)'
    PROVE  Inv'
  <1>1. /\ Len(heap) \in Nat /\ Len(heap') \in Nat
        /\ nextXID \in Nat /\ nextXID' \in Nat
    BY DEF Inv, TypeOK
  <1>2. ASSUME NEW d \in Conns, d # c
        PROVE  XIDStateOf(d)' /\ Held(d)' = Held(d)
    <2>1. Same(d) /\ XIDStateOf(d)
      BY <1>2 DEF Inv, XIDStates
    <2> QED
      BY <2>1 DEF Same, XIDStateOf, Held
  <1>3. ASSUME NEW d \in Conns, d # c
        PROVE  WithinFileOf(d)'
    <2>1. /\ Same(d) /\ WithinFileOf(d)
          /\ scan[d].pageCount \in Nat /\ buf[d].num \in Nat
      BY <1>3 DEF Inv, WithinFile, TypeOK, ScanStates, Buffers
    <2> QED
      BY <2>1, <1>1 DEF Same, WithinFileOf
  <1>4. /\ \A d \in Conns : Held(d) \subseteq 1 .. nextXID \ DOMAIN statuses
        /\ \A d, e \in Conns : d # e => Held(d) \cap Held(e) = {}
        /\ DOMAIN statuses \subseteq 1 .. nextXID
    BY DEF Inv, XIDStates, XIDsExclusive
  <1>5. XIDStates'
    <2>1. DOMAIN statuses' \subseteq 1 .. nextXID'
      BY <1>1, <1>4 DEF XIDStep
    <2> QED
      BY <1>2, <2>1 DEF XIDStates
  <1>6. XIDsExclusive'
    <2>1. Held(c)' \subseteq 1 .. nextXID' \ DOMAIN statuses'
      BY <1>1, <1>4 DEF XIDStep
    <2>2. ASSUME NEW d \in Conns, d # c
          PROVE  /\ Held(d)' \subseteq 1 .. nextXID' \ DOMAIN statuses'
                 /\ Held(d)' \cap Held(c)' = {}
      <3>1. Held(d)' = Held(d) /\ Held(d) \cap Held(c) = {}
        BY <1>2, <1>4, <2>2
      <3> QED
        BY <3>1, <1>1, <1>4 DEF XIDStep
    <2>3. ASSUME NEW d \in Conns, NEW e \in Conns, d # e
          PROVE  Held(d)' \cap Held(e)' = {}
      <3>1. CASE d = c
        BY <2>2, <2>3, <3>1
      <3>2. CASE e = c
        BY <2>2, <2>3, <3>2
      <3>3. CASE d # c /\ e # c
        BY <1>2, <1>4, <2>3, <3>3
      <3> QED
        BY <3>1, <3>2, <3>3
    <2> QED
      BY <2>1, <2>2, <2>3 DEF XIDsExclusive
  <1> QED
    BY <1>3, <1>5, <1>6 DEF Inv, WithinFile

\* A step that draws no XID and ends no transaction.
LEMMA NoXIDStep ==
    ASSUME Inv, NEW c \in Conns, UNCHANGED <<nextXID, statuses>>,
           Held(c)' \subseteq Held(c)
    PROVE  XIDStep(c)
  BY DEF Inv, TypeOK, XIDsExclusive, XIDStep

\* The values of a connection that scans and writes nothing are well typed.
LEMMA NoScanType == NoScan \in ScanStates /\ NoBuf \in Buffers
  BY DEF NoScan, NoBuf, ScanStates, Buffers

\* Updating one connection's entry keeps a per-connection function typed.
LEMMA UpdateType ==
    ASSUME NEW S, NEW f \in [Conns -> S], NEW c \in Conns, NEW s \in S
    PROVE  [f EXCEPT ![c] = s] \in [Conns -> S]
  OBVIOUS

\* Moving on to the next item changes nothing but the item index.
LEMMA NextItemEffect ==
    ASSUME TypeOK, NEW c \in Conns, NextItem(c)
    PROVE  /\ scan' \in [Conns -> ScanStates]
           /\ \A d \in Conns \ {c} : scan'[d] = scan[d]
           /\ scan'[c].itemIdx = scan[c].itemIdx + 1
           /\ scan'[c].pageNum = scan[c].pageNum
           /\ scan'[c].pageCount = scan[c].pageCount
           /\ scan'[c].page = scan[c].page
  <1> DEFINE new == [scan[c] EXCEPT !.itemIdx = @ + 1]
  <1>1. scan[c] \in ScanStates /\ scan \in [Conns -> ScanStates]
    BY DEF TypeOK
  <1>2. new \in ScanStates
    <2>1. scan[c].itemIdx + 1 \in Nat
      BY <1>1 DEF ScanStates
    <2> QED
      BY <1>1, <2>1 DEF ScanStates
  <1>3. scan' = [scan EXCEPT ![c] = new]
    BY DEF NextItem
  <1>4. /\ new.itemIdx = scan[c].itemIdx + 1 /\ new.pageNum = scan[c].pageNum
        /\ new.pageCount = scan[c].pageCount /\ new.page = scan[c].page
    BY <1>1 DEF ScanStates
  <1> HIDE DEF new
  <1> QED
    BY <1>1, <1>2, <1>3, <1>4

\* Opening the table: an autocommit statement comes to hold a new XID.
LEMMA OpenTableInv ==
    ASSUME Inv, NEW c \in Conns, OpenTable(c), UNCHANGED <<connTxn, queries>>
    PROVE  Inv'
  <1> USE DEF OpenTable, Goto, history
  <1>1. TypeOK'
    <2>1. pc' \in [Conns -> Locations]
      BY DEF Inv, TypeOK, Locations, Running, Scans, Inserts
    <2>2. nextXID' \in Nat /\ xid' \in [Conns -> Nat] /\ autoCommit' \in [Conns -> BOOLEAN]
      <3> DEFINE b == xid[c] = 0
      <3>1. nextXID \in Nat /\ xid \in [Conns -> Nat] /\ autoCommit \in [Conns -> BOOLEAN]
        BY DEF Inv, TypeOK
      <3>2. /\ nextXID' \in Nat /\ xid' \in [Conns -> Nat]
            /\ \/ autoCommit' = autoCommit
               \/ autoCommit' = [autoCommit EXCEPT ![c] = b]
        BY <3>1 DEF getAutoCommitWithXID, NextXID
      <3>3. b \in BOOLEAN
        OBVIOUS
      <3> HIDE DEF b
      <3> QED
        BY <3>1, <3>2, <3>3
    <2> QED
      BY <2>1, <2>2 DEF Inv, TypeOK
  <1>2. \A d \in Conns \ {c} : Same(d)
    BY DEF Same, getAutoCommitWithXID, Inv, TypeOK
  <1>3. Len(heap') >= Len(heap)
    BY DEF Inv, TypeOK
  <1>4. XIDStateOf(c) /\ WithinFileOf(c)
    BY DEF Inv, XIDStates, WithinFile
  <1>5. XIDStep(c)
    <2>1. CASE stmt[c] = "SELECT" \/ xid[c] # 0
      BY <2>1, NoXIDStep DEF Held, getAutoCommitWithXID
    <2>2. CASE stmt[c] # "SELECT" /\ xid[c] = 0
      <3>1. /\ nextXID' = nextXID + 1 /\ xid'[c] = nextXID + 1
            /\ nextXID \in Nat
        BY <2>2 DEF getAutoCommitWithXID, NextXID, Inv, TypeOK
      <3>2. nextXID + 1 \notin DOMAIN statuses /\ Held(c) \cap DOMAIN statuses = {}
        BY <3>1 DEF Inv, XIDStates, XIDsExclusive
      <3> QED
        BY <3>1, <3>2 DEF XIDStep, Held
    <2> QED
      BY <2>1, <2>2
  <1>6. XIDStateOf(c)'
    <2>1. /\ pc[c] = "open" /\ pc[c] \in Running /\ stmt[c] \in Ops
          /\ nextXID + 1 # 0 /\ connTxn'[c] = connTxn[c] /\ stmt'[c] = stmt[c]
      BY DEF Inv, TypeOK, Running
    <2>2. pc'[c] = IF stmt[c] \in Scanning THEN "count" ELSE "insCount"
      BY DEF Inv, TypeOK
    <2>3. CASE stmt[c] = "SELECT"
      <3>1. xid'[c] = xid[c] /\ autoCommit'[c] = autoCommit[c]
        BY <2>3
      <3> QED
        BY <1>4, <2>1, <2>2, <2>3, <3>1
           DEF XIDStateOf, Running, Scans, Headers, Inserts, Scanning
    <2>4. CASE stmt[c] # "SELECT"
      <3>1. /\ xid'[c] = IF xid[c] = 0 THEN nextXID + 1 ELSE xid[c]
            /\ autoCommit'[c] <=> xid[c] = 0
        BY <2>4 DEF Inv, TypeOK, getAutoCommitWithXID, NextXID
      <3> QED
        BY <1>4, <2>1, <2>2, <2>4, <3>1
           DEF XIDStateOf, Running, Scans, Headers, Inserts, Scanning, Ops
    <2> QED
      BY <2>3, <2>4
  <1>7. WithinFileOf(c)'
    BY <1>4 DEF Inv, TypeOK, WithinFileOf, Headers, Inserts, Scanning
  <1> QED
    BY <1>1, <1>2, <1>3, <1>5, <1>6, <1>7, Frame

\* The page count is the file's, which only grows afterwards.
LEMMA CountPagesInv ==
    ASSUME Inv, NEW c \in Conns, CountPages(c), UNCHANGED <<connTxn, queries>>
    PROVE  Inv'
  <1> USE DEF CountPages, Goto, history, execLocals
  <1>0. XIDStateOf(c) /\ WithinFileOf(c)
    BY DEF Inv, XIDStates, WithinFile
  <1>1. TypeOK'
    <2>t1. pc' \in [Conns -> Locations]
      BY DEF Inv, TypeOK, Locations, Running, Scans, Headers, Inserts
    <2>t2. scan' \in [Conns -> ScanStates]
      <3> DEFINE new == [NoScan EXCEPT !.pageCount = PageCount, !.pageNum = 1]
      <3>1. new \in ScanStates
        <4>1. PageCount \in Nat
          BY DEF Inv, TypeOK, PageCount
        <4> QED
          BY <4>1, NoScanType DEF ScanStates
      <3>2. scan' = [scan EXCEPT ![c] = new] /\ scan \in [Conns -> ScanStates]
        BY DEF Inv, TypeOK
      <3> QED
        BY <3>1, <3>2, UpdateType
    <2> QED
      BY <2>t1, <2>t2 DEF Inv, TypeOK
  <1>2. \A d \in Conns \ {c} : Same(d)
    BY DEF Same, Inv, TypeOK
  <1>3. Len(heap') >= Len(heap)
    BY DEF Inv, TypeOK
  <1>4. XIDStep(c)
    BY NoXIDStep DEF Held
  <1>5. XIDStateOf(c)'
    BY <1>0 DEF Inv, TypeOK, XIDStateOf, Running, Scans, Headers, Inserts,
                Scanning
  <1>6. WithinFileOf(c)'
    BY <1>0 DEF Inv, TypeOK, WithinFileOf, ScanStates, Buffers, Headers, Inserts, NoScan, PageCount
  <1> QED
    BY <1>1, <1>2, <1>3, <1>4, <1>5, <1>6, Frame

\* A page within the count is a page of the file.
LEMMA ScanPageInv ==
    ASSUME Inv, NEW c \in Conns, ScanPage(c), UNCHANGED <<connTxn, queries>>
    PROVE  Inv'
  <1> USE DEF ScanPage, Goto, history, execLocals
  <1>0. XIDStateOf(c) /\ WithinFileOf(c)
    BY DEF Inv, XIDStates, WithinFile
  <1>1. TypeOK'
    <2>1. heap[scan[c].pageNum] \in Seq(Tuples)
      BY <1>0 DEF Inv, TypeOK, WithinFileOf, ScanStates
    <2> QED
      BY <2>1 DEF Inv, TypeOK, Locations, Running, Scans, ScanStates, ReadPage
  <1>2. \A d \in Conns \ {c} : Same(d)
    BY DEF Same, Inv, TypeOK
  <1>3. Len(heap') >= Len(heap)
    BY DEF Inv, TypeOK
  <1>4. XIDStep(c)
    BY NoXIDStep DEF Held
  <1>5. XIDStateOf(c)'
    BY <1>0 DEF Inv, TypeOK, XIDStateOf, Running, Scans, Headers, Inserts,
                Scanning
  <1>6. WithinFileOf(c)'
    BY <1>0 DEF Inv, TypeOK, WithinFileOf, ScanStates, Buffers, Headers, Inserts
  <1> QED
    BY <1>1, <1>2, <1>3, <1>4, <1>5, <1>6, Frame

\* The scan is over and forgotten.
LEMMA ScanEndInv ==
    ASSUME Inv, NEW c \in Conns, ScanEnd(c), UNCHANGED <<connTxn, queries>>
    PROVE  Inv'
  <1> USE DEF ScanEnd, Goto, history, execLocals
  <1>0. XIDStateOf(c) /\ WithinFileOf(c)
    BY DEF Inv, XIDStates, WithinFile
  <1>1. TypeOK'
    BY DEF Inv, TypeOK, Locations, Running, Scans, ScanStates, NoScan
  <1>2. \A d \in Conns \ {c} : Same(d)
    BY DEF Same, Inv, TypeOK
  <1>3. Len(heap') >= Len(heap)
    BY DEF Inv, TypeOK
  <1>4. XIDStep(c)
    BY NoXIDStep DEF Held
  <1>5. XIDStateOf(c)'
    BY <1>0 DEF Inv, TypeOK, XIDStateOf, Running, Scans, Headers, Inserts,
                Scanning
  <1>6. WithinFileOf(c)'
    BY <1>0 DEF Inv, TypeOK, WithinFileOf, ScanStates, Buffers, Headers, Inserts, NoScan
  <1> QED
    BY <1>1, <1>2, <1>3, <1>4, <1>5, <1>6, Frame

\* Skipping an item moves the index only.
LEMMA SkipItemInv ==
    ASSUME Inv, NEW c \in Conns, SkipItem(c), UNCHANGED <<connTxn, queries>>
    PROVE  Inv'
  <1> USE DEF SkipItem, Goto, history, execLocals
  <1>0. XIDStateOf(c) /\ WithinFileOf(c)
    BY DEF Inv, XIDStates, WithinFile
  <1>1. TypeOK'
    <2>t1. scan' \in [Conns -> ScanStates]
      BY NextItemEffect DEF Inv
    <2> QED
      BY <2>t1 DEF Inv, TypeOK
  <1>2. \A d \in Conns \ {c} : Same(d)
    BY DEF Same, Inv, TypeOK, NextItem
  <1>3. Len(heap') >= Len(heap)
    BY DEF Inv, TypeOK
  <1>4. XIDStep(c)
    BY NoXIDStep DEF Held
  <1>5. XIDStateOf(c)'
    BY <1>0 DEF Inv, TypeOK, XIDStateOf, Running, Scans, Headers, Inserts,
                Scanning, NextItem, AtItem
  <1>6. WithinFileOf(c)'
    BY <1>0 DEF Inv, TypeOK, WithinFileOf, ScanStates, Buffers, Headers, Inserts, NextItem, AtItem
  <1> QED
    BY <1>1, <1>2, <1>3, <1>4, <1>5, <1>6, Frame

\* A matching item is collected, or will be marked while it is current.
LEMMA MatchItemInv ==
    ASSUME Inv, NEW c \in Conns, MatchItem(c), UNCHANGED <<connTxn, queries>>
    PROVE  Inv'
  <1> USE DEF MatchItem, Goto, history, execLocals
  <1>0. XIDStateOf(c) /\ WithinFileOf(c)
    BY DEF Inv, XIDStates, WithinFile
  <1>1. TypeOK'
    <2>1. Item(c) \in Tuples
      BY <1>0 DEF Inv, TypeOK, WithinFileOf, ScanStates, Item, AtItem
    <2>t1. pc' \in [Conns -> Locations]
      BY DEF Inv, TypeOK, Locations, Running, Scans, Headers, Inserts
    <2>t2. scan' \in [Conns -> ScanStates]
      BY NextItemEffect DEF Inv, TypeOK
    <2>t3. rows' \in [Conns -> SUBSET Tuples]
      <3>1. /\ rows[c] \cup {Item(c)} \in SUBSET Tuples
            /\ rows \in [Conns -> SUBSET Tuples]
        BY <2>1 DEF Inv, TypeOK
      <3>2. rows' = rows \/ rows' = [rows EXCEPT ![c] = rows[c] \cup {Item(c)}]
        OBVIOUS
      <3> QED
        BY <3>1, <3>2, UpdateType
    <2> QED
      BY <2>t1, <2>t2, <2>t3 DEF Inv, TypeOK
  <1>2. \A d \in Conns \ {c} : Same(d)
    BY DEF Same, Inv, TypeOK, NextItem
  <1>3. Len(heap') >= Len(heap)
    BY DEF Inv, TypeOK
  <1>4. XIDStep(c)
    BY NoXIDStep DEF Held
  <1>5. XIDStateOf(c)'
    BY <1>0 DEF Inv, TypeOK, XIDStateOf, Running, Scans, Headers, Inserts,
                Scanning, NextItem, AtItem, Ops
  <1>6. WithinFileOf(c)'
    <2>1. /\ scan[c].pageNum \in 1 .. scan[c].pageCount /\ scan[c].itemIdx \in Nat
          /\ scan[c].itemIdx >= 1 /\ scan[c].itemIdx <= Len(scan[c].page)
          /\ scan[c].pageCount <= Len(heap) /\ heap' = heap
      BY <1>0 DEF Inv, TypeOK, WithinFileOf, ScanStates, AtItem
    <2>2. CASE stmt[c] = "SELECT"
      <3>1. pc'[c] = "item"
        BY <2>2 DEF AtItem
      <3> QED
        BY <2>1, <2>2, <3>1, NextItemEffect DEF Inv, WithinFileOf, Headers, Inserts
    <2>3. CASE stmt[c] # "SELECT"
      <3>1. pc'[c] = "hdrRead" /\ scan' = scan
        BY <2>3 DEF Inv, TypeOK
      <3> QED
        BY <2>1, <3>1 DEF WithinFileOf, Headers, Inserts
    <2> QED
      BY <2>2, <2>3
  <1> QED
    BY <1>1, <1>2, <1>3, <1>4, <1>5, <1>6, Frame

\* The scan moves on to the next page.
LEMMA PageDoneInv ==
    ASSUME Inv, NEW c \in Conns, PageDone(c), UNCHANGED <<connTxn, queries>>
    PROVE  Inv'
  <1> USE DEF PageDone, Goto, history, execLocals
  <1>0. XIDStateOf(c) /\ WithinFileOf(c)
    BY DEF Inv, XIDStates, WithinFile
  <1>1. TypeOK'
    <2>t1. pc' \in [Conns -> Locations]
      BY DEF Inv, TypeOK, Locations, Running, Scans, Headers, Inserts
    <2>t2. scan' \in [Conns -> ScanStates]
      <3> DEFINE new == [scan[c] EXCEPT !.pageNum = @ + 1, !.itemIdx = 0,
                                        !.page = <<>>]
      <3>1. scan \in [Conns -> ScanStates] /\ scan[c] \in ScanStates
        BY DEF Inv, TypeOK
      <3>2. new \in ScanStates
        BY <3>1 DEF ScanStates
      <3>3. scan' = [scan EXCEPT ![c] = new]
        OBVIOUS
      <3> QED
        BY <3>1, <3>2, <3>3, UpdateType
    <2> QED
      BY <2>t1, <2>t2 DEF Inv, TypeOK
  <1>2. \A d \in Conns \ {c} : Same(d)
    BY DEF Same, Inv, TypeOK
  <1>3. Len(heap') >= Len(heap)
    BY DEF Inv, TypeOK
  <1>4. XIDStep(c)
    BY NoXIDStep DEF Held
  <1>5. XIDStateOf(c)'
    BY <1>0 DEF Inv, TypeOK, XIDStateOf, Running, Scans, Headers, Inserts,
                Scanning
  <1>6. WithinFileOf(c)'
    BY <1>0 DEF Inv, TypeOK, WithinFileOf, ScanStates, Buffers, Headers, Inserts
  <1> QED
    BY <1>1, <1>2, <1>3, <1>4, <1>5, <1>6, Frame

\* The page to be marked is a page of the file and has the item.
LEMMA HeaderReadInv ==
    ASSUME Inv, NEW c \in Conns, HeaderRead(c), UNCHANGED <<connTxn, queries>>
    PROVE  Inv'
  <1> USE DEF HeaderRead, Goto, history, execLocals
  <1>0. XIDStateOf(c) /\ WithinFileOf(c)
    BY DEF Inv, XIDStates, WithinFile
  <1> DEFINE page == ReadPage(scan[c].pageNum)
             new  == SetHeader(page, scan[c].itemIdx, MarkedHeader(c))
  <1>a. /\ new \in Seq(Tuples) /\ Len(new) = Len(page)
        /\ scan[c].pageNum \in 1 .. Len(heap)
        /\ scan[c].itemIdx <= Len(page)
    <2>1. /\ page \in Seq(Tuples) /\ scan[c].pageNum \in 1 .. Len(heap)
          /\ scan[c].itemIdx \in 1 .. Len(page)
          /\ scan[c].itemIdx \in 1 .. Len(scan[c].page)
          /\ scan[c].page \in Seq(Tuples)
      BY <1>0 DEF Inv, TypeOK, WithinFileOf, ScanStates, ReadPage, Headers
    <2>2. xid[c] \in Nat /\ Item(c) \in Tuples
      BY <2>1 DEF Inv, TypeOK, Item
    <2>3. MarkedHeader(c) \in [xmin : XIDs, xmax : Nat]
      BY <2>2 DEF MarkedHeader, Tuples
    <2> QED
      BY <2>1, <2>3, SetHeaderType
  <1> HIDE DEF new
  <1>1. TypeOK'
    <2>t1. pc' \in [Conns -> Locations]
      BY DEF Inv, TypeOK, Locations, Running, Scans, Headers, Inserts
    <2>t2. buf' \in [Conns -> Buffers]
      BY <1>a DEF Inv, TypeOK, Buffers, ScanStates, new
    <2>t3. raced' \in BOOLEAN
      BY DEF Inv, TypeOK, OpenWindow
    <2> QED
      BY <2>t1, <2>t2, <2>t3 DEF Inv, TypeOK
  <1>2. \A d \in Conns \ {c} : Same(d)
    BY DEF Same, Inv, TypeOK
  <1>3. Len(heap') >= Len(heap)
    BY DEF Inv, TypeOK
  <1>4. XIDStep(c)
    BY NoXIDStep DEF Held
  <1>5. XIDStateOf(c)'
    BY <1>0 DEF Inv, TypeOK, XIDStateOf, Running, Scans, Headers, Inserts,
                Scanning
  <1>6. WithinFileOf(c)'
    BY <1>0, <1>a DEF Inv, TypeOK, WithinFileOf, ScanStates, Buffers, Headers, Inserts, new
  <1> QED
    BY <1>1, <1>2, <1>3, <1>4, <1>5, <1>6, Frame

\* The marked page is written back where it was read.
LEMMA HeaderWriteInv ==
    ASSUME Inv, NEW c \in Conns, HeaderWrite(c), UNCHANGED <<connTxn, queries>>
    PROVE  Inv'
  <1> USE DEF HeaderWrite, Goto, execLocals
  <1>0. XIDStateOf(c) /\ WithinFileOf(c)
    BY DEF Inv, XIDStates, WithinFile
  <1>a. /\ buf[c].num \in 1 .. Len(heap) /\ buf[c].page \in Seq(Tuples)
        /\ scan[c].itemIdx \in 1 .. Len(buf[c].page) /\ Len(heap) \in Nat
        /\ xid[c] \in XIDs /\ stmt[c] \in {"UPDATE", "DELETE"}
    BY <1>0 DEF Inv, TypeOK, WithinFileOf, XIDStateOf, ScanStates, Buffers,
                Headers, Running, XIDs
  <1>b. heap' \in Seq(Seq(Tuples)) /\ Len(heap') >= Len(heap) /\ Len(heap') \in Nat
    <2>1. buf[c].num \in 1 .. Len(heap) + 1 /\ heap \in Seq(Seq(Tuples))
      BY <1>a DEF Inv, TypeOK
    <2> QED
      BY <1>a, <2>1, WritePageEffect
  <1>1. TypeOK'
    <2>1. pc' \in [Conns -> Locations]
      BY DEF Inv, TypeOK, Locations, Running, Scans, Headers, Inserts
    <2>2. scan' \in [Conns -> ScanStates]
      BY NextItemEffect DEF Inv, TypeOK
    <2>3. buf' \in [Conns -> Buffers]
      BY NoScanType, UpdateType DEF Inv, TypeOK
    <2>4. marked' \subseteq Rows \X XIDs
      <3>1. buf[c].page[scan[c].itemIdx] \in Tuples
        BY <1>a
      <3>2. buf[c].page[scan[c].itemIdx].row \in Rows
        BY <3>1 DEF Tuples
      <3> QED
        BY <1>a, <3>2 DEF Inv, TypeOK
    <2> QED
      BY <1>b, <2>1, <2>2, <2>3, <2>4 DEF Inv, TypeOK
  <1>2. \A d \in Conns \ {c} : Same(d)
    BY NextItemEffect DEF Same, Inv, TypeOK
  <1>4. XIDStep(c)
    BY NoXIDStep DEF Held
  <1>c. CASE stmt[c] = "UPDATE"
    <2>1. pc'[c] = "insCount" /\ scan' = scan
      BY <1>c DEF Inv, TypeOK
    <2>2. XIDStateOf(c)'
      BY <1>0, <1>c, <2>1 DEF XIDStateOf, Running, Scans, Headers, Inserts
    <2>3. WithinFileOf(c)'
      BY <1>0, <1>b, <1>c, <2>1
         DEF Inv, TypeOK, ScanStates, WithinFileOf, Headers, Inserts
    <2> QED
      BY <1>1, <1>2, <1>b, <1>4, <2>2, <2>3, Frame
  <1>d. CASE stmt[c] # "UPDATE"
    <2>1. pc'[c] = "item" /\ NextItem(c)
      BY <1>d DEF Inv, TypeOK
    <2>2. XIDStateOf(c)'
      BY <1>0, <1>a, <1>d, <2>1
         DEF XIDStateOf, Running, Scans, Headers, Inserts, Scanning
    <2>3. WithinFileOf(c)'
      <3>1. /\ scan[c].pageNum \in 1 .. scan[c].pageCount
            /\ scan[c].pageCount <= Len(heap) /\ scan[c].pageCount \in Nat
            /\ scan[c].itemIdx \in Nat
        BY <1>0 DEF Inv, TypeOK, ScanStates, WithinFileOf, Headers
      <3> QED
        BY <1>a, <1>b, <2>1, <3>1, NextItemEffect
           DEF Inv, WithinFileOf, Headers, Inserts
    <2> QED
      BY <1>1, <1>2, <1>b, <1>4, <2>2, <2>3, Frame
  <1> QED
    BY <1>c, <1>d

\* The insertion's page is the last one, or the first of an empty file.
LEMMA InsertCountInv ==
    ASSUME Inv, NEW c \in Conns, InsertCount(c), UNCHANGED <<connTxn, queries>>
    PROVE  Inv'
  <1> USE DEF InsertCount, Goto, execLocals
  <1>0. XIDStateOf(c) /\ WithinFileOf(c)
    BY DEF Inv, XIDStates, WithinFile
  <1>a. /\ Len(heap) \in Nat /\ xid[c] # 0 /\ stmt[c] \in {"INSERT", "UPDATE"}
        /\ buf \in [Conns -> Buffers] /\ pc'[c] \in {"insRead", "insWrite"}
    BY <1>0 DEF Inv, TypeOK, XIDStateOf, Inserts, Running
  <1>b. NewTuple(c) \in Tuples
    BY <1>a, NewTupleType DEF Inv
  <1> DEFINE counted == [buf[c] EXCEPT !.num = Len(heap)]
             fresh   == [num |-> 1, page |-> <<NewTuple(c)>>]
  <1>c. counted \in Buffers /\ fresh \in Buffers /\ Len(fresh.page) = 1
    BY <1>a, <1>b DEF Buffers
  <1>d. \/ /\ PageCount > 0 /\ buf' = [buf EXCEPT ![c] = counted]
           /\ pc'[c] = "insRead"
        \/ /\ ~(PageCount > 0) /\ buf' = [buf EXCEPT ![c] = fresh]
           /\ pc'[c] = "insWrite"
    BY <1>a DEF PageCount, Inv, TypeOK
  <1>e. counted.num = Len(heap) /\ fresh.num = 1
    BY <1>a DEF Buffers
  <1> HIDE DEF counted, fresh
  <1>1. TypeOK'
    <2>1. pc' \in [Conns -> Locations]
      BY DEF Inv, TypeOK, Locations, Running, Inserts
    <2>2. buf' \in [Conns -> Buffers]
      BY <1>a, <1>c, <1>d, UpdateType
    <2>3. raced' \in BOOLEAN
      BY DEF OpenWindow, Inv, TypeOK
    <2> QED
      BY <2>1, <2>2, <2>3 DEF Inv, TypeOK
  <1>2. \A d \in Conns \ {c} : Same(d)
    BY DEF Same, Inv, TypeOK
  <1>3. Len(heap') >= Len(heap)
    BY <1>a
  <1>4. XIDStep(c)
    BY NoXIDStep DEF Held
  <1>5. XIDStateOf(c)'
    BY <1>0, <1>a DEF XIDStateOf, Running, Scans, Headers, Inserts
  <1>6. WithinFileOf(c)'
    <2>1. buf'[c] = (IF PageCount > 0 THEN counted ELSE fresh)
      BY <1>a, <1>d
    <2>2. heap' = heap /\ scan' = scan /\ stmt' = stmt /\ pc[c] = "insCount"
      OBVIOUS
    <2>3. CASE PageCount > 0
      <3>1. pc'[c] = "insRead" /\ buf'[c].num = Len(heap) /\ Len(heap) > 0
        BY <1>d, <1>e, <2>1, <2>3 DEF PageCount
      <3> QED
        BY <1>0, <1>a, <2>2, <3>1 DEF WithinFileOf, Headers, Inserts
    <2>4. CASE ~(PageCount > 0)
      <3>1. pc'[c] = "insWrite" /\ buf'[c].num = 1 /\ Len(buf'[c].page) = 1
        BY <1>c, <1>d, <1>e, <2>1, <2>4
      <3> QED
        BY <1>0, <1>a, <2>2, <3>1 DEF WithinFileOf, Headers, Inserts
    <2> QED
      BY <2>3, <2>4
  <1> QED
    BY <1>1, <1>2, <1>3, <1>4, <1>5, <1>6, Frame

\* The page to be written is the last one counted, or the next.
LEMMA InsertReadInv ==
    ASSUME Inv, NEW c \in Conns, InsertRead(c), UNCHANGED <<connTxn, queries>>
    PROVE  Inv'
  <1> USE DEF InsertRead, Goto, execLocals, history
  <1>0. XIDStateOf(c) /\ WithinFileOf(c)
    BY DEF Inv, XIDStates, WithinFile
  <1>a. /\ Len(heap) \in Nat /\ xid[c] # 0 /\ stmt[c] \in {"INSERT", "UPDATE"}
        /\ buf \in [Conns -> Buffers] /\ pc'[c] = "insWrite"
        /\ buf[c].num \in 1 .. Len(heap) /\ heap[buf[c].num] \in Seq(Tuples)
    BY <1>0 DEF Inv, TypeOK, XIDStateOf, WithinFileOf, Inserts, Running
  <1>b. NewTuple(c) \in Tuples
    BY <1>a, NewTupleType DEF Inv
  <1> DEFINE new == PlaceTuple(buf[c].num, heap[buf[c].num], NewTuple(c))
  <1>c. /\ new \in [num : {buf[c].num, buf[c].num + 1}, page : Seq(Tuples)]
        /\ Len(new.page) >= 1
    <2>1. buf[c].num \in Nat
      BY <1>a
    <2> HIDE DEF InsertRead
    <2> QED
      BY <1>a, <1>b, <2>1, PlaceTupleType
  <1>d. buf' = [buf EXCEPT ![c] = new]
    BY DEF ReadPage
  <1> HIDE DEF new
  <1>e. new \in Buffers /\ new.num \in 1 .. Len(heap) + 1
    BY <1>a, <1>c DEF Buffers
  <1>1. TypeOK'
    <2>1. pc' \in [Conns -> Locations]
      BY DEF Inv, TypeOK, Locations, Running, Inserts
    <2>2. buf' \in [Conns -> Buffers]
      BY <1>a, <1>d, <1>e, UpdateType
    <2> QED
      BY <2>1, <2>2 DEF Inv, TypeOK
  <1>2. \A d \in Conns \ {c} : Same(d)
    BY DEF Same, Inv, TypeOK
  <1>3. Len(heap') >= Len(heap)
    BY <1>a
  <1>4. XIDStep(c)
    BY NoXIDStep DEF Held
  <1>5. XIDStateOf(c)'
    BY <1>0, <1>a DEF XIDStateOf, Running, Scans, Headers, Inserts
  <1>6. WithinFileOf(c)'
    <2>1. buf'[c] = new
      BY <1>a, <1>d
    <2>2. heap' = heap /\ scan' = scan /\ stmt' = stmt /\ pc[c] = "insRead"
      OBVIOUS
    <2> QED
      BY <1>0, <1>a, <1>c, <1>e, <2>1, <2>2 DEF WithinFileOf, Headers, Inserts
  <1> QED
    BY <1>1, <1>2, <1>3, <1>4, <1>5, <1>6, Frame

\* The write leaves no hole, although the file may have grown meanwhile.
LEMMA InsertWriteInv ==
    ASSUME Inv, NEW c \in Conns, InsertWrite(c), UNCHANGED <<connTxn, queries>>
    PROVE  Inv'
  <1> USE DEF InsertWrite, Goto, execLocals
  <1>0. XIDStateOf(c) /\ WithinFileOf(c)
    BY DEF Inv, XIDStates, WithinFile
  <1>a. /\ buf[c].num \in 1 .. Len(heap) + 1 /\ buf[c].page \in Seq(Tuples)
        /\ Len(buf[c].page) \in Nat /\ Len(buf[c].page) >= 1
        /\ heap \in Seq(Seq(Tuples)) /\ Len(heap) \in Nat
        /\ stmt[c] \in {"INSERT", "UPDATE"}
    BY <1>0 DEF Inv, TypeOK, WithinFileOf, XIDStateOf, Buffers, Inserts
  <1>b. heap' \in Seq(Seq(Tuples)) /\ Len(heap') >= Len(heap) /\ Len(heap') \in Nat
    BY <1>a, WritePageEffect
  <1>1. TypeOK'
    <2>1. pc' \in [Conns -> Locations]
      BY DEF Inv, TypeOK, Locations, Running, Scans, Headers, Inserts
    <2>2. scan' \in [Conns -> ScanStates]
      BY NextItemEffect DEF Inv, TypeOK
    <2>3. buf' \in [Conns -> Buffers]
      BY NoScanType, UpdateType DEF Inv, TypeOK
    <2>4. acked' \subseteq Rows /\ IsFiniteSet(acked')
      <3>1. buf[c].page[Len(buf[c].page)] \in Tuples
        BY <1>a
      <3>2. buf[c].page[Len(buf[c].page)].row \in Rows
        BY <3>1 DEF Tuples
      <3>3. acked \subseteq Rows /\ IsFiniteSet(acked)
        BY DEF Inv, TypeOK
      <3>4. IsFiniteSet(acked \cup {buf[c].page[Len(buf[c].page)].row})
        BY <3>3, FS_AddElement
      <3> QED
        BY <3>2, <3>3, <3>4
    <2> QED
      BY <1>b, <2>1, <2>2, <2>3, <2>4 DEF Inv, TypeOK
  <1>2. \A d \in Conns \ {c} : Same(d)
    BY NextItemEffect DEF Same, Inv, TypeOK
  <1>4. XIDStep(c)
    BY NoXIDStep DEF Held
  <1>c. CASE stmt[c] # "UPDATE"
    <2>1. pc'[c] = "commit" /\ scan' = scan
      BY <1>c DEF Inv, TypeOK
    <2>2. XIDStateOf(c)'
      BY <1>0, <1>c, <2>1 DEF XIDStateOf, Running, Scans, Headers, Inserts
    <2>3. WithinFileOf(c)'
      BY <1>0, <1>b, <1>c, <2>1
         DEF Inv, TypeOK, ScanStates, WithinFileOf, Headers, Inserts
    <2> QED
      BY <1>1, <1>2, <1>b, <1>4, <2>2, <2>3, Frame
  <1>d. CASE stmt[c] = "UPDATE"
    <2>1. pc'[c] = "item" /\ NextItem(c)
      BY <1>d DEF Inv, TypeOK
    <2>2. XIDStateOf(c)'
      BY <1>0, <1>a, <1>d, <2>1
         DEF XIDStateOf, Running, Scans, Headers, Inserts, Scanning
    <2>3. WithinFileOf(c)'
      <3>1. /\ scan[c].pageNum \in 1 .. scan[c].pageCount
            /\ scan[c].pageCount <= Len(heap) /\ scan[c].pageCount \in Nat
            /\ scan[c].itemIdx \in Nat /\ scan[c].itemIdx >= 1
        BY <1>0, <1>d DEF Inv, TypeOK, ScanStates, WithinFileOf, Inserts
      <3>2. /\ scan'[c].itemIdx = scan[c].itemIdx + 1
            /\ scan'[c].pageNum = scan[c].pageNum
            /\ scan'[c].pageCount = scan[c].pageCount
        BY <2>1, NextItemEffect DEF Inv
      <3>3. /\ scan'[c].pageCount <= Len(heap')
            /\ scan'[c].pageNum \in 1 .. scan'[c].pageCount
            /\ scan'[c].itemIdx >= 1
        BY <1>a, <1>b, <3>1, <3>2
      <3> HIDE DEF InsertWrite
      <3> QED
        BY <2>1, <3>3 DEF WithinFileOf, Headers, Inserts
    <2> QED
      BY <1>1, <1>2, <1>b, <1>4, <2>2, <2>3, Frame
  <1> QED
    BY <1>c, <1>d

\* A statement ends, with success or with an error; an autocommit statement may
\* end its transaction with it, or leave the XID without an outcome.
LEMMA ReturnInv ==
    ASSUME Inv, NEW c \in Conns, NEW outcome \in {"ok", "err"},
           pc[c] \in Running, Return(c, outcome), UNCHANGED <<connTxn, queries>>,
           rows' \in [Conns -> SUBSET Tuples],
           \A d \in Conns \ {c} : rows'[d] = rows[d],
           \/ UNCHANGED statuses
           \/ autoCommit[c] /\ \E s \in {Committed, Aborted} : SetStatus(xid[c], s)
    PROVE  Inv'
  <1> USE DEF Return, Goto, history
  <1>0. XIDStateOf(c) /\ WithinFileOf(c)
    BY DEF Inv, XIDStates, WithinFile
  <1>a. /\ statuses' \in [DOMAIN statuses' -> {Committed, Aborted}]
        /\ DOMAIN statuses' \subseteq DOMAIN statuses \cup {xid[c]}
        /\ ~autoCommit[c] => DOMAIN statuses' = DOMAIN statuses
    <2>1. TypeOK /\ statuses \in [DOMAIN statuses -> {Committed, Aborted}]
      BY DEF Inv, TypeOK
    <2>2. CASE UNCHANGED statuses
      BY <2>1, <2>2
    <2>3. CASE autoCommit[c] /\ \E s \in {Committed, Aborted} : SetStatus(xid[c], s)
      BY <2>1, <2>3, SetStatusEffect
    <2> QED
      BY <2>2, <2>3
  <1>1. TypeOK'
    <2>1. pc' \in [Conns -> Locations]
      BY DEF Inv, TypeOK, Locations
    <2>2. /\ xid' \in [Conns -> Nat]
          /\ scan' \in [Conns -> ScanStates] /\ buf' \in [Conns -> Buffers]
      BY NoScanType, UpdateType DEF Inv, TypeOK
    <2>3. autoCommit' \in [Conns -> BOOLEAN]
      BY DEF Inv, TypeOK
    <2> QED
      BY <1>a, <2>1, <2>2, <2>3 DEF Inv, TypeOK
  <1>2. \A d \in Conns \ {c} : Same(d)
    BY DEF Same, Inv, TypeOK
  <1>3. Len(heap') >= Len(heap)
    BY DEF Inv, TypeOK
  <1>b. /\ xid'[c] = 0 /\ autoCommit'[c] = FALSE /\ pc'[c] = outcome
        /\ scan'[c] = NoScan /\ buf'[c] = NoBuf
    BY DEF Inv, TypeOK
  <1>4. XIDStep(c)
    <2>1. Held(c) \cap DOMAIN statuses = {} /\ nextXID' = nextXID /\ nextXID \in Nat
      BY DEF Inv, XIDsExclusive, TypeOK
    <2>2. CASE autoCommit[c]
      <3>1. connTxn[c].XID = 0 /\ xid[c] # 0
        BY <1>0, <2>2 DEF XIDStateOf
      <3>2. Held(c)' = {} /\ Held(c) = {xid[c]}
        BY <1>b, <3>1 DEF Held
      <3> QED
        BY <1>a, <2>1, <3>2 DEF XIDStep
    <2>3. CASE ~autoCommit[c]
      <3>1. Held(c)' \subseteq Held(c)
        BY <1>b DEF Held
      <3> QED
        BY <1>a, <2>1, <2>3, <3>1 DEF XIDStep
    <2> QED
      BY <2>2, <2>3
  <1>5. XIDStateOf(c)'
    BY <1>0, <1>b DEF XIDStateOf, Running, Scans, Headers, Inserts
  <1>6. WithinFileOf(c)'
    BY <1>b DEF WithinFileOf, NoScan, Headers, Inserts, Inv, TypeOK
  <1> QED
    BY <1>1, <1>2, <1>3, <1>4, <1>5, <1>6, Frame

\* A statement ends with or without an outcome for its own XID.
LEMMA StatementEndInv ==
    ASSUME Inv, NEW c \in Conns, Finish(c) \/ FailPlain(c) \/ FailAbort(c),
           UNCHANGED <<connTxn, queries>>
    PROVE  Inv'
  <1>1. rows \in [Conns -> SUBSET Tuples]
    BY DEF Inv, TypeOK
  <1>2. CASE Finish(c)
    <2>1. /\ pc[c] \in Running /\ Return(c, "ok") /\ rows' = rows
          /\ \/ UNCHANGED statuses
             \/ autoCommit[c] /\ SetStatus(xid[c], Committed)
      BY <1>2 DEF Finish, Running, CommitXID
    <2> QED
      BY <1>1, <2>1, ReturnInv
  <1>3. CASE FailPlain(c)
    <2>1. /\ pc[c] \in Running /\ Return(c, "err") /\ UNCHANGED statuses
          /\ rows' = [rows EXCEPT ![c] = {}]
      BY <1>3 DEF FailPlain, Running, Inserts
    <2>2. /\ rows' \in [Conns -> SUBSET Tuples]
          /\ \A d \in Conns \ {c} : rows'[d] = rows[d]
      BY <1>1, <2>1
    <2> QED
      BY <2>1, <2>2, ReturnInv
  <1>4. CASE FailAbort(c)
    <2>1. /\ pc[c] \in Running /\ Return(c, "err") /\ rows' = rows
          /\ \/ UNCHANGED statuses
             \/ autoCommit[c] /\ SetStatus(xid[c], Aborted)
      BY <1>4 DEF FailAbort, Running, AbortXID
    <2> QED
      BY <1>1, <2>1, ReturnInv
  <1> QED
    BY <1>2, <1>3, <1>4

-----------------------------------------------------------------------------
\* Between statements a connection's executor state is empty, and a step that
\* only changes its ConnTransaction and ends or begins transactions keeps Inv.
TxnStep(c, t) ==
    \/ /\ nextXID' = nextXID /\ statuses' = statuses
       /\ t.XID \in {0, connTxn[c].XID}
    \/ /\ statuses' = statuses
       /\ nextXID' = nextXID + 1 /\ t.XID = nextXID + 1
    \/ /\ nextXID' = nextXID
       /\ connTxn[c].XID # 0 /\ t.XID = 0
       /\ \E s \in {Committed, Aborted} : SetStatus(connTxn[c].XID, s)

\* A step of the message loop that changes the connection's transaction.
LEMMA SessionStepInv ==
    ASSUME Inv, NEW c \in Conns, pc[c] \in {"closed", "idle"},
           NEW l \in {"closed", "idle"}, NEW t \in [State : TxnStates, XID : Nat],
           pc' = [pc EXCEPT ![c] = l],
           connTxn' = [connTxn EXCEPT ![c] = t],
           t.State = "Idle" <=> t.XID = 0,
           UNCHANGED executorVars, queries' \in 0 .. MaxQueries, TxnStep(c, t)
    PROVE  Inv'
  <1> USE DEF executorVars, history
  <1>0. XIDStateOf(c) /\ WithinFileOf(c)
    BY DEF Inv, XIDStates, WithinFile
  <1>n. /\ TypeOK /\ statuses \in [DOMAIN statuses -> {Committed, Aborted}]
        /\ nextXID \in Nat /\ nextXID' \in Nat
    BY DEF Inv, TypeOK, TxnStep
  <1>a. /\ statuses' \in [DOMAIN statuses' -> {Committed, Aborted}]
        /\ DOMAIN statuses' \subseteq DOMAIN statuses \cup {connTxn[c].XID}
        /\ statuses' # statuses => t.XID = 0 /\ connTxn[c].XID # 0
    <2>1. \/ statuses' = statuses
          \/ /\ t.XID = 0 /\ connTxn[c].XID # 0
             /\ \E s \in {Committed, Aborted} : SetStatus(connTxn[c].XID, s)
      BY DEF TxnStep
    <2> QED
      BY <1>n, <2>1, StatusStep
  <1>1. TypeOK'
    <2>1. /\ pc' \in [Conns -> Locations]
          /\ connTxn' \in [Conns -> [State : TxnStates, XID : Nat]]
      BY UpdateType DEF Inv, TypeOK, Locations
    <2> QED
      BY <1>a, <1>n, <2>1 DEF Inv, TypeOK
  <1>2. \A d \in Conns \ {c} : Same(d)
    BY DEF Same, Inv, TypeOK
  <1>3. Len(heap') >= Len(heap)
    BY DEF Inv, TypeOK
  <1>b. /\ pc'[c] = l /\ connTxn'[c] = t
        /\ xid[c] = 0 /\ xid'[c] = 0 /\ ~autoCommit[c] /\ ~autoCommit'[c]
    BY <1>0 DEF XIDStateOf, Inv, TypeOK, Running, Scans, Headers, Inserts
  <1>4. XIDStep(c)
    <2>1. /\ Held(c) = {connTxn[c].XID} \ {0} /\ Held(c)' = {t.XID} \ {0}
          /\ Held(c) \cap DOMAIN statuses = {}
          /\ nextXID + 1 \notin DOMAIN statuses
      BY <1>n, <1>b DEF Held, Inv, XIDsExclusive, XIDStates
    <2> QED
      BY <1>a, <1>n, <2>1 DEF XIDStep, TxnStep
  <1>5. XIDStateOf(c)'
    BY <1>b DEF XIDStateOf, Running, Scans, Headers, Inserts
  <1>6. WithinFileOf(c)'
    BY <1>0, <1>b DEF WithinFileOf, Headers, Inserts
  <1> QED
    BY <1>1, <1>2, <1>3, <1>4, <1>5, <1>6, Frame

\* Every step of the message loop but the start of a statement.
LEMMA ControlInv ==
    ASSUME Inv, NEW c \in Conns,
           \/ Connect(c) \/ Disconnect(c) \/ ParseError(c) \/ RejectFailed(c)
           \/ BeginStatement(c) \/ CommitStatement(c) \/ RollbackStatement(c)
    PROVE  Inv'
  <1> DEFINE t0 == connTxn[c]
  <1>1. /\ t0 \in [State : TxnStates, XID : Nat]
        /\ t0.State \in TxnStates /\ t0.XID \in Nat
        /\ nextXID \in Nat /\ pc \in [Conns -> Locations]
        /\ connTxn \in [Conns -> [State : TxnStates, XID : Nat]]
        /\ queries \in 0 .. MaxQueries /\ MaxQueries \in Nat
    BY SessionAssumption DEF Inv, TypeOK
  <1>2. t0.State = "Idle" <=> t0.XID = 0
    BY DEF Inv, XIDStates, XIDStateOf
  <1>3. NoTxn \in [State : TxnStates, XID : Nat] /\ NoTxn.State = "Idle" /\ NoTxn.XID = 0
    BY DEF NoTxn, TxnStates
  <1>4. CASE Connect(c) \/ Disconnect(c)
    <2>1. /\ pc[c] \in {"closed", "idle"}
          /\ \E l \in {"closed", "idle"} : pc' = [pc EXCEPT ![c] = l]
          /\ connTxn' = [connTxn EXCEPT ![c] = NoTxn]
          /\ UNCHANGED executorVars /\ queries' \in 0 .. MaxQueries
          /\ nextXID' = nextXID /\ statuses' = statuses
      BY <1>1, <1>4 DEF Connect, Disconnect, Goto
    <2>2. TxnStep(c, NoTxn)
      BY <1>3, <2>1 DEF TxnStep
    <2> QED
      BY <1>3, <2>1, <2>2, SessionStepInv
  <1>5. ASSUME Receive(c)
        PROVE  /\ pc[c] = "idle" /\ pc = [pc EXCEPT ![c] = "idle"]
               /\ queries' \in 0 .. MaxQueries
    BY <1>1, <1>5 DEF Receive
  <1>6. CASE ParseError(c) \/ RejectFailed(c)
    <2> DEFINE t == [t0 EXCEPT !.State = IF @ = "InTransaction" THEN "Failed" ELSE @]
    <2>1. /\ pc[c] = "idle" /\ pc' = [pc EXCEPT ![c] = "idle"]
          /\ UNCHANGED executorVars /\ queries' \in 0 .. MaxQueries
          /\ nextXID' = nextXID /\ statuses' = statuses
      BY <1>5, <1>6 DEF ParseError, RejectFailed
    <2>2. CASE ParseError(c)
      <3>1. connTxn' = [connTxn EXCEPT ![c] = t]
        BY <1>1, <2>2 DEF ParseError, FailTxn
      <3>2. /\ t \in [State : TxnStates, XID : Nat] /\ t.XID = t0.XID
            /\ t.State = "Idle" <=> t0.State = "Idle"
        BY <1>1 DEF TxnStates
      <3> HIDE DEF t
      <3>3. TxnStep(c, t)
        BY <2>1, <3>2 DEF TxnStep
      <3> QED
        BY <1>2, <2>1, <3>1, <3>2, <3>3, SessionStepInv
    <2>3. CASE RejectFailed(c)
      <3>1. connTxn' = [connTxn EXCEPT ![c] = t0]
        BY <1>1, <2>3 DEF RejectFailed
      <3>2. TxnStep(c, t0)
        BY <2>1 DEF TxnStep
      <3> QED
        BY <1>1, <1>2, <2>1, <3>1, <3>2, SessionStepInv
    <2> QED
      BY <1>6, <2>2, <2>3
  <1>7. CASE BeginStatement(c)
    <2>1. /\ pc[c] = "idle" /\ pc' = [pc EXCEPT ![c] = "idle"]
          /\ UNCHANGED executorVars /\ queries' \in 0 .. MaxQueries
          /\ statuses' = statuses
      BY <1>5, <1>7 DEF BeginStatement
    <2>2. CASE t0.State = "InTransaction"
      <3>1. connTxn' = [connTxn EXCEPT ![c] = t0] /\ nextXID' = nextXID
        BY <1>1, <1>7, <2>2 DEF BeginStatement
      <3>2. TxnStep(c, t0)
        BY <2>1, <3>1 DEF TxnStep
      <3> QED
        BY <1>1, <1>2, <2>1, <3>1, <3>2, SessionStepInv
    <2>3. CASE t0.State # "InTransaction"
      <3> DEFINE t == [State |-> "InTransaction", XID |-> nextXID + 1]
      <3>1. connTxn' = [connTxn EXCEPT ![c] = t] /\ nextXID' = nextXID + 1
        BY <1>7, <2>3 DEF BeginStatement, NextXID
      <3>2. /\ t \in [State : TxnStates, XID : Nat]
            /\ t.State # "Idle" /\ t.XID # 0 /\ t.XID = nextXID + 1
        BY <1>1 DEF TxnStates
      <3> HIDE DEF t
      <3>3. TxnStep(c, t)
        BY <2>1, <3>1, <3>2 DEF TxnStep
      <3> QED
        BY <2>1, <3>1, <3>2, <3>3, SessionStepInv
    <2> QED
      BY <2>2, <2>3
  <1>8. CASE CommitStatement(c) \/ RollbackStatement(c)
    <2>1. /\ pc[c] = "idle" /\ pc' = [pc EXCEPT ![c] = "idle"]
          /\ UNCHANGED executorVars /\ queries' \in 0 .. MaxQueries
          /\ nextXID' = nextXID /\ connTxn' = [connTxn EXCEPT ![c] = NoTxn]
      BY <1>5, <1>8 DEF CommitStatement, RollbackStatement
    <2>2. \/ statuses' = statuses
          \/ t0.State # "Idle" /\ \E s \in {Committed, Aborted} : SetStatus(t0.XID, s)
      BY <1>1, <1>8
         DEF CommitStatement, RollbackStatement, CommitXID, AbortXID
    <2>3. TxnStep(c, NoTxn)
      BY <1>2, <1>3, <2>1, <2>2 DEF TxnStep
    <2> QED
      BY <1>3, <2>1, <2>3, SessionStepInv
  <1> QED
    BY <1>4, <1>6, <1>7, <1>8

\* A statement starts under the XID of its transaction block, if any.
LEMMA StartStatementInv ==
    ASSUME Inv, NEW c \in Conns, NEW op \in Ops, StartStatement(c, op)
    PROVE  Inv'
  <1> USE DEF StartStatement, Receive, Goto, history
  <1>0. XIDStateOf(c) /\ WithinFileOf(c) /\ TypeOK
    BY DEF Inv, XIDStates, WithinFile
  <1>a. /\ pc[c] = "idle" /\ pc'[c] = "open" /\ xid'[c] = connTxn[c].XID
        /\ xid[c] = 0 /\ ~autoCommit[c] /\ connTxn[c].XID \in Nat
        /\ connTxn'[c] = connTxn[c] /\ connTxn[c].State # "Failed"
    BY <1>0 DEF XIDStateOf, TypeOK, Running, Scans, Headers, Inserts
  <1>1. TypeOK'
    <2>1. pc' \in [Conns -> Locations] /\ stmt' \in [Conns -> Ops]
      BY DEF Inv, TypeOK, Locations, Running
    <2>2. snap' \in [Conns -> Snapshots]
      BY <1>0, SnapshotOfNow, UpdateType DEF TypeOK
    <2>3. xid' \in [Conns -> Nat]
      BY <1>a, UpdateType DEF Inv, TypeOK
    <2>4. queries' \in 0 .. MaxQueries
      BY SessionAssumption DEF Inv, TypeOK
    <2> QED
      BY <2>1, <2>2, <2>3, <2>4 DEF Inv, TypeOK
  <1>2. \A d \in Conns \ {c} : Same(d)
    BY DEF Same, Inv, TypeOK
  <1>3. Len(heap') >= Len(heap)
    BY DEF Inv, TypeOK
  <1>4. XIDStep(c)
    BY <1>a, NoXIDStep DEF Held
  <1>5. XIDStateOf(c)'
    BY <1>0, <1>a DEF XIDStateOf, Running, Scans, Headers, Inserts
  <1>6. WithinFileOf(c)'
    BY <1>0, <1>a DEF WithinFileOf, Headers, Inserts
  <1> QED
    BY <1>1, <1>2, <1>3, <1>4, <1>5, <1>6, Frame

\* The answer: an error fails the transaction block.
LEMMA RespondInv ==
    ASSUME Inv, NEW c \in Conns, Respond(c)
    PROVE  Inv'
  <1> USE DEF Respond, Goto, history
  <1>0. XIDStateOf(c) /\ WithinFileOf(c)
    BY DEF Inv, XIDStates, WithinFile
  <1> DEFINE t == [connTxn[c] EXCEPT !.State =
                       IF @ = "InTransaction" THEN "Failed" ELSE @]
  <1>a. /\ connTxn[c] \in [State : TxnStates, XID : Nat]
        /\ connTxn \in [Conns -> [State : TxnStates, XID : Nat]]
    BY DEF Inv, TypeOK
  <1>b. /\ t \in [State : TxnStates, XID : Nat] /\ t.XID = connTxn[c].XID
        /\ t.State = "Idle" <=> connTxn[c].State = "Idle"
    BY <1>a DEF TxnStates
  <1>c. connTxn' = [connTxn EXCEPT ![c] = t] \/ connTxn' = connTxn
    BY <1>a DEF FailTxn
  <1> HIDE DEF t
  <1>d. /\ pc[c] \in {"ok", "err"} /\ pc'[c] = "idle"
        /\ xid[c] = 0 /\ ~autoCommit[c]
        /\ connTxn'[c].XID = connTxn[c].XID
        /\ connTxn'[c].State = "Idle" <=> connTxn[c].State = "Idle"
    BY <1>0, <1>a, <1>b, <1>c
       DEF XIDStateOf, Inv, TypeOK, Running, Scans, Headers, Inserts
  <1>1. TypeOK'
    <2>1. pc' \in [Conns -> Locations] /\ stmt' \in [Conns -> Ops]
      BY DEF Inv, TypeOK, Locations, Ops
    <2>2. snap' \in [Conns -> Snapshots]
      <3>1. NoSnapshot \in Snapshots
        BY DEF NoSnapshot, Snapshots, XIDs
      <3> QED
        BY <3>1, UpdateType DEF Inv, TypeOK
    <2>3. rows' \in [Conns -> SUBSET Tuples]
      BY DEF Inv, TypeOK
    <2>4. connTxn' \in [Conns -> [State : TxnStates, XID : Nat]]
      BY <1>a, <1>b, <1>c, UpdateType
    <2> QED
      BY <2>1, <2>2, <2>3, <2>4 DEF Inv, TypeOK
  <1>2. \A d \in Conns \ {c} : Same(d)
    BY <1>c DEF Same, Inv, TypeOK
  <1>3. Len(heap') >= Len(heap)
    BY DEF Inv, TypeOK
  <1>4. XIDStep(c)
    BY <1>d, NoXIDStep DEF Held
  <1>5. XIDStateOf(c)'
    BY <1>0, <1>d DEF XIDStateOf, Running, Scans, Headers, Inserts
  <1>6. WithinFileOf(c)'
    BY <1>0, <1>d DEF WithinFileOf, Headers, Inserts
  <1> QED
    BY <1>1, <1>2, <1>3, <1>4, <1>5, <1>6, Frame

-----------------------------------------------------------------------------
\* The initial states.
LEMMA InitInv == Init => Inv
  <1> SUFFICES ASSUME Init PROVE Inv
    OBVIOUS
  <1> USE DEF Init
  <1>1. Preloaded \in Nat /\ MaxQueries \in Nat
    BY SessionAssumption, PageCapacityAssumption
  <1>2. TypeOK
    <2>1. nextXID \in Nat /\ queries \in 0 .. MaxQueries
      BY <1>1
    <2>2. statuses \in [DOMAIN statuses -> {Committed, Aborted}]
      OBVIOUS
    <2>3. heap \in Seq(Seq(Tuples))
      <3>1. \A i \in 1 .. Preloaded :
                [xmin |-> i, xmax |-> 0, row |-> [by |-> i, n |-> 1]] \in Tuples
        BY <1>1 DEF Tuples, Rows, XIDs
      <3>2. PreloadedPage \in Seq(Tuples)
        BY <1>1, <3>1 DEF PreloadedPage
      <3>3. heap = <<>> \/ heap = <<PreloadedPage>>
        OBVIOUS
      <3>4. <<>> \in Seq(Seq(Tuples)) /\ <<PreloadedPage>> \in Seq(Seq(Tuples))
        BY <3>2
      <3> QED
        BY <3>3, <3>4
    <2>4. /\ pc \in [Conns -> Locations] /\ stmt \in [Conns -> Ops]
          /\ xid \in [Conns -> Nat] /\ autoCommit \in [Conns -> BOOLEAN]
      BY DEF Locations, Ops
    <2>5. snap \in [Conns -> Snapshots]
      BY DEF NoSnapshot, Snapshots, XIDs
    <2>6. scan \in [Conns -> ScanStates] /\ buf \in [Conns -> Buffers]
      BY NoScanType
    <2>7. rows \in [Conns -> SUBSET Tuples] /\ marked \subseteq Rows \X XIDs /\ raced \in BOOLEAN
      OBVIOUS
    <2>8. acked \subseteq Rows /\ IsFiniteSet(acked)
      <3>1. acked \subseteq Rows
        BY <1>1 DEF Rows, XIDs
      <3>2. IsFiniteSet(1 .. Preloaded)
        BY <1>1, FS_Interval
      <3>3. IsFiniteSet({[by |-> i, n |-> 1] : i \in 1 .. Preloaded})
        <4> DEFINE T == {[by |-> i, n |-> 1] : i \in 1 .. Preloaded}
                   f == [i \in 1 .. Preloaded |-> [by |-> i, n |-> 1]]
        <4>1. f \in Surjection(1 .. Preloaded, T)
          BY DEF Surjection
        <4> QED
          BY <3>2, <4>1, FS_Surjection
      <3> QED
        BY <3>1, <3>3
    <2>9. connTxn \in [Conns -> [State : TxnStates, XID : Nat]]
      BY DEF NoTxn, TxnStates
    <2> QED
      BY <2>1, <2>2, <2>3, <2>4, <2>5, <2>6, <2>7, <2>8, <2>9 DEF TypeOK
  <1>3. XIDStates
    BY <1>1 DEF XIDStates, XIDStateOf, NoTxn, Running, Scans, Headers, Inserts
  <1>4. XIDsExclusive
    BY DEF XIDsExclusive, Held, NoTxn
  <1>5. WithinFile
    BY <1>2 DEF TypeOK, WithinFile, WithinFileOf, NoScan, Headers, Inserts
  <1> QED
    BY <1>2, <1>3, <1>4, <1>5 DEF Inv

\* Inv is inductive.
LEMMA NextInv == Inv /\ [Next]_vars => Inv'
  <1> SUFFICES ASSUME Inv, [Next]_vars PROVE Inv'
    OBVIOUS
  <1>1. CASE UNCHANGED vars
    BY <1>1 DEF vars, Inv, TypeOK, XIDStates, XIDStateOf, XIDsExclusive, Held,
                WithinFile, WithinFileOf
  <1>2. ASSUME NEW c \in Conns, Execute(c), UNCHANGED <<connTxn, queries>>
        PROVE  Inv'
    BY <1>2, OpenTableInv, CountPagesInv, ScanPageInv, ScanEndInv, SkipItemInv,
       MatchItemInv, PageDoneInv, HeaderReadInv, HeaderWriteInv, InsertCountInv,
       InsertReadInv, InsertWriteInv, StatementEndInv
       DEF Execute
  <1> QED
    BY <1>1, <1>2, ControlInv, StartStatementInv, RespondInv DEF Next, Working

\* Every reachable state is well typed.
THEOREM TypeCorrect == Spec => []TypeOK
  <1>1. Inv => TypeOK
    BY DEF Inv
  <1> QED
    BY <1>1, InitInv, NextInv, PTL DEF Spec

\* In every state of a connection, the copies of an XID it keeps are the ones
\* that belong there.
THEOREM XIDsInTheirPlaces == Spec => []XIDStates
  <1>1. Inv => XIDStates
    BY DEF Inv
  <1> QED
    BY <1>1, InitInv, NextInv, PTL DEF Spec

\* No XID is ever held by two connections, or held after its outcome is known.
THEOREM XIDsAreExclusive == Spec => []XIDsExclusive
  <1>1. Inv => XIDsExclusive
    BY DEF Inv
  <1> QED
    BY <1>1, InitInv, NextInv, PTL DEF Spec

\* No scan or page write leaves the file, whatever the connections interleave.
THEOREM StaysWithinFile == Spec => []WithinFile
  <1>1. Inv => WithinFile
    BY DEF Inv
  <1> QED
    BY <1>1, InitInv, NextInv, PTL DEF Spec

-----------------------------------------------------------------------------
(***************************************************************************)
(* Outcomes are final, and what visibility checks conclude from them.      *)
(***************************************************************************)
Kept == \A x \in DOMAIN statuses : x \in DOMAIN statuses' /\ statuses'[x] = statuses[x]

\* An XID somebody holds has no outcome that could be overwritten.
LEMMA HeldKept ==
    ASSUME Inv, NEW c \in Conns, NEW x \in Held(c), NEW s \in {Committed, Aborted},
           SetStatus(x, s)
    PROVE  Kept
  <1>1. TypeOK /\ x \notin DOMAIN statuses
    BY DEF Inv, XIDsExclusive
  <1> QED
    BY <1>1, SetStatusEffect DEF Kept

\* A step records the outcome of at most one XID, and of one its connection
\* holds; by XIDsExclusive that XID has no outcome yet.
LEMMA NextKept == Inv /\ [Next]_vars => Kept
  <1> SUFFICES ASSUME Inv, [Next]_vars PROVE Kept
    OBVIOUS
  <1>1. CASE statuses' = statuses
    BY <1>1 DEF Kept
  <1>2. ASSUME NEW c \in Conns, Finish(c) \/ FailAbort(c), statuses' # statuses
        PROVE  Kept
    <2>1. autoCommit[c] /\ \E s \in {Committed, Aborted} : SetStatus(xid[c], s)
      BY <1>2 DEF Finish, FailAbort, CommitXID, AbortXID
    <2>2. xid[c] \in Held(c)
      BY <2>1 DEF Inv, XIDStates, XIDStateOf, Held
    <2> QED
      BY <2>1, <2>2, HeldKept
  <1>3. ASSUME NEW c \in Conns, CommitStatement(c) \/ RollbackStatement(c),
               statuses' # statuses
        PROVE  Kept
    <2>1. /\ connTxn[c].State \in {"InTransaction", "Failed"}
          /\ \E s \in {Committed, Aborted} : SetStatus(connTxn[c].XID, s)
      BY <1>3 DEF CommitStatement, RollbackStatement, CommitXID, AbortXID
    <2>2. connTxn[c].XID \in Held(c)
      BY <2>1 DEF Inv, XIDStates, XIDStateOf, Held
    <2> QED
      BY <2>1, <2>2, HeldKept
  <1>4. ASSUME NEW c \in Conns, Execute(c), statuses' # statuses
        PROVE  Finish(c) \/ FailAbort(c)
    BY <1>4 DEF Execute, OpenTable, CountPages, ScanPage, ScanEnd, SkipItem,
                MatchItem, PageDone, HeaderRead, HeaderWrite, InsertCount,
                InsertRead, InsertWrite, FailPlain
  <1>5. ASSUME NEW c \in Conns, statuses' # statuses,
               \/ Connect(c) \/ Disconnect(c) \/ ParseError(c) \/ RejectFailed(c)
               \/ BeginStatement(c) \/ Respond(c)
               \/ \E op \in Ops : StartStatement(c, op)
        PROVE  FALSE
    BY <1>5 DEF Connect, Disconnect, ParseError, RejectFailed, BeginStatement,
                Respond, StartStatement
  <1>6. CASE UNCHANGED vars
    BY <1>1, <1>6 DEF vars
  <1> QED
    BY <1>1, <1>2, <1>3, <1>4, <1>5, <1>6 DEF Next, Working

\* A recorded outcome is never changed or forgotten.
THEOREM OutcomesAreFinal == Spec => StatusFinal
  <1>1. Inv /\ [Next]_vars => [Kept]_vars
    BY NextKept
  <1>2. Spec => []Inv
    BY InitInv, NextInv, PTL DEF Spec
  <1>3. Spec => [][Kept]_vars
    BY <1>1, <1>2, PTL DEF Spec
  <1> QED
    BY <1>3 DEF StatusFinal, Kept

\* A snapshot taken now sees exactly the latest committed data.
THEOREM ReadCommitted == Spec => []SeesLatestCommitted
  <1>1. Inv => SeesLatestCommitted
    <2> SUFFICES ASSUME Inv PROVE SeesLatestCommitted
      OBVIOUS
    <2>1. /\ TakeSnapshot.Xmax = nextXID + 1 /\ TakeSnapshot.Xip = {}
          /\ nextXID \in Nat
      BY SnapshotOfNow DEF Inv, TypeOK
    <2>2. ASSUME NEW x, GetStatus(x) = Committed
          PROVE  x < nextXID + 1
      <3>1. x \in DOMAIN statuses
        BY <2>2 DEF GetStatus, InProgress, Committed
      <3> QED
        BY <2>1, <3>1 DEF Inv, XIDStates
    <2>3. \A x : isXIDCommitted(x, TakeSnapshot) <=> GetStatus(x) = Committed
      BY <2>1, <2>2 DEF isXIDCommitted
    <2> QED
      BY <2>3 DEF SeesLatestCommitted, IsVisible
  <1> QED
    BY <1>1, InitInv, NextInv, PTL DEF Spec

\* Every collected tuple, and every tuple about to be marked, has the XID of a
\* committed transaction as its xmin word in the scan's copy.
OnlyCommitted ==
    \A c \in Conns :
        /\ \A t \in rows[c] : GetStatus(t.xmin) = Committed
        /\ pc[c] \in Headers => GetStatus(Item(c).xmin) = Committed

\* The effect of a step of c on what it has collected and on what it marks.
ReadStep(c) ==
    /\ \A d \in Conns \ {c} : Same(d)
    /\ \A t \in rows'[c] :
          t \in rows[c] \/ (t = Item(c) /\ AtItem(c) /\ GetStatus(Item(c).xmin) = Committed)
    /\ pc'[c] \in Headers =>
          /\ scan'[c] = scan[c]
          /\ pc[c] \in Headers \/ GetStatus(Item(c).xmin) = Committed

\* A committed transaction stays committed.
LEMMA CommittedStays ==
    ASSUME Kept, NEW x, GetStatus(x) = Committed
    PROVE  GetStatus(x)' = Committed
  BY DEF Kept, GetStatus, InProgress, Committed

\* A step that reads only committed tuples keeps OnlyCommitted.
LEMMA ReadStepKeeps ==
    ASSUME OnlyCommitted, Kept, NEW c \in Conns, ReadStep(c)
    PROVE  OnlyCommitted'
  <1>1. ASSUME NEW d \in Conns, NEW t \in rows'[d]
        PROVE  GetStatus(t.xmin)' = Committed
    <2>1. GetStatus(t.xmin) = Committed
      BY <1>1 DEF OnlyCommitted, ReadStep, Same
    <2> QED
      BY <2>1, CommittedStays
  <1>2. ASSUME NEW d \in Conns, pc'[d] \in Headers
        PROVE  GetStatus(Item(d).xmin)' = Committed
    <2>1. scan'[d] = scan[d] /\ GetStatus(Item(d).xmin) = Committed
      BY <1>2 DEF OnlyCommitted, ReadStep, Same
    <2>2. Item(d)' = Item(d)
      BY <2>1 DEF Item
    <2>3. GetStatus(Item(d).xmin)' = Committed
      BY <2>1, <2>2, CommittedStays DEF GetStatus
    <2> QED
      BY <2>3
  <1> QED
    BY <1>1, <1>2 DEF OnlyCommitted

\* The executor collects and marks visible tuples only.
LEMMA ExecuteReads ==
    ASSUME Inv, NEW c \in Conns, Execute(c), UNCHANGED <<connTxn, queries>>
    PROVE  ReadStep(c)
  <1> USE DEF Goto, execLocals, history, Headers
  <1>0. TypeOK
    BY DEF Inv
  <1>1. CASE OpenTable(c)
    BY <1>0, <1>1 DEF OpenTable, getAutoCommitWithXID, ReadStep, Same, TypeOK
  <1>2. CASE CountPages(c) \/ ScanPage(c) \/ ScanEnd(c) \/ PageDone(c)
    BY <1>0, <1>2 DEF CountPages, ScanPage, ScanEnd, PageDone, ReadStep, Same, TypeOK
  <1>3. CASE SkipItem(c)
    BY <1>0, <1>3 DEF SkipItem, AtItem, NextItem, ReadStep, Same, TypeOK
  <1>4. CASE MatchItem(c)
    <2>1. GetStatus(Item(c).xmin) = Committed /\ pc[c] = "item" /\ AtItem(c)
      BY <1>4 DEF MatchItem, AtItem, IsVisible, isXIDCommitted
    <2>2. CASE stmt[c] = "SELECT"
      BY <1>0, <1>4, <2>1, <2>2 DEF MatchItem, NextItem, ReadStep, Same, TypeOK
    <2>3. CASE stmt[c] # "SELECT"
      BY <1>0, <1>4, <2>1, <2>3 DEF MatchItem, ReadStep, Same, TypeOK
    <2> QED
      BY <2>2, <2>3
  <1>5. CASE HeaderRead(c)
    BY <1>0, <1>5 DEF HeaderRead, ReadStep, Same, TypeOK
  <1>6. CASE HeaderWrite(c)
    BY <1>0, <1>6 DEF HeaderWrite, NextItem, ReadStep, Same, TypeOK
  <1>7. CASE InsertCount(c) \/ InsertRead(c)
    BY <1>0, <1>7 DEF InsertCount, InsertRead, ReadStep, Same, TypeOK
  <1>8. CASE InsertWrite(c)
    BY <1>0, <1>8 DEF InsertWrite, NextItem, ReadStep, Same, TypeOK
  <1>9. CASE Finish(c) \/ FailPlain(c) \/ FailAbort(c)
    BY <1>0, <1>9 DEF Finish, FailPlain, FailAbort, Return, ReadStep, Same, TypeOK
  <1> QED
    BY <1>1, <1>2, <1>3, <1>4, <1>5, <1>6, <1>7, <1>8, <1>9 DEF Execute

\* The message loop collects and marks nothing.
LEMMA ControlReads ==
    ASSUME Inv, NEW c \in Conns,
           \/ Connect(c) \/ Disconnect(c) \/ ParseError(c) \/ RejectFailed(c)
           \/ BeginStatement(c) \/ CommitStatement(c) \/ RollbackStatement(c)
           \/ (\E op \in Ops : StartStatement(c, op)) \/ Respond(c)
    PROVE  ReadStep(c)
  <1> USE DEF Goto, history, Headers, executorVars, Receive
  <1>0. TypeOK
    BY DEF Inv
  <1>1. CASE Connect(c) \/ Disconnect(c)
    BY <1>0, <1>1 DEF Connect, Disconnect, ReadStep, Same, TypeOK
  <1>2. CASE ParseError(c) \/ RejectFailed(c)
    BY <1>0, <1>2 DEF ParseError, FailTxn, RejectFailed, ReadStep, Same, TypeOK
  <1>3. CASE BeginStatement(c)
    BY <1>0, <1>3 DEF BeginStatement, ReadStep, Same, TypeOK
  <1>4. CASE CommitStatement(c) \/ RollbackStatement(c)
    BY <1>0, <1>4 DEF CommitStatement, RollbackStatement, ReadStep, Same, TypeOK
  <1>5. CASE \E op \in Ops : StartStatement(c, op)
    BY <1>0, <1>5 DEF StartStatement, ReadStep, Same, TypeOK
  <1>6. CASE Respond(c)
    BY <1>0, <1>6 DEF Respond, FailTxn, ReadStep, Same, TypeOK
  <1> QED
    BY <1>1, <1>2, <1>3, <1>4, <1>5, <1>6

\* OnlyCommitted is inductive relative to Inv.
LEMMA OnlyCommittedInv ==
    /\ Init => OnlyCommitted
    /\ Inv /\ OnlyCommitted /\ [Next]_vars => OnlyCommitted'
  <1>1. Init => OnlyCommitted
    BY DEF Init, OnlyCommitted, Headers
  <1>2. ASSUME Inv, OnlyCommitted, Next PROVE OnlyCommitted'
    <2>1. Kept
      BY <1>2, NextKept
    <2>2. \E c \in Conns : ReadStep(c)
      BY <1>2, ExecuteReads, ControlReads DEF Next, Working
    <2> QED
      BY <1>2, <2>1, <2>2, ReadStepKeeps
  <1>3. ASSUME OnlyCommitted, UNCHANGED vars PROVE OnlyCommitted'
    BY <1>3 DEF OnlyCommitted, vars, GetStatus, Item
  <1> QED
    BY <1>1, <1>2, <1>3

-----------------------------------------------------------------------------
(***************************************************************************)
(* Session implements TxnLifecycle: each step of a connection is a step of *)
(* the life cycle of one transaction, or leaves the life cycle of all of   *)
(* them as it is.                                                          *)
(***************************************************************************)

\* What connection c contributes to Active and to Doomed.
ActiveOf(c) == (IF connTxn[c].State = "InTransaction" THEN {connTxn[c].XID} ELSE {})
                 \cup (IF autoCommit[c] THEN {xid[c]} ELSE {})
DoomedOf(c) == IF connTxn[c].State = "Failed" THEN {connTxn[c].XID} ELSE {}

\* The step leaves the transaction of connection d alone.
SameTxn(d) ==
    /\ connTxn'[d] = connTxn[d] /\ xid'[d] = xid[d]
    /\ autoCommit'[d] = autoCommit[d]

\* Active and Doomed are the union of what the connections contribute.
LEMMA ActiveIsUnion ==
    /\ \A x : x \in Active <=> \E c \in Conns : x \in ActiveOf(c)
    /\ \A x : x \in Doomed <=> \E c \in Conns : x \in DoomedOf(c)
  BY DEF Active, Doomed, ActiveOf, DoomedOf

\* The same after a step.
LEMMA ActiveIsUnionNext ==
    /\ \A x : x \in Active' <=> \E c \in Conns : x \in ActiveOf(c)'
    /\ \A x : x \in Doomed' <=> \E c \in Conns : x \in DoomedOf(c)'
  BY DEF Active, Doomed, ActiveOf, DoomedOf

\* A connection contributes XIDs it holds, to one of the two sets.
LEMMA ContributionHeld ==
    ASSUME Inv, NEW c \in Conns
    PROVE  /\ ActiveOf(c) \cup DoomedOf(c) \subseteq Held(c)
           /\ ActiveOf(c) \cap DoomedOf(c) = {}
  BY DEF Inv, XIDStates, XIDStateOf, ActiveOf, DoomedOf, Held

\* What distinct connections contribute is disjoint, and so are Active and
\* Doomed.
LEMMA ContributionsDisjoint ==
    ASSUME Inv
    PROVE  /\ \A c, d \in Conns : c # d =>
                  (ActiveOf(c) \cup DoomedOf(c)) \cap (ActiveOf(d) \cup DoomedOf(d)) = {}
           /\ Active \cap Doomed = {}
  <1>1. ASSUME NEW c \in Conns, NEW d \in Conns, c # d
        PROVE  (ActiveOf(c) \cup DoomedOf(c)) \cap (ActiveOf(d) \cup DoomedOf(d)) = {}
    <2>1. Held(c) \cap Held(d) = {}
      BY <1>1 DEF Inv, XIDsExclusive
    <2> QED
      BY <2>1, ContributionHeld
  <1>2. ASSUME NEW x, x \in Active, x \in Doomed
        PROVE  FALSE
    <2>1. PICK c \in Conns : x \in ActiveOf(c)
      BY <1>2, ActiveIsUnion
    <2>2. PICK d \in Conns : x \in DoomedOf(d)
      BY <1>2, ActiveIsUnion
    <2>3. CASE c = d
      BY <2>1, <2>2, <2>3, ContributionHeld
    <2>4. CASE c # d
      BY <2>1, <2>2, <2>4, <1>1
    <2> QED
      BY <2>3, <2>4
  <1> QED
    BY <1>1, <1>2

\* A step of one connection changes that connection's contribution only.
LEMMA LocalChange ==
    ASSUME Inv, NEW c \in Conns, \A d \in Conns \ {c} : SameTxn(d)
    PROVE  /\ Active' = (Active \ ActiveOf(c)) \cup ActiveOf(c)'
           /\ Doomed' = (Doomed \ DoomedOf(c)) \cup DoomedOf(c)'
  <1>1. \A d \in Conns \ {c} : ActiveOf(d)' = ActiveOf(d) /\ DoomedOf(d)' = DoomedOf(d)
    BY DEF SameTxn, ActiveOf, DoomedOf
  <1>2. \A d \in Conns \ {c} : /\ ActiveOf(c) \cap ActiveOf(d) = {}
                               /\ DoomedOf(c) \cap DoomedOf(d) = {}
    BY ContributionsDisjoint
  <1>3. \A x : x \in Active' <=> x \in (Active \ ActiveOf(c)) \cup ActiveOf(c)'
    BY <1>1, <1>2, ActiveIsUnion, ActiveIsUnionNext
  <1>4. \A x : x \in Doomed' <=> x \in (Doomed \ DoomedOf(c)) \cup DoomedOf(c)'
    BY <1>1, <1>2, ActiveIsUnion, ActiveIsUnionNext
  <1> QED
    BY <1>3, <1>4

\* Recording an outcome adds the XID to the transactions that ended so.
LEMMA EndedEffect ==
    ASSUME Inv, NEW x, x \notin DOMAIN statuses
    PROVE  /\ CommitXID(x) => /\ Ended(Committed)' = Ended(Committed) \cup {x}
                              /\ Ended(Aborted)' = Ended(Aborted)
           /\ AbortXID(x) => /\ Ended(Aborted)' = Ended(Aborted) \cup {x}
                             /\ Ended(Committed)' = Ended(Committed)
  <1>1. TypeOK
    BY DEF Inv
  <1>2. ASSUME CommitXID(x)
        PROVE  /\ Ended(Committed)' = Ended(Committed) \cup {x}
               /\ Ended(Aborted)' = Ended(Aborted)
    <2>1. /\ DOMAIN statuses' = DOMAIN statuses \cup {x}
          /\ statuses'[x] = Committed
          /\ \A y \in DOMAIN statuses : y # x => statuses'[y] = statuses[y]
      BY <1>1, <1>2, SetStatusEffect DEF CommitXID
    <2> QED
      BY <2>1 DEF Ended, Committed, Aborted
  <1>3. ASSUME AbortXID(x)
        PROVE  /\ Ended(Aborted)' = Ended(Aborted) \cup {x}
               /\ Ended(Committed)' = Ended(Committed)
    <2>1. /\ DOMAIN statuses' = DOMAIN statuses \cup {x}
          /\ statuses'[x] = Aborted
          /\ \A y \in DOMAIN statuses : y # x => statuses'[y] = statuses[y]
      BY <1>1, <1>3, SetStatusEffect DEF AbortXID
    <2> QED
      BY <2>1 DEF Ended, Committed, Aborted
  <1> QED
    BY <1>2, <1>3

-----------------------------------------------------------------------------
(***************************************************************************)
(* The kinds of steps a connection takes, seen from the life cycle.        *)
(***************************************************************************)

LStep == [Lifecycle!LNext]_(Lifecycle!tvars)

\* A step that changes neither an outcome nor the connection's contribution.
LEMMA Silent ==
    ASSUME Inv, NEW c \in Conns, \A d \in Conns \ {c} : SameTxn(d),
           UNCHANGED <<nextXID, statuses>>,
           ActiveOf(c)' = ActiveOf(c), DoomedOf(c)' = DoomedOf(c)
    PROVE  LStep
  <1>1. ActiveOf(c) \subseteq Active /\ DoomedOf(c) \subseteq Doomed
    BY ActiveIsUnion
  <1>2. Active' = Active /\ Doomed' = Doomed
    BY <1>1, LocalChange
  <1>3. Ended(Committed)' = Ended(Committed) /\ Ended(Aborted)' = Ended(Aborted)
    BY DEF Ended, Committed, Aborted
  <1> QED
    BY <1>2, <1>3 DEF LStep, Lifecycle!tvars

\* A connection draws an XID for a transaction that may commit, and may give
\* up a failed transaction in the same step.
LEMMA Start ==
    ASSUME Inv, NEW c \in Conns, \A d \in Conns \ {c} : SameTxn(d),
           nextXID' = NextXID, UNCHANGED statuses,
           ActiveOf(c) = {}, ActiveOf(c)' = {NextXID}, DoomedOf(c)' = {}
    PROVE  LStep
  <1>1. Active' = Active \cup {nextXID + 1} /\ Doomed' = Doomed \ DoomedOf(c)
    BY LocalChange DEF NextXID
  <1>2. DoomedOf(c) \subseteq Doomed
    BY ActiveIsUnion
  <1>3. Ended(Committed)' = Ended(Committed) /\ Ended(Aborted)' = Ended(Aborted)
    BY DEF Ended, Committed, Aborted
  <1>4. Lifecycle!LStart(DoomedOf(c))
    BY <1>1, <1>2, <1>3 DEF NextXID, Lifecycle!LStart
  <1>5. CASE connTxn[c].State = "Failed"
    <2>1. DoomedOf(c) = {connTxn[c].XID}
      BY <1>5 DEF DoomedOf
    <2> QED
      BY <1>2, <1>4, <2>1 DEF LStep, Lifecycle!LNext
  <1>6. CASE connTxn[c].State # "Failed"
    <2>1. DoomedOf(c) = {}
      BY <1>6 DEF DoomedOf
    <2> QED
      BY <1>4, <2>1 DEF LStep, Lifecycle!LNext
  <1> QED
    BY <1>5, <1>6

\* A connection lets go of the transaction it has, with or without an outcome;
\* only one that has not failed may have been committed.
LEMMA LetGo ==
    ASSUME Inv, NEW c \in Conns, \A d \in Conns \ {c} : SameTxn(d),
           UNCHANGED nextXID, NEW x,
           ActiveOf(c) \cup DoomedOf(c) = {x},
           ActiveOf(c)' = {}, DoomedOf(c)' = {},
           \/ UNCHANGED statuses
           \/ AbortXID(x)
           \/ CommitXID(x) /\ x \in ActiveOf(c)
    PROVE  LStep
  <1>1. x \in Active \cup Doomed /\ (x \in ActiveOf(c) => x \in Active)
    BY ActiveIsUnion
  <1>2. x \notin DOMAIN statuses
    BY ContributionHeld DEF Inv, XIDsExclusive
  <1>3. Active' = Active \ {x} /\ Doomed' = Doomed \ {x}
    <2>1. Active' = Active \ ActiveOf(c) /\ Doomed' = Doomed \ DoomedOf(c)
      BY LocalChange
    <2>2. ActiveOf(c) \subseteq Active /\ DoomedOf(c) \subseteq Doomed
      BY ActiveIsUnion
    <2>3. Active \cap Doomed = {}
      BY ContributionsDisjoint
    <2> QED
      BY <2>1, <2>2, <2>3
  <1>4. CASE UNCHANGED statuses
    <2>1. Ended(Committed)' = Ended(Committed) /\ Ended(Aborted)' = Ended(Aborted)
      BY <1>4 DEF Ended, Committed, Aborted
    <2>2. Lifecycle!LAbandon(x)
      BY <1>1, <1>3, <2>1 DEF Lifecycle!LAbandon
    <2> QED
      BY <1>1, <2>2 DEF LStep, Lifecycle!LNext
  <1>5. CASE AbortXID(x)
    <2>1. Lifecycle!LAbort(x)
      BY <1>1, <1>2, <1>3, <1>5, EndedEffect DEF Lifecycle!LAbort
    <2> QED
      BY <1>1, <2>1 DEF LStep, Lifecycle!LNext
  <1>6. CASE CommitXID(x) /\ x \in ActiveOf(c)
    <2>1. x \in Active /\ Doomed' = Doomed
      BY <1>1, <1>3, <1>6, ContributionsDisjoint
    <2>2. Lifecycle!LCommit(x)
      BY <1>2, <1>3, <1>6, <2>1, EndedEffect DEF Lifecycle!LCommit
    <2> QED
      BY <1>1, <2>2 DEF LStep, Lifecycle!LNext
  <1> QED
    BY <1>4, <1>5, <1>6

\* An error makes the connection's transaction a failed one.
LEMMA Fail ==
    ASSUME Inv, NEW c \in Conns, \A d \in Conns \ {c} : SameTxn(d),
           UNCHANGED <<nextXID, statuses>>, NEW x,
           ActiveOf(c) = {x}, ActiveOf(c)' = {}, DoomedOf(c)' = {x}
    PROVE  LStep
  <1>1. x \in Active /\ DoomedOf(c) \subseteq Doomed
    BY ActiveIsUnion
  <1>2. DoomedOf(c) = {}
    BY DEF ActiveOf, DoomedOf, Inv, XIDStates, XIDStateOf
  <1>3. Active' = Active \ {x} /\ Doomed' = Doomed \cup {x}
    BY <1>2, LocalChange
  <1>4. Ended(Committed)' = Ended(Committed) /\ Ended(Aborted)' = Ended(Aborted)
    BY DEF Ended, Committed, Aborted
  <1>5. Lifecycle!LFail(x)
    BY <1>1, <1>3, <1>4 DEF Lifecycle!LFail
  <1> QED
    BY <1>1, <1>5 DEF LStep, Lifecycle!LNext

-----------------------------------------------------------------------------
(***************************************************************************)
(* Every action is a step of one of these kinds.                           *)
(***************************************************************************)

\* A connection that executes no statement contributes its transaction block.
LEMMA NotRunning ==
    ASSUME Inv, NEW c \in Conns, pc[c] \notin Running
    PROVE  /\ ~autoCommit[c]
           /\ connTxn[c].State \in TxnStates
           /\ ActiveOf(c) = IF connTxn[c].State = "InTransaction"
                            THEN {connTxn[c].XID} ELSE {}
  BY DEF Inv, TypeOK, XIDStates, XIDStateOf, ActiveOf

\* Resetting the transaction of an idle connection: Connect, Disconnect,
\* COMMIT and ROLLBACK.
LEMMA ResetStep ==
    ASSUME Inv, NEW c \in Conns, pc[c] \notin Running,
           UNCHANGED <<nextXID, xid, autoCommit>>,
           connTxn' = [connTxn EXCEPT ![c] = NoTxn],
           connTxn[c].State = "Idle" => UNCHANGED statuses,
           connTxn[c].State = "Failed" =>
               UNCHANGED statuses \/ AbortXID(connTxn[c].XID),
           connTxn[c].State = "InTransaction" =>
               \/ UNCHANGED statuses
               \/ CommitXID(connTxn[c].XID) \/ AbortXID(connTxn[c].XID)
    PROVE  LStep
  <1> DEFINE x == connTxn[c].XID
  <1>1. /\ ~autoCommit[c] /\ connTxn[c].State \in TxnStates
        /\ ActiveOf(c) = IF connTxn[c].State = "InTransaction" THEN {x} ELSE {}
    BY NotRunning
  <1>2. connTxn \in [Conns -> [State : TxnStates, XID : Nat]]
    BY DEF Inv, TypeOK
  <1>3. \A d \in Conns \ {c} : SameTxn(d)
    BY <1>2 DEF SameTxn
  <1>4. ActiveOf(c)' = {} /\ DoomedOf(c)' = {}
    BY <1>1, <1>2 DEF ActiveOf, DoomedOf, NoTxn
  <1>5. CASE connTxn[c].State = "Idle"
    <2>1. ActiveOf(c) = {} /\ DoomedOf(c) = {} /\ UNCHANGED statuses
      BY <1>1, <1>5 DEF DoomedOf
    <2> QED
      BY <1>3, <1>4, <2>1, Silent
  <1>6. CASE connTxn[c].State = "InTransaction"
    <2>1. ActiveOf(c) = {x} /\ DoomedOf(c) = {}
      BY <1>1, <1>6 DEF DoomedOf
    <2>2. UNCHANGED statuses \/ CommitXID(x) \/ AbortXID(x)
      BY <1>6
    <2>3. ActiveOf(c) \cup DoomedOf(c) = {x} /\ x \in ActiveOf(c)
      BY <2>1
    <2> HIDE DEF x
    <2> QED
      BY <1>3, <1>4, <2>2, <2>3, LetGo
  <1>7. CASE connTxn[c].State = "Failed"
    <2>1. ActiveOf(c) = {} /\ DoomedOf(c) = {x}
      BY <1>1, <1>7 DEF DoomedOf
    <2>2. UNCHANGED statuses \/ AbortXID(x)
      BY <1>7
    <2>3. ActiveOf(c) \cup DoomedOf(c) = {x}
      BY <2>1
    <2> HIDE DEF x
    <2> QED
      BY <1>3, <1>4, <2>2, <2>3, LetGo
  <1> QED
    BY <1>1, <1>5, <1>6, <1>7 DEF TxnStates

\* An error while the connection executes nothing: ParseError and Respond.
LEMMA FailTxnStep ==
    ASSUME Inv, NEW c \in Conns, pc[c] \notin Running,
           UNCHANGED <<nextXID, statuses, xid, autoCommit>>, FailTxn(c)
    PROVE  LStep
  <1> DEFINE x == connTxn[c].XID
  <1>1. /\ ~autoCommit[c]
        /\ ActiveOf(c) = IF connTxn[c].State = "InTransaction" THEN {x} ELSE {}
    BY NotRunning
  <1>2. connTxn \in [Conns -> [State : TxnStates, XID : Nat]]
    BY DEF Inv, TypeOK
  <1>3. \A d \in Conns \ {c} : SameTxn(d)
    BY <1>2 DEF SameTxn, FailTxn
  <1>4. /\ connTxn'[c].XID = x /\ ~autoCommit'[c]
        /\ connTxn'[c].State = IF connTxn[c].State = "InTransaction"
                               THEN "Failed" ELSE connTxn[c].State
    BY <1>1, <1>2 DEF FailTxn
  <1>5. CASE connTxn[c].State = "InTransaction"
    <2>1. ActiveOf(c) = {x} /\ ActiveOf(c)' = {} /\ DoomedOf(c)' = {x}
      BY <1>1, <1>4, <1>5 DEF ActiveOf, DoomedOf
    <2> HIDE DEF x
    <2> QED
      BY <1>3, <2>1, Fail
  <1>6. CASE connTxn[c].State # "InTransaction"
    <2>1. ActiveOf(c)' = ActiveOf(c) /\ DoomedOf(c)' = DoomedOf(c)
      BY <1>1, <1>4, <1>6 DEF ActiveOf, DoomedOf
    <2> QED
      BY <1>3, <2>1, Silent
  <1> QED
    BY <1>5, <1>6

\* BEGIN starts a transaction, unless one is open.
LEMMA BeginStep ==
    ASSUME Inv, NEW c \in Conns, BeginStatement(c)
    PROVE  LStep
  <1> USE DEF BeginStatement, Receive, executorVars
  <1>1. pc[c] \notin Running
    BY DEF Running, Scans, Headers, Inserts
  <1>2. /\ ~autoCommit[c]
        /\ ActiveOf(c) = IF connTxn[c].State = "InTransaction"
                         THEN {connTxn[c].XID} ELSE {}
    BY <1>1, NotRunning
  <1>3. connTxn \in [Conns -> [State : TxnStates, XID : Nat]]
    BY DEF Inv, TypeOK
  <1>4. \A d \in Conns \ {c} : SameTxn(d)
    BY <1>3 DEF SameTxn
  <1>5. CASE connTxn[c].State = "InTransaction"
    <2>1. ActiveOf(c)' = ActiveOf(c) /\ DoomedOf(c)' = DoomedOf(c)
      BY <1>5 DEF ActiveOf, DoomedOf
    <2> QED
      BY <1>4, <1>5, <2>1, Silent
  <1>6. CASE connTxn[c].State # "InTransaction"
    <2>1. connTxn'[c] = [State |-> "InTransaction", XID |-> NextXID]
      BY <1>3, <1>6
    <2>2. ActiveOf(c)' = {NextXID} /\ DoomedOf(c)' = {} /\ ActiveOf(c) = {}
      BY <1>2, <1>6, <2>1 DEF ActiveOf, DoomedOf
    <2> QED
      BY <1>4, <1>6, <2>2, Start
  <1> QED
    BY <1>5, <1>6

\* The messages that arrive while the connection executes nothing.
LEMMA MessageStep ==
    ASSUME Inv, NEW c \in Conns,
           \/ Connect(c) \/ Disconnect(c) \/ ParseError(c) \/ RejectFailed(c)
           \/ CommitStatement(c) \/ RollbackStatement(c)
    PROVE  LStep
  <1> USE DEF executorVars, Receive
  <1>1. pc[c] \notin Running
    BY DEF Connect, Disconnect, ParseError, RejectFailed, CommitStatement,
           RollbackStatement, Running, Scans, Headers, Inserts
  <1>2. CASE Connect(c)
    BY <1>1, <1>2, ResetStep DEF Connect
  <1>3. CASE Disconnect(c)
    BY <1>1, <1>3, ResetStep DEF Disconnect
  <1>4. CASE ParseError(c)
    BY <1>1, <1>4, FailTxnStep DEF ParseError
  <1>5. CASE RejectFailed(c)
    <2>1. \A d \in Conns \ {c} : SameTxn(d)
      BY <1>5 DEF RejectFailed, SameTxn
    <2>2. ActiveOf(c)' = ActiveOf(c) /\ DoomedOf(c)' = DoomedOf(c)
      BY <1>5 DEF RejectFailed, ActiveOf, DoomedOf
    <2> QED
      BY <1>5, <2>1, <2>2, Silent DEF RejectFailed
  <1>6. CASE CommitStatement(c)
    BY <1>1, <1>6, ResetStep DEF CommitStatement
  <1>7. CASE RollbackStatement(c)
    BY <1>1, <1>7, ResetStep DEF RollbackStatement
  <1> QED
    BY <1>2, <1>3, <1>4, <1>5, <1>6, <1>7

\* A step that leaves every connection's transaction alone.
LEMMA NothingStep ==
    ASSUME UNCHANGED <<nextXID, statuses, xid, autoCommit, connTxn>>
    PROVE  LStep
  <1>1. Active' = Active /\ Doomed' = Doomed
    BY DEF Active, Doomed
  <1>2. Ended(Committed)' = Ended(Committed) /\ Ended(Aborted)' = Ended(Aborted)
    BY DEF Ended, Committed, Aborted
  <1> QED
    BY <1>1, <1>2 DEF LStep, Lifecycle!tvars

\* A statement that starts inherits the XID of its transaction block, if any.
LEMMA StatementStep ==
    ASSUME Inv, NEW c \in Conns, NEW op \in Ops, StartStatement(c, op)
    PROVE  LStep
  <1> USE DEF StartStatement, Receive
  <1>1. pc[c] \notin Running
    BY DEF Running, Scans, Headers, Inserts
  <1>2. ~autoCommit[c]
    BY <1>1, NotRunning
  <1>3. \A d \in Conns \ {c} : SameTxn(d)
    BY DEF SameTxn, Inv, TypeOK
  <1>4. ActiveOf(c)' = ActiveOf(c) /\ DoomedOf(c)' = DoomedOf(c)
    BY <1>2 DEF ActiveOf, DoomedOf
  <1> QED
    BY <1>3, <1>4, Silent

\* A writing statement outside a transaction block draws an XID of its own.
LEMMA OpenTableStep ==
    ASSUME Inv, NEW c \in Conns, OpenTable(c), UNCHANGED connTxn
    PROVE  LStep
  <1> USE DEF OpenTable
  <1>1. /\ xid \in [Conns -> Nat] /\ autoCommit \in [Conns -> BOOLEAN]
        /\ XIDStateOf(c) /\ pc[c] \in Running
    BY DEF Inv, TypeOK, XIDStates, Running
  <1>2. ~autoCommit[c]
    BY <1>1 DEF XIDStateOf
  <1>3. CASE stmt[c] = "SELECT"
    BY <1>3, NothingStep
  <1>4. CASE stmt[c] # "SELECT" /\ xid[c] # 0
    <2>1. UNCHANGED <<nextXID, xid>> /\ autoCommit' = [autoCommit EXCEPT ![c] = FALSE]
      BY <1>4 DEF getAutoCommitWithXID
    <2>2. autoCommit' = autoCommit
      BY <1>1, <1>2, <2>1
    <2> QED
      BY <2>1, <2>2, NothingStep
  <1>5. CASE stmt[c] # "SELECT" /\ xid[c] = 0
    <2>1. /\ nextXID' = NextXID /\ xid' = [xid EXCEPT ![c] = NextXID]
          /\ autoCommit' = [autoCommit EXCEPT ![c] = TRUE]
      BY <1>5 DEF getAutoCommitWithXID
    <2>2. \A d \in Conns \ {c} : SameTxn(d)
      BY <1>1, <2>1 DEF SameTxn
    <2>3. connTxn[c].State = "Idle"
      BY <1>1, <1>5 DEF XIDStateOf
    <2>4. ActiveOf(c) = {} /\ ActiveOf(c)' = {NextXID} /\ DoomedOf(c)' = {}
      BY <1>1, <1>2, <2>1, <2>3 DEF ActiveOf, DoomedOf
    <2> QED
      BY <2>1, <2>2, <2>4, Start
  <1> QED
    BY <1>3, <1>4, <1>5

\* The end of a statement ends the transaction of an autocommit statement, or
\* abandons it; it leaves a transaction block as it is.
LEMMA ReturnStep ==
    ASSUME Inv, NEW c \in Conns, NEW l, Return(c, l), UNCHANGED connTxn,
           autoCommit[c] => \/ UNCHANGED statuses
                            \/ CommitXID(xid[c]) \/ AbortXID(xid[c]),
           ~autoCommit[c] => UNCHANGED statuses
    PROVE  LStep
  <1>1. /\ xid \in [Conns -> Nat] /\ autoCommit \in [Conns -> BOOLEAN]
        /\ XIDStateOf(c)
    BY DEF Inv, TypeOK, XIDStates
  <1>2. /\ nextXID' = nextXID /\ xid'[c] = 0 /\ ~autoCommit'[c]
        /\ \A d \in Conns \ {c} : SameTxn(d)
    BY <1>1 DEF Return, SameTxn
  <1>3. CASE autoCommit[c]
    <2> DEFINE x == xid[c]
    <2>1. connTxn[c].State = "Idle"
      BY <1>1, <1>3 DEF XIDStateOf
    <2>2. /\ ActiveOf(c) = {x} /\ DoomedOf(c) = {}
          /\ ActiveOf(c)' = {} /\ DoomedOf(c)' = {}
      BY <1>2, <1>3, <2>1 DEF ActiveOf, DoomedOf
    <2>3. ActiveOf(c) \cup DoomedOf(c) = {x} /\ x \in ActiveOf(c)
      BY <2>2
    <2>4. UNCHANGED statuses \/ CommitXID(x) \/ AbortXID(x)
      BY <1>3
    <2> HIDE DEF x
    <2> QED
      BY <1>2, <2>2, <2>3, <2>4, LetGo
  <1>4. CASE ~autoCommit[c]
    <2>1. ActiveOf(c)' = ActiveOf(c) /\ DoomedOf(c)' = DoomedOf(c)
      BY <1>2, <1>4 DEF ActiveOf, DoomedOf
    <2> QED
      BY <1>2, <1>4, <2>1, Silent
  <1> QED
    BY <1>3, <1>4

\* Every step of the executor.
LEMMA ExecuteStep ==
    ASSUME Inv, NEW c \in Conns, Execute(c), UNCHANGED connTxn
    PROVE  LStep
  <1>1. CASE OpenTable(c)
    BY <1>1, OpenTableStep
  <1>2. CASE \/ CountPages(c) \/ ScanPage(c) \/ ScanEnd(c) \/ SkipItem(c)
             \/ MatchItem(c) \/ PageDone(c)
    BY <1>2, NothingStep DEF CountPages, ScanPage, ScanEnd, SkipItem, MatchItem,
                             PageDone, execLocals
  <1>3. CASE \/ HeaderRead(c) \/ HeaderWrite(c)
             \/ InsertCount(c) \/ InsertRead(c) \/ InsertWrite(c)
    BY <1>3, NothingStep DEF HeaderRead, HeaderWrite, InsertCount, InsertRead,
                             InsertWrite, execLocals
  <1>4. CASE Finish(c)
    BY <1>4, ReturnStep DEF Finish
  <1>5. CASE FailPlain(c)
    BY <1>5, ReturnStep DEF FailPlain
  <1>6. CASE FailAbort(c)
    BY <1>6, ReturnStep DEF FailAbort
  <1> QED
    BY <1>1, <1>2, <1>3, <1>4, <1>5, <1>6 DEF Execute

\* The answer of a statement; an error fails the transaction block.
LEMMA RespondStep ==
    ASSUME Inv, NEW c \in Conns, Respond(c)
    PROVE  LStep
  <1>1. pc[c] \notin Running
    BY DEF Respond, Running, Scans, Headers, Inserts
  <1>2. CASE pc[c] = "err"
    BY <1>1, <1>2, FailTxnStep DEF Respond
  <1>3. CASE pc[c] # "err"
    BY <1>3, NothingStep DEF Respond
  <1> QED
    BY <1>2, <1>3

\* Every step of the system is a step of the life cycle or a stutter.
LEMMA NextStep == Inv /\ [Next]_vars => LStep
  <1> SUFFICES ASSUME Inv, [Next]_vars PROVE LStep
    OBVIOUS
  <1>1. CASE UNCHANGED vars
    BY <1>1, NothingStep DEF vars
  <1>2. CASE Next
    BY <1>2, MessageStep, BeginStep, StatementStep, ExecuteStep, RespondStep
       DEF Next, Working
  <1> QED
    BY <1>1, <1>2

\* The preloaded rows come from committed transactions; no other exist.
LEMMA InitMaps == Init => Lifecycle!LInit
  <1> SUFFICES ASSUME Init PROVE Lifecycle!LInit
    OBVIOUS
  <1>1. nextXID \in Nat
    BY SessionAssumption, PageCapacityAssumption DEF Init
  <1>2. Active = {} /\ Doomed = {}
    BY DEF Init, Active, Doomed, NoTxn
  <1>3. Ended(Committed) = 1 .. nextXID /\ Ended(Aborted) = {}
    BY DEF Init, Ended, Committed, Aborted
  <1> QED
    BY <1>1, <1>2, <1>3 DEF Lifecycle!LInit

\* Connections, executors and the transaction manager implement the life cycle
\* of transactions: XIDs are handed out in order and once, a transaction ends
\* at most once, one that met an error never commits, and one that was
\* abandoned never gets an outcome.
THEOREM LifecycleImplemented == Spec => ImplementsLifecycle
  <1>1. Spec => Lifecycle!LInit /\ [][Lifecycle!LNext]_(Lifecycle!tvars)
    BY InitInv, NextInv, InitMaps, NextStep, PTL DEF Spec, LStep
  <1> QED
    BY <1>1 DEF ImplementsLifecycle, Lifecycle!LSpec
=============================================================================
