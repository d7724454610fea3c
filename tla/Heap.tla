-------------------------------- MODULE Heap --------------------------------
(***************************************************************************)
(* internal/storage/heap.go: the heap file of one table, as the executors  *)
(* of all connections use it.  Every statement opens the file for itself   *)
(* and no lock protects it: PageCount, ReadPage and WritePage are one      *)
(* system call each, and everything done to a page between a read and a    *)
(* write happens in a private copy.                                        *)
(*                                                                         *)
(* A page is the sequence of its tuples.  Tuples are all taken to be of    *)
(* one size, so that a page holds PageCapacity of them; the byte layout    *)
(* behind this view is module Page.  Pages and items are numbered from 1.  *)
(***************************************************************************)
EXTENDS Integers, Sequences

CONSTANT PageCapacity   \* tuples that fit on one page

ASSUME PageCapacityAssumption == PageCapacity \in Nat \ {0}

VARIABLE heap           \* the pages of the file

PageCount == Len(heap)

ReadPage(pageNum) == heap[pageNum]

\* Overwrites a page in place, or extends the file by one page.
WritePage(pageNum, page) ==
    heap' = [n \in 1 .. (IF pageNum > Len(heap) THEN pageNum ELSE Len(heap)) |->
                IF n = pageNum THEN page ELSE heap[n]]

HasSpace(page) == Len(page) < PageCapacity

AddTuple(page, tuple) == Append(page, tuple)

\* UpdateTupleHeader's effect on its private copy of the page: both header
\* words of the slot are overwritten, whatever tuple the slot now holds.
SetHeader(page, itemIdx, header) ==
    [page EXCEPT ![itemIdx] = [@ EXCEPT !.xmin = header.xmin,
                                        !.xmax = header.xmax]]

\* Mutant: the new page takes the place of the full one.
PlaceTupleOverLast(pageCount, lastPage, tuple) ==
    [num  |-> pageCount,
     page |-> IF HasSpace(lastPage) THEN AddTuple(lastPage, tuple) ELSE <<tuple>>]

\* InsertTuple's choice once the last page has been read: append to it, or
\* start a new page after it when it is full.
PlaceTuple(pageCount, lastPage, tuple) ==
    IF HasSpace(lastPage)
    THEN [num |-> pageCount, page |-> AddTuple(lastPage, tuple)]
    ELSE [num |-> pageCount + 1, page |-> <<tuple>>]
=============================================================================
