-------------------------------- MODULE Page --------------------------------
(***************************************************************************)
(* internal/storage/page.go and HeapFile.InsertTuple of heap.go: where the *)
(* bytes of a tuple go.  Item pointers grow up from the page header, tuple *)
(* data grows down from the end of the page, and every offset is a uint16  *)
(* whose arithmetic wraps.                                                 *)
(*                                                                         *)
(* A page is its three header words and its item pointers; tuple contents  *)
(* are not represented.  That no region of the page is ever written over   *)
(* (NoClobber) is what makes this view, and the page of whole tuples in    *)
(* module Heap, the right one.                                             *)
(***************************************************************************)
EXTENDS Integers, Sequences

CONSTANTS
    PageSize,      \* 8192 in the code
    Lengths,       \* the lengths EncodeTuple may produce
    MaxInserts     \* bound: calls of InsertTuple that pass its size check

PageHeaderSize  == 8
ItemPointerSize == 4
TupleHeaderSize == 16

Word   == 65536     \* offsets are uint16
U16(n) == n % Word

\* Every encoded tuple has a header and at least one byte of null bitmap.
ASSUME PageAssumption ==
    /\ PageSize \in Nat
    /\ PageHeaderSize <= PageSize /\ PageSize < Word
    /\ Lengths \subseteq {len \in Nat : len > TupleHeaderSize}
    /\ MaxInserts \in Nat

VARIABLES
    pages,      \* the pages of a heap file, 1-based
    accepted,   \* history: insertions that have passed InsertTuple's check
    stored      \* history: what InsertTuple returned, with the tuple's length

pvars == <<pages, accepted, stored>>

-----------------------------------------------------------------------------
InitPage == [lower |-> PageHeaderSize, upper |-> PageSize, items |-> <<>>]

FreeSpace(page) == U16(page.upper - page.lower)

Fits(page, len) == FreeSpace(page) >= U16(ItemPointerSize + len)

\* Mutant: the data is put right at the old upper offset, not below it.
AddTupleAtUpper(page, len) ==
    LET tupleOffset   == page.upper
        pointerOffset == U16(PageHeaderSize + Len(page.items) * ItemPointerSize)
    IN  [lower |-> U16(pointerOffset + ItemPointerSize),
         upper |-> U16(tupleOffset - len),
         items |-> Append(page.items, [offset |-> tupleOffset, length |-> U16(len)])]

\* The page after AddTuple, when the tuple fits; the item count is the number
\* of pointers.
AddTuple(page, len) ==
    LET tupleOffset   == U16(page.upper - len)
        pointerOffset == U16(PageHeaderSize + Len(page.items) * ItemPointerSize)
    IN  [lower |-> U16(pointerOffset + ItemPointerSize),
         upper |-> tupleOffset,
         items |-> Append(page.items, [offset |-> tupleOffset, length |-> U16(len)])]

\* The byte range GetTuple copies; UpdateTupleHeader overwrites the first
\* TupleHeaderSize bytes of it.
GetTuple(page, idx) == page.items[idx]

-----------------------------------------------------------------------------
\* Mutant: the check forgets the item pointer.
SizeOKWithoutPointer(len) == len <= PageSize - PageHeaderSize

\* Mutant: no check at all.
SizeUnchecked(len) == TRUE

SizeOK(len) == len + ItemPointerSize <= PageSize - PageHeaderSize

StoreAt(pageNum, page, len) ==
    /\ pages' = [n \in 1 .. (IF pageNum > Len(pages) THEN pageNum ELSE Len(pages)) |->
                    IF n = pageNum THEN AddTuple(page, len) ELSE pages[n]]
    /\ stored' = Append(stored, [page |-> pageNum, item |-> Len(page.items) + 1,
                                 length |-> len])

\* A tuple that is too large is refused before the file is touched.
RefuseTuple(len) ==
    /\ ~SizeOK(len)
    /\ UNCHANGED pvars

\* The tuple goes to the last page, or to a new one when that has no room.
InsertTuple(len) ==
    /\ accepted < MaxInserts
    /\ SizeOK(len)
    /\ accepted' = accepted + 1
    /\ \/ /\ Len(pages) > 0
          /\ Fits(pages[Len(pages)], len)
          /\ StoreAt(Len(pages), pages[Len(pages)], len)
       \/ /\ Len(pages) > 0 => ~Fits(pages[Len(pages)], len)
          /\ IF Fits(InitPage, len)
             THEN StoreAt(Len(pages) + 1, InitPage, len)
             ELSE UNCHANGED <<pages, stored>>

PInit == pages = <<>> /\ accepted = 0 /\ stored = <<>>

PNext == \E len \in Lengths : InsertTuple(len) \/ RefuseTuple(len)

PSpec == PInit /\ [][PNext]_pvars

-----------------------------------------------------------------------------
Offsets == 0 .. PageSize
Items == [offset : Offsets, length : Lengths]
Pages == [lower : Offsets, upper : Offsets, items : Seq(Items)]
Places == [page : Nat, item : Nat, length : Lengths]

PTypeOK ==
    /\ pages \in Seq(Pages)
    /\ accepted \in 0 .. MaxInserts
    /\ stored \in Seq(Places)

\* The regions of a page never meet: the pointer array ends where lower says
\* and below upper, every tuple lies between upper and the end of the page, a
\* tuple is long enough for the header that is rewritten in place, and each
\* lies below the ones stored before it.
Layout(page) ==
    /\ page.lower = PageHeaderSize + ItemPointerSize * Len(page.items)
    /\ page.lower <= page.upper
    /\ page.upper <= PageSize
    /\ \A i \in 1 .. Len(page.items) :
        /\ page.items[i].length > TupleHeaderSize
        /\ page.upper <= page.items[i].offset
        /\ page.items[i].offset + page.items[i].length <= PageSize
        /\ \A j \in 1 .. (i - 1) :
            page.items[i].offset + page.items[i].length <= page.items[j].offset

\* However tuples of different sizes fill the pages, up to the last free byte,
\* no insertion writes over the header, a pointer or an earlier tuple.
NoClobber == \A n \in 1 .. Len(pages) : Layout(pages[n])

\* A tuple that passes InsertTuple's size check is always stored, where
\* InsertTuple says and in full, and stays there; so the error "failed to add
\* tuple to new page" cannot happen.
StoredInFull ==
    /\ Len(stored) = accepted
    /\ \A k \in 1 .. Len(stored) :
        /\ stored[k].page \in 1 .. Len(pages)
        /\ stored[k].item \in 1 .. Len(pages[stored[k].page].items)
        /\ GetTuple(pages[stored[k].page], stored[k].item).length = stored[k].length
=============================================================================
