----------------------------- MODULE PageProofs -----------------------------
(***************************************************************************)
(* The page layout is sound for every page size below 2^16 and every set   *)
(* of tuple lengths: NoClobber and StoredInFull, by an inductive invariant *)
(* that is just the conjunction of the module's invariants.                *)
(***************************************************************************)
EXTENDS Page, TLAPS

PInv == PTypeOK /\ NoClobber /\ StoredInFull

\* uint16 arithmetic that stays in range is plain arithmetic.
LEMMA U16InRange ==
    /\ Word \in Nat
    /\ \A n \in Nat : n < Word => U16(n) = n
  <1>1. Word \in Nat /\ Word > 0
    BY DEF Word
  <1>2. ASSUME NEW n \in Nat, n < Word
        PROVE  n % Word = n
    BY <1>1, <1>2
  <1> QED
    BY <1>1, <1>2 DEF U16

\* An empty page has the right layout.
LEMMA InitPageLayout == InitPage \in Pages /\ Layout(InitPage)
  BY PageAssumption
     DEF InitPage, Pages, Offsets, Items, Layout, PageHeaderSize, ItemPointerSize

\* A length that passes InsertTuple's check does not wrap, and the check on
\* free space then means what it says.
LEMMA FitsMeansRoom ==
    ASSUME NEW page \in Pages, Layout(page), NEW len \in Lengths, SizeOK(len)
    PROVE  Fits(page, len) <=> page.lower + ItemPointerSize + len <= page.upper
  <1>1. len \in Nat /\ PageSize \in Nat /\ PageSize < Word /\ Word \in Nat
    BY PageAssumption, U16InRange
  <1>2. ItemPointerSize + len \in Nat /\ ItemPointerSize + len < Word
    BY <1>1 DEF SizeOK, ItemPointerSize, PageHeaderSize
  <1>3. /\ page.lower \in Nat /\ page.upper \in Nat
        /\ page.lower <= page.upper /\ page.upper <= PageSize
    BY <1>1 DEF Pages, Offsets, Layout
  <1>4. page.upper - page.lower \in Nat /\ page.upper - page.lower < Word
    BY <1>1, <1>3
  <1>5. FreeSpace(page) = page.upper - page.lower
    BY <1>4, U16InRange DEF FreeSpace
  <1>6. U16(ItemPointerSize + len) = ItemPointerSize + len
    BY <1>2, U16InRange
  <1> QED
    BY <1>1, <1>3, <1>5, <1>6 DEF Fits, ItemPointerSize

\* Every such length fits on an empty page.
LEMMA CheckedSizeFits ==
    ASSUME NEW len \in Lengths, SizeOK(len)
    PROVE  Fits(InitPage, len)
  <1>1. PageHeaderSize + ItemPointerSize + len <= PageSize
    BY PageAssumption DEF SizeOK, PageHeaderSize, ItemPointerSize
  <1> QED
    BY <1>1, InitPageLayout, FitsMeansRoom DEF InitPage

\* AddTuple preserves the layout, keeps the tuples already there and adds one
\* of the given length.
LEMMA AddTupleLayout ==
    ASSUME NEW page \in Pages, Layout(page), NEW len \in Lengths, SizeOK(len),
           Fits(page, len)
    PROVE  LET new == AddTuple(page, len)
           IN  /\ new \in Pages
               /\ Layout(new)
               /\ Len(new.items) = Len(page.items) + 1
               /\ new.items[Len(page.items) + 1].length = len
               /\ \A i \in 1 .. Len(page.items) : new.items[i] = page.items[i]
  <1> DEFINE new == AddTuple(page, len)
             off == page.upper - len
             n   == Len(page.items)
  <1>1. /\ len \in Nat /\ len > TupleHeaderSize
        /\ PageSize \in Nat /\ PageSize < Word /\ Word \in Nat
    BY PageAssumption, U16InRange
  <1>2. /\ page.lower \in Nat /\ page.upper \in Nat
        /\ page.lower = 8 + 4 * n
        /\ page.lower <= page.upper /\ page.upper <= PageSize
        /\ page.items \in Seq(Items) /\ n \in Nat
    BY <1>1 DEF Pages, Offsets, Layout, PageHeaderSize, ItemPointerSize
  <1>3. page.lower + 4 + len <= page.upper
    BY FitsMeansRoom DEF ItemPointerSize
  <1>4. /\ off \in 0 .. PageSize /\ U16(off) = off
        /\ U16(len) = len
        /\ U16(8 + n * 4) = 8 + n * 4
        /\ U16((8 + n * 4) + 4) = 8 + 4 * (n + 1)
    <2>1. /\ off \in 0 .. PageSize /\ off \in Nat /\ off < Word /\ len < Word
          /\ 8 + n * 4 \in Nat /\ 8 + n * 4 < Word
          /\ (8 + n * 4) + 4 \in Nat /\ (8 + n * 4) + 4 < Word
      BY <1>1, <1>2, <1>3
    <2>2. /\ U16(off) = off /\ U16(len) = len
          /\ U16(8 + n * 4) = 8 + n * 4
          /\ U16((8 + n * 4) + 4) = (8 + n * 4) + 4
      BY <2>1, <1>1, U16InRange
    <2> QED
      BY <2>1, <2>2, <1>2
  <1>5. new = [lower |-> 8 + 4 * (n + 1), upper |-> off,
               items |-> Append(page.items, [offset |-> off, length |-> len])]
    BY <1>4 DEF AddTuple, PageHeaderSize, ItemPointerSize
  <1> DEFINE item == [offset |-> off, length |-> len]
  <1>6. item \in Items
    BY <1>4 DEF Items, Offsets
  <1>7. /\ new.items \in Seq(Items)
        /\ Len(new.items) = n + 1
        /\ new.items[n + 1] = item
        /\ \A i \in 1 .. n : new.items[i] = page.items[i]
    BY <1>2, <1>5, <1>6
  <1>8. new \in Pages
    BY <1>1, <1>2, <1>3, <1>4, <1>5, <1>7 DEF Pages, Offsets
  <1>9. \A i \in 1 .. n : page.items[i] \in Items
    BY <1>2
  <1>10. Layout(new)
    <2>1. /\ new.lower = PageHeaderSize + ItemPointerSize * Len(new.items)
          /\ new.lower <= new.upper /\ new.upper <= PageSize
      BY <1>1, <1>2, <1>3, <1>5, <1>7 DEF PageHeaderSize, ItemPointerSize
    <2>2. ASSUME NEW i \in 1 .. Len(new.items)
          PROVE  /\ new.items[i].length > TupleHeaderSize
                 /\ new.upper <= new.items[i].offset
                 /\ new.items[i].offset + new.items[i].length <= PageSize
                 /\ \A j \in 1 .. (i - 1) :
                      new.items[i].offset + new.items[i].length
                          <= new.items[j].offset
      <3>1. CASE i = n + 1
        <4>1. new.items[i] = item
          BY <3>1, <1>7
        <4>2. \A j \in 1 .. n : new.items[j] = page.items[j]
                    /\ page.upper <= page.items[j].offset
          BY <1>7 DEF Layout
        <4> QED
          BY <3>1, <4>1, <4>2, <1>1, <1>2, <1>4, <1>5
      <3>2. CASE i # n + 1
        <4>1. i \in 1 .. n /\ i \in Int
          BY <3>2, <1>2, <1>7
        <4>2. /\ new.items[i] = page.items[i]
              /\ \A j \in 1 .. (i - 1) : new.items[j] = page.items[j]
          BY <4>1, <1>2, <1>7
        <4>3. page.items[i].offset \in Nat /\ page.items[i].length \in Nat
          BY <4>1, <1>9, PageAssumption DEF Items, Offsets
        <4>4. off <= page.items[i].offset
          BY <4>1, <4>3, <1>1, <1>2, <1>4 DEF Layout
        <4> QED
          BY <4>1, <4>2, <4>4, <1>5 DEF Layout
      <3> QED
        BY <3>1, <3>2
    <2> QED
      BY <2>1, <2>2 DEF Layout
  <1> QED
    BY <1>7, <1>8, <1>10

-----------------------------------------------------------------------------
\* Storing a tuple that fits, on a page of the file or on a fresh page after
\* the last one, keeps the invariants.
LEMMA StoreKeepsInv ==
    ASSUME PInv, NEW len \in Lengths, SizeOK(len),
           accepted < MaxInserts, accepted' = accepted + 1,
           NEW pageNum \in 1 .. Len(pages) + 1, NEW page \in Pages,
           Layout(page), Fits(page, len),
           pageNum <= Len(pages) => page = pages[pageNum],
           StoreAt(pageNum, page, len)
    PROVE  PInv'
  <1> DEFINE new  == AddTuple(page, len)
             size == IF pageNum > Len(pages) THEN pageNum ELSE Len(pages)
             rec  == [page |-> pageNum, item |-> Len(page.items) + 1,
                      length |-> len]
  <1>1. /\ new \in Pages
        /\ Layout(new)
        /\ Len(new.items) = Len(page.items) + 1
        /\ new.items[Len(page.items) + 1].length = len
        /\ \A i \in 1 .. Len(page.items) : new.items[i] = page.items[i]
    BY AddTupleLayout
  <1>2. /\ pages \in Seq(Pages) /\ accepted \in Nat
        /\ stored \in Seq(Places)
        /\ Len(stored) = accepted
    BY DEF PInv, PTypeOK, StoredInFull
  <1>3. Len(page.items) \in Nat
    BY DEF Pages
  <1> HIDE DEF new
  <1>4. /\ pages' = [m \in 1 .. size |-> IF m = pageNum THEN new ELSE pages[m]]
        /\ size \in Nat /\ size >= Len(pages) /\ pageNum \in 1 .. size
        /\ \A m \in 1 .. size : m # pageNum => m \in 1 .. Len(pages)
    BY <1>2 DEF StoreAt, new
  <1>5. /\ pages' \in Seq(Pages)
        /\ Len(pages') = size
        /\ pages'[pageNum] = new
        /\ \A m \in 1 .. size : m # pageNum => pages'[m] = pages[m]
    <2> HIDE DEF size
    <2>1. \A m \in 1 .. size : (IF m = pageNum THEN new ELSE pages[m]) \in Pages
      BY <1>1, <1>2, <1>4
    <2> QED
      BY <1>4, <2>1
  <1> HIDE DEF size
  <1>6. /\ rec \in Places
        /\ stored' = Append(stored, rec)
    BY <1>2, <1>3 DEF StoreAt, Places
  <1>7. /\ stored' \in Seq(Places)
        /\ Len(stored') = Len(stored) + 1
        /\ stored'[Len(stored) + 1] = rec
        /\ \A k \in 1 .. Len(stored) : stored'[k] = stored[k]
    BY <1>2, <1>6
  <1>8. PTypeOK'
    BY <1>2, <1>5, <1>7, PageAssumption DEF PTypeOK
  <1>9. NoClobber'
    BY <1>1, <1>4, <1>5 DEF NoClobber, PInv
  <1>10. StoredInFull'
    <2>1. Len(stored') = accepted'
      BY <1>2, <1>7
    <2>2. ASSUME NEW k \in 1 .. Len(stored')
          PROVE  /\ stored'[k].page \in 1 .. Len(pages')
                 /\ stored'[k].item \in 1 .. Len(pages'[stored'[k].page].items)
                 /\ pages'[stored'[k].page].items[stored'[k].item].length
                        = stored'[k].length
      <3>1. CASE k = Len(stored) + 1
        BY <3>1, <1>1, <1>3, <1>4, <1>5, <1>7
      <3>2. CASE k # Len(stored) + 1
        <4>1. /\ k \in 1 .. Len(stored) /\ stored'[k] = stored[k]
              /\ stored[k] \in Places
          <5>1. k \in 1 .. Len(stored)
            BY <3>2, <1>2, <1>7
          <5> QED
            BY <5>1, <1>2, <1>7
        <4> DEFINE p == stored[k].page
                   i == stored[k].item
        <4>2. /\ p \in 1 .. Len(pages)
              /\ i \in 1 .. Len(pages[p].items)
              /\ pages[p].items[i].length = stored[k].length
          BY <4>1 DEF PInv, StoredInFull, GetTuple
        <4>3. p \in 1 .. Len(pages')
          BY <4>2, <1>2, <1>4, <1>5
        <4>4. /\ i \in 1 .. Len(pages'[p].items)
              /\ pages'[p].items[i] = pages[p].items[i]
          <5>1. CASE p = pageNum
            <6>1. page = pages[p] /\ pages'[p] = new
              BY <5>1, <4>2, <1>2, <1>5
            <6>2. /\ i \in 1 .. Len(page.items)
                  /\ Len(new.items) = Len(page.items) + 1
                  /\ new.items[i] = page.items[i]
              BY <6>1, <4>2, <1>1
            <6> HIDE DEF i, p
            <6>3. i \in 1 .. Len(new.items)
              BY <6>2, <1>3
            <6> QED
              BY <6>1, <6>2, <6>3
          <5>2. CASE p # pageNum
            BY <5>2, <4>2, <4>3, <1>5
          <5> QED
            BY <5>1, <5>2
        <4> QED
          BY <4>1, <4>2, <4>3, <4>4
      <3> QED
        BY <3>1, <3>2
    <2> QED
      BY <2>1, <2>2 DEF StoredInFull, GetTuple
  <1> QED
    BY <1>8, <1>9, <1>10 DEF PInv

\* PInv is inductive.
LEMMA PInvInductive ==
    /\ PInit => PInv
    /\ PInv /\ [PNext]_pvars => PInv'
  <1>1. PInit => PInv
    BY PageAssumption
       DEF PInit, PInv, PTypeOK, NoClobber, StoredInFull
  <1>2. ASSUME PInv, NEW len \in Lengths, InsertTuple(len)
        PROVE  PInv'
    <2>1. /\ SizeOK(len) /\ accepted < MaxInserts /\ accepted' = accepted + 1
          /\ pages \in Seq(Pages) /\ Len(pages) \in Nat
      BY <1>2 DEF InsertTuple, PInv, PTypeOK
    <2>2. CASE /\ Len(pages) > 0
               /\ Fits(pages[Len(pages)], len)
               /\ StoreAt(Len(pages), pages[Len(pages)], len)
      <3>1. /\ Len(pages) \in 1 .. Len(pages) + 1
            /\ pages[Len(pages)] \in Pages
            /\ Layout(pages[Len(pages)])
        BY <1>2, <2>1, <2>2 DEF PInv, NoClobber
      <3> QED
        BY <1>2, <2>1, <2>2, <3>1, StoreKeepsInv
    <2>3. CASE StoreAt(Len(pages) + 1, InitPage, len)
      <3>1. /\ Len(pages) + 1 \in 1 .. Len(pages) + 1
            /\ ~(Len(pages) + 1 <= Len(pages))
        BY <2>1
      <3> QED
        BY <1>2, <2>1, <2>3, <3>1, InitPageLayout, CheckedSizeFits, StoreKeepsInv
    <2> QED
      BY <1>2, <2>1, <2>2, <2>3, CheckedSizeFits DEF InsertTuple
  <1>3. ASSUME PInv, UNCHANGED pvars
        PROVE  PInv'
    BY <1>3 DEF PInv, PTypeOK, NoClobber, StoredInFull, pvars
  <1> QED
    BY <1>1, <1>2, <1>3 DEF PNext, RefuseTuple

\* No header word or offset ever leaves the page, so none of them wraps.
THEOREM PageTypeCorrect == PSpec => []PTypeOK
  <1>1. PInv => PTypeOK
    BY DEF PInv
  <1> QED
    BY <1>1, PInvInductive, PTL DEF PSpec

\* For every page size below 2^16 and all tuple lengths, no insertion ever
\* writes over another tuple, the pointer array or the page header.
THEOREM PageNeverClobbered == PSpec => []NoClobber
  <1>1. PInv => NoClobber
    BY DEF PInv
  <1> QED
    BY <1>1, PInvInductive, PTL DEF PSpec

\* Every tuple that passes InsertTuple's size check is stored, in full and
\* where InsertTuple reports it.
THEOREM InsertStoresInFull == PSpec => []StoredInFull
  <1>1. PInv => StoredInFull
    BY DEF PInv
  <1> QED
    BY <1>1, PInvInductive, PTL DEF PSpec
=============================================================================
