----------------------------- MODULE QueryProofs ----------------------------
(***************************************************************************)
(* Proofs about module Query, for every set of tables and queries and      *)
(* whatever statements the parser makes of them: the state is well typed,  *)
(* what was written in table order reads back, answers are well formed,    *)
(* and nothing uncommitted is visible.  If conditions are read as they are *)
(* written, statements show and change what SQL says.                      *)
(***************************************************************************)
EXTENDS Query, EvaluatorProofs, FiniteSetTheorems

-----------------------------------------------------------------------------
(***************************************************************************)
(* Literals.                                                               *)
(***************************************************************************)

\* What a literal of each node holds.
LEMMA LiteralKinds ==
    ASSUME NEW e, LiteralOK(e)
    PROVE  /\ e.node \in LiteralNodes
           /\ e.node = "BoolLiteral" => e.Value \in BOOLEAN
           /\ e.node = "StringLiteral" =>
                e.Value \in Seq(Bytes) /\ Len(e.Value) < ValuesOf[LengthSize]
           /\ e.node \notin {"BoolLiteral", "StringLiteral"} => e.Value \in Int
  <1>1. CASE e.node = "BoolLiteral"
    BY <1>1 DEF LiteralOK, LiteralNodes
  <1>2. CASE e.node = "StringLiteral"
    <2>1. e.Value \in Seq(Bytes) /\ 2 * Len(e.Value) < ValuesOf[4]
      BY <1>2 DEF LiteralOK
    <2>2. PICK m \in Nat : m = ValuesOf[4]
      BY ValuesOfDef
    <2>3. PICK n \in Nat : n = Len(e.Value)
      BY <2>1
    <2>4. n < m
      BY <2>1, <2>2, <2>3
    <2> QED
      BY <1>2, <2>1, <2>2, <2>3, <2>4 DEF LiteralNodes, LengthSize
  <1>3. CASE e.node \notin {"BoolLiteral", "StringLiteral"}
    BY <1>3 DEF LiteralOK, LiteralNodes
  <1> QED
    BY <1>1, <1>2, <1>3

\* What a literal can be for a column, if it is not refused.
LEMMA LiteralCases ==
    ASSUME NEW e, NEW col \in Columns, ~IsErr(evalLiteral(e, col))
    PROVE  \/ e.node = "NullLiteral" /\ evalLiteral(e, col) = Nil
           \/ /\ e.node = "IntegerLiteral" /\ col.TypeOID \in IntegerTypes
              /\ evalLiteral(e, col)
                    = [kind |-> KindOf[col.TypeOID], val |-> Narrow(e.Value, col.TypeOID)]
           \/ /\ e.node = "StringLiteral" /\ SizeOf[col.TypeOID] < 0
              /\ evalLiteral(e, col) = [kind |-> KindOf[col.TypeOID], val |-> e.Value]
           \/ /\ e.node = "BoolLiteral" /\ col.TypeOID = "bool"
              /\ evalLiteral(e, col) = Bool(e.Value)
  <1>1. CASE e.node = "NullLiteral"
    BY <1>1 DEF evalLiteral
  <1>2. CASE e.node = "IntegerLiteral" /\ col.TypeOID \in IntegerTypes
    BY <1>2 DEF evalLiteral
  <1>3. CASE e.node = "StringLiteral" /\ SizeOf[col.TypeOID] < 0
    BY <1>3 DEF evalLiteral
  <1>4. CASE e.node = "BoolLiteral" /\ col.TypeOID = "bool"
    BY <1>4 DEF evalLiteral
  <1>5. CASE /\ e.node # "NullLiteral"
             /\ ~(e.node = "IntegerLiteral" /\ col.TypeOID \in IntegerTypes)
             /\ ~(e.node = "StringLiteral" /\ SizeOf[col.TypeOID] < 0)
             /\ ~(e.node = "BoolLiteral" /\ col.TypeOID = "bool")
    <2>1. evalLiteral(e, col) = Err
      BY <1>5 DEF evalLiteral
    <2> QED
      BY <2>1 DEF IsErr, Err
  <1> QED
    BY <1>1, <1>2, <1>3, <1>4, <1>5

\* A type of variable length holds strings or byte slices.
LEMMA VariableKinds ==
    ASSUME NEW oid \in TypeOIDs, SizeOf[oid] < 0
    PROVE  KindOf[oid] \in {"string", "[]byte"} /\ oid \notin IntegerTypes /\ oid # "bool"
  BY DEF TypeOIDs, SizeOf, KindOf, IntegerTypes

\* A literal that is not refused gives a column a value of its type.
LEMMA LiteralValue ==
    ASSUME NEW e, NEW col \in Columns, ExprOK(e), ~IsErr(evalLiteral(e, col))
    PROVE  LiteralOK(e) /\ ValueOK(evalLiteral(e, col), col.TypeOID)
  <1>1. PICK oid \in TypeOIDs : oid = col.TypeOID
    BY DEF Columns
  <1>2. LiteralOK(e)
    BY LiteralCases DEF ExprOK, LiteralNodes
  <1>3. CASE e.node = "NullLiteral" /\ evalLiteral(e, col) = Nil
    BY <1>2, <1>3 DEF ValueOK
  <1>4. CASE /\ e.node = "IntegerLiteral" /\ col.TypeOID \in IntegerTypes
             /\ evalLiteral(e, col)
                    = [kind |-> KindOf[col.TypeOID], val |-> Narrow(e.Value, col.TypeOID)]
    <2>1. e.Value \in Int
      BY <1>2, <1>4, LiteralKinds
    <2>2. PICK n : n = Narrow(e.Value, oid) /\ InRange(n, oid)
      BY <1>1, <1>4, <2>1, NarrowInRange
    <2> QED
      BY <1>1, <1>2, <1>4, <2>2 DEF ValueOK
  <1>5. CASE /\ e.node = "StringLiteral" /\ SizeOf[col.TypeOID] < 0
             /\ evalLiteral(e, col) = [kind |-> KindOf[col.TypeOID], val |-> e.Value]
    <2>1. e.Value \in Seq(Bytes) /\ Len(e.Value) < ValuesOf[LengthSize]
      BY <1>2, <1>5, LiteralKinds
    <2>2. KindOf[oid] \in {"string", "[]byte"} /\ oid \notin IntegerTypes /\ oid # "bool"
      BY <1>1, <1>5, VariableKinds
    <2> QED
      BY <1>1, <1>2, <1>5, <2>1, <2>2 DEF ValueOK
  <1>6. CASE /\ e.node = "BoolLiteral" /\ col.TypeOID = "bool"
             /\ evalLiteral(e, col) = Bool(e.Value)
    <2>1. e.Value \in BOOLEAN
      BY <1>2, <1>6, LiteralKinds
    <2> QED
      BY <1>2, <1>6, <2>1 DEF ValueOK, Bool
  <1> QED
    BY <1>3, <1>4, <1>5, <1>6, LiteralCases

\* Narrowing is what SQL's reference says: the congruent number of the range.
LEMMA NarrowCongruent ==
    ASSUME NEW n \in Int, NEW oid \in IntegerTypes
    PROVE  Narrow(n, oid) = Congruent(n, oid)
  <1>1. PICK size : size = SizeOf[oid] /\ size \in 0 .. 8
    BY IntegerSizes
  <1>2. PICK m : m = ValuesOf[size] /\ m \in Nat \ {0}
    BY <1>1, ValuesOfDef
  <1>3. PICK low : low = IF oid = "oid" THEN 0 ELSE -(m \div 2)
    OBVIOUS
  <1>4. PICK h \in Nat : h = m \div 2 /\ (m = 2 * h \/ m = 2 * h + 1)
    BY <1>2
  <1>5. low \in Int
    BY <1>3, <1>4
  <1>6. PICK k : k = Narrow(n, oid) /\ InRange(k, oid)
    BY NarrowInRange
  <1>7. k \in Int /\ low <= k /\ k < low + m
    <2>1. CASE oid = "oid"
      BY <1>1, <1>2, <1>3, <1>6, <2>1 DEF InRange
    <2>2. CASE oid # "oid"
      <3>1. k \in Int /\ -m <= 2 * k /\ 2 * k < m
        BY <1>1, <1>2, <1>6, <2>2 DEF InRange
      <3> QED
        BY <1>2, <1>3, <1>4, <2>2, <3>1
    <2> QED
      BY <2>1, <2>2
  <1>8. PICK q \in Int : n = k + m * q
    <2>1. PICK p, u : p = n \div m /\ u = n % m
      OBVIOUS
    <2>2. p \in Int /\ u \in 0 .. m - 1 /\ n = m * p + u
      <3>1. n = m * (n \div m) + (n % m) /\ (n % m) \in 0 .. m - 1 /\ (n \div m) \in Int
        BY <1>2
      <3> QED
        BY <2>1, <3>1
    <2>3. u = Unsigned(n, size)
      BY <1>2, <2>1 DEF Unsigned
    <2>4. k = u \/ k = u - m
      BY <1>1, <1>2, <1>6, <2>3 DEF Narrow, Signed
    <2>5. CASE k = u
      <3>1. n = k + m * p
        BY <1>2, <2>2, <2>5
      <3> QED
        BY <2>2, <3>1
    <2>6. CASE k = u - m
      <3>1. n = k + m * (p + 1) /\ p + 1 \in Int
        BY <1>2, <2>2, <2>6
      <3> QED
        BY <3>1
    <2> QED
      BY <2>4, <2>5, <2>6
  <1>9. (n - low) \div m = q
    <2>1. PICK r, u : r = k - low /\ u = n - low
      OBVIOUS
    <2>2. r \in 0 .. m - 1
      BY <1>2, <1>5, <1>7, <2>1
    <2>3. u = q * m + r
      BY <1>2, <1>5, <1>7, <1>8, <2>1
    <2>4. u \div m = q
      BY <1>2, <2>2, <2>3, Quotient
    <2> QED
      BY <2>1, <2>4
  <1>10. Congruent(n, oid) = n - m * ((n - low) \div m)
    BY <1>1, <1>2, <1>3 DEF Congruent
  <1>11. n - m * q = k
    BY <1>2, <1>7, <1>8
  <1> QED
    BY <1>6, <1>9, <1>10, <1>11

\* What is read where a literal was written is what SQL says it left there.
LEMMA LiteralFaithful ==
    ASSUME NEW e, NEW col \in Columns, ExprOK(e), ~IsErr(evalLiteral(e, col))
    PROVE  Faithful(AsRead(evalLiteral(e, col), col.TypeOID), StoredValue(e, col.TypeOID))
  <1>1. PICK oid \in TypeOIDs : oid = col.TypeOID
    BY DEF Columns
  <1>2. LiteralOK(e)
    BY LiteralValue
  <1>3. CASE e.node = "NullLiteral" /\ evalLiteral(e, col) = Nil
    BY <1>3 DEF AsRead, StoredValue, SQLNull, SQLValue, Faithful, IsNil, Nil
  <1>4. CASE /\ e.node = "IntegerLiteral" /\ col.TypeOID \in IntegerTypes
             /\ evalLiteral(e, col)
                    = [kind |-> KindOf[col.TypeOID], val |-> Narrow(e.Value, col.TypeOID)]
    <2>1. e.Value \in Int
      BY <1>2, <1>4, LiteralKinds
    <2>2. PICK n : n = Narrow(e.Value, oid) /\ n = Congruent(e.Value, oid)
      BY <1>1, <1>4, <2>1, NarrowCongruent
    <2>3. PICK kind : kind = KindOf[oid] /\ kind \in {"int16", "int32", "int64", "uint32"}
      BY <1>1, <1>4 DEF KindOf, IntegerTypes
    <2>4. ~(SizeOf[oid] < 0)
      BY <1>1, <1>4, IntegerSizes
    <2>5. AsRead(evalLiteral(e, col), oid) = [kind |-> kind, val |-> n]
      BY <1>1, <1>4, <2>2, <2>3, <2>4 DEF AsRead
    <2>6. PICK sort : sort = (IF oid = "oid" THEN "oid" ELSE "number")
      OBVIOUS
    <2>7. StoredValue(e, oid) = [sort |-> sort, v |-> 2 * n]
      BY <1>4, <2>2, <2>6 DEF StoredValue, SQLValue
    <2>8. sort \notin {"null", "bool", "string"}
      BY <2>6
    <2> QED
      BY <1>1, <2>3, <2>5, <2>7, <2>8 DEF Faithful
  <1>5. CASE /\ e.node = "StringLiteral" /\ SizeOf[col.TypeOID] < 0
             /\ evalLiteral(e, col) = [kind |-> KindOf[col.TypeOID], val |-> e.Value]
    <2>1. PICK kind : kind = KindOf[oid] /\ kind \in {"string", "[]byte"}
      BY <1>1, <1>5, VariableKinds
    <2>2. AsRead(evalLiteral(e, col), oid) = [kind |-> "string", val |-> e.Value]
      BY <1>1, <1>5, <2>1 DEF AsRead, GoString, Nil
    <2>3. StoredValue(e, oid) = [sort |-> "string", v |-> e.Value]
      BY <1>5 DEF StoredValue, SQLValue
    <2> QED
      BY <1>1, <2>2, <2>3 DEF Faithful
  <1>6. CASE /\ e.node = "BoolLiteral" /\ col.TypeOID = "bool"
             /\ evalLiteral(e, col) = Bool(e.Value)
    <2>1. SizeOf[oid] = 1
      BY <1>1, <1>6 DEF SizeOf
    <2>2. AsRead(evalLiteral(e, col), oid) = [kind |-> "bool", val |-> e.Value]
      BY <1>1, <1>6, <2>1 DEF AsRead, Bool
    <2>3. StoredValue(e, oid) = [sort |-> "bool", v |-> e.Value]
      BY <1>6 DEF StoredValue, SQLValue
    <2> QED
      BY <1>1, <2>2, <2>3 DEF Faithful
  <1> QED
    BY <1>3, <1>4, <1>5, <1>6, LiteralCases

\* Reading twice is reading once.
LEMMA ReadTwice ==
    ASSUME NEW v, NEW oid, ValueOK(v, oid)
    PROVE  AsRead(AsRead(v, oid), oid) = AsRead(v, oid) /\ ValueOK(AsRead(v, oid), oid)
  <1>1. CASE v = Nil \/ ~(SizeOf[oid] < 0)
    BY <1>1 DEF AsRead
  <1>2. CASE v # Nil /\ SizeOf[oid] < 0
    <2>1. AsRead(v, oid) = GoString(v.val) /\ GoString(v.val).val = v.val /\ GoString(v.val) # Nil
      BY <1>2 DEF AsRead, GoString, Nil
    <2>2. AsRead(GoString(v.val), oid) = GoString(v.val)
      BY <1>2, <2>1 DEF AsRead
    <2>3. oid \notin IntegerTypes /\ oid # "bool"
      <3>1. oid \in IntegerTypes => ~(SizeOf[oid] < 0)
        BY IntegerSizes
      <3>2. oid = "bool" => ~(SizeOf[oid] < 0)
        BY DEF SizeOf
      <3> QED
        BY <1>2, <3>1, <3>2
    <2>4. oid \in TypeOIDs /\ v.val \in Seq(Bytes) /\ Len(v.val) < ValuesOf[LengthSize]
      BY <1>2, <2>3 DEF ValueOK
    <2>5. ValueOK(GoString(v.val), oid)
      BY <2>3, <2>4 DEF ValueOK, GoString
    <2> QED
      BY <2>1, <2>2, <2>5
  <1> QED
    BY <1>1, <1>2

-----------------------------------------------------------------------------
(***************************************************************************)
(* The places a scan has found, in order.                                  *)
(***************************************************************************)

\* Places below a bound, counted.
CountTo(P, m) == Cardinality({j \in P : j <= m})

\* Counting places one after the other.
LEMMA Counting ==
    ASSUME NEW N \in Nat, NEW P, P \subseteq 1 .. N, NEW m \in 0 .. N
    PROVE  /\ CountTo(P, m) \in Nat
           /\ m = 0 => CountTo(P, m) = 0
           /\ m > 0 /\ m \notin P => CountTo(P, m) = CountTo(P, m - 1)
           /\ m > 0 /\ m \in P => CountTo(P, m) = CountTo(P, m - 1) + 1
  <1>0. \A j \in P : j \in Nat /\ 1 <= j /\ j <= N
    OBVIOUS
  <1>1. IsFiniteSet(P)
    <2>1. IsFiniteSet(1 .. N)
      BY FS_Interval
    <2> QED
      BY <2>1, FS_Subset
  <1>2. \A n : IsFiniteSet({j \in P : j <= n})
    BY <1>1, FS_Subset
  <1>3. ASSUME m = 0 PROVE {j \in P : j <= m} = {}
    <2>1. \A j \in P : ~(j <= m)
      BY <1>0, <1>3
    <2> QED
      BY <2>1, Zenon
  <1>4. ASSUME m > 0, m \notin P PROVE {j \in P : j <= m} = {j \in P : j <= m - 1}
    <2>1. ASSUME NEW j \in P PROVE j <= m <=> j <= m - 1
      <3>1. j # m /\ j \in Nat
        BY <1>0, <1>4
      <3> QED
        BY <3>1
    <2> QED
      BY <2>1, Zenon
  <1>5. ASSUME m > 0, m \in P
        PROVE  Cardinality({j \in P : j <= m}) = Cardinality({j \in P : j <= m - 1}) + 1
    <2>1. PICK T : T = {j \in P : j <= m - 1}
      OBVIOUS
    <2>2. {j \in P : j <= m} = T \cup {m} /\ m \notin T
      <3>1. ASSUME NEW j \in P PROVE j <= m <=> (j <= m - 1 \/ j = m)
        BY <1>0
      <3>2. ~(m <= m - 1) /\ m <= m
        OBVIOUS
      <3> QED
        BY <1>5, <2>1, <3>1, <3>2, Zenon
    <2>3. IsFiniteSet(T)
      BY <1>2, <2>1
    <2>4. Cardinality(T \cup {m}) = Cardinality(T) + 1
      BY <2>2, <2>3, FS_AddElement
    <2> QED
      BY <2>1, <2>2, <2>4
  <1>6. Cardinality({j \in P : j <= m}) \in Nat
    BY <1>2, FS_CardinalityType
  <1>7. Cardinality({}) = 0
    BY FS_EmptySet
  <1> QED
    BY <1>3, <1>4, <1>5, <1>6, <1>7, Zenon DEF CountTo

\* There is a kth place for every number up to the number of places.
LEMMA NthPlace ==
    ASSUME NEW N \in Nat, NEW P, P \subseteq 1 .. N, NEW k \in 1 .. Cardinality(P)
    PROVE  Nth(P, k) \in P
  <1> DEFINE c(m) == CountTo(P, m)
  <1>1. {j \in P : j <= N} = P
    <2>1. \A j \in P : j <= N
      OBVIOUS
    <2> QED
      BY <2>1, Zenon
  <1>2. c(N) = Cardinality(P) /\ \A m \in 0 .. N : c(m) \in Nat
    BY <1>1, Counting DEF CountTo
  <1> DEFINE T == {m \in 0 .. N : k <= c(m)}
  <1>3. N \in T
    BY <1>2
  <1>4. T \subseteq Nat /\ T # {}
    BY <1>3
  <1> HIDE DEF c
  <1>5. PICK m \in T : \A n \in T : m <= n
    <2> HIDE DEF T
    <2> QED
      BY <1>4, NatMin
  <1>6. m \in 0 .. N /\ k <= c(m)
    OBVIOUS
  <1>7. m # 0
    <2>0. 0 \in 0 .. N
      OBVIOUS
    <2>1. c(0) = 0
      BY <2>0, Counting DEF c
    <2> QED
      BY <1>6, <2>1
  <1>8. m - 1 \in 0 .. N /\ c(m - 1) < k
    <2>1. m - 1 \in 0 .. N
      BY <1>6, <1>7
    <2>2. m - 1 \notin T
      BY <1>5, <1>6
    <2>3. c(m - 1) \in Nat
      BY <1>2, <2>1
    <2> QED
      BY <2>1, <2>2, <2>3
  <1>9. m \in P /\ c(m) = c(m - 1) + 1
    <2>1. m \in 0 .. N /\ m > 0
      BY <1>6, <1>7
    <2>2. m \notin P => c(m) = c(m - 1)
      BY <2>1, Counting DEF c
    <2>3. m \in P => c(m) = c(m - 1) + 1
      BY <2>1, Counting DEF c
    <2>4. c(m) \in Nat /\ c(m - 1) \in Nat
      BY <1>2, <1>6, <1>8
    <2> QED
      BY <1>6, <1>8, <2>2, <2>3, <2>4
  <1>10. c(m) = k
    <2>1. c(m - 1) \in Nat
      BY <1>2, <1>8
    <2> QED
      BY <1>6, <1>8, <1>9, <2>1
  <1> QED
    BY <1>9, <1>10 DEF c, CountTo, Nth

-----------------------------------------------------------------------------
(***************************************************************************)
(* The invariant.  Its parts take the table, the file and the last XID as  *)
(* parameters, so that they can be said of what a statement leaves too.    *)
(***************************************************************************)
Literals == [node : LiteralNodes, Value : Held]

Tuples == [xmin : Nat, xmax : Nat, data : Seq(Bytes), inOrder : BOOLEAN, want : Seq(Literals)]

\* The values the columns were given.
Given(want, columns) == [k \in 1 .. Len(columns) |-> evalLiteral(want[k], columns[k])]

\* A tuple decodes to the literals it was written from.
ReadsLiterals(t, columns) ==
    /\ \A k \in 1 .. Len(columns) : ~IsErr(evalLiteral(t.want[k], columns[k]))
    /\ DecodeTuple(t.data, columns)
         = [ok |-> TRUE, values |-> RowRead(Given(t.want, columns), columns)]

WantOK(want, columns) ==
    /\ Len(want) = Len(columns)
    /\ \A k \in 1 .. Len(columns) : LiteralOK(want[k])

TupleOK(t, columns, last) ==
    /\ t \in Tuples
    /\ t.xmin \in 1 .. last /\ t.xmax \in 0 .. last
    /\ WantOK(t.want, columns)
    /\ t.inOrder => ReadsLiterals(t, columns)

HeapOK(h, columns, last) ==
    /\ h \in Seq(Tuples)
    /\ \A i \in 1 .. Len(h) : TupleOK(h[i], columns, last)

StatusesOK ==
    /\ nextXID \in Nat
    /\ DOMAIN statuses \subseteq 1 .. nextXID
    /\ \A x \in DOMAIN statuses : statuses[x] \in {Committed, Aborted}

\* An open transaction, and only that, has an XID, which has no outcome yet.
ConnOK ==
    /\ connTxn \in [State : {"Idle", "InTransaction", "Failed"}, XID : 0 .. nextXID]
    /\ connTxn.State = "Idle" <=> connTxn.XID = 0
    /\ connTxn.XID \notin DOMAIN statuses

QInv ==
    /\ StatusesOK
    /\ ConnOK
    /\ table \in Seq(Columns)
    /\ HeapOK(heap, table, nextXID)
    /\ parsed.ok => StatementOK(parsed.out)

\* Type correctness is part of the invariant.
LEMMA QInvTypes == QInv => QTypeOK
  <1> SUFFICES ASSUME QInv PROVE QTypeOK
    OBVIOUS
  <1>1. ASSUME NEW i \in 1 .. Len(heap)
        PROVE  /\ heap[i].xmin \in 1 .. nextXID /\ heap[i].xmax \in 0 .. nextXID
               /\ heap[i].data \in Seq(Bytes)
               /\ Len(heap[i].want) = Len(table)
               /\ \A k \in 1 .. Len(table) : LiteralOK(heap[i].want[k])
    <2>1. TupleOK(heap[i], table, nextXID)
      BY DEF QInv, HeapOK
    <2>2. heap[i].data \in Seq(Bytes)
      BY <2>1 DEF TupleOK, Tuples
    <2> QED
      BY <2>1, <2>2 DEF TupleOK, WantOK
  <1> QED
    BY <1>1 DEF QInv, QTypeOK, StatusesOK, ConnOK

\* What was written in table order reads back: part of the invariant too.
LEMMA QInvReads == QInv => InOrderReadsBack
  <1> SUFFICES ASSUME QInv, NEW i \in 1 .. Len(heap), heap[i].inOrder PROVE ReadsBack(heap[i])
    BY DEF InOrderReadsBack
  <1>1. PICK t : t = heap[i]
    OBVIOUS
  <1>2. TupleOK(t, table, nextXID) /\ t.inOrder
    BY <1>1 DEF QInv, HeapOK
  <1>3. PICK d : d = DecodeTuple(t.data, table)
    OBVIOUS
  <1>4. d.ok /\ d.values = RowRead(Given(t.want, table), table)
    BY <1>2, <1>3 DEF TupleOK, ReadsLiterals
  <1>5. ASSUME NEW k \in 1 .. Len(table) PROVE Faithful(d.values[k], SQLRow(t)[k])
    <2>1. PICK e : e = t.want[k]
      OBVIOUS
    <2>2. PICK col \in Columns : col = table[k]
      BY DEF QInv
    <2>3. LiteralOK(e) /\ ~IsErr(evalLiteral(e, col))
      BY <1>2, <2>1, <2>2 DEF TupleOK, WantOK, ReadsLiterals
    <2>4. d.values[k] = AsRead(evalLiteral(e, col), col.TypeOID)
      BY <1>4, <2>1, <2>2 DEF RowRead, Given
    <2>5. SQLRow(t)[k] = StoredValue(e, col.TypeOID)
      BY <2>1, <2>2 DEF SQLRow
    <2>6. ExprOK(e)
      BY <2>3 DEF ExprOK
    <2> QED
      BY <2>3, <2>4, <2>5, <2>6, LiteralFaithful
  <1> QED
    BY <1>1, <1>3, <1>4, <1>5 DEF ReadsBack

\* A file stays well formed when XIDs are drawn.
LEMMA HeapLater ==
    ASSUME NEW h, NEW columns, NEW last \in Nat, NEW later \in Nat, last <= later,
           HeapOK(h, columns, last)
    PROVE  HeapOK(h, columns, later)
  BY DEF HeapOK, TupleOK

-----------------------------------------------------------------------------
(***************************************************************************)
(* What statements write.                                                  *)
(***************************************************************************)
LEMMA LiteralIsTyped ==
    ASSUME NEW e, LiteralOK(e)
    PROVE  e \in Literals
  <1>1. e.node \in LiteralNodes /\ e.Value \in Held
    <2>1. CASE e.node = "BoolLiteral"
      BY <2>1, LiteralKinds DEF Held
    <2>2. CASE e.node = "StringLiteral"
      BY <2>2, LiteralKinds DEF Held
    <2>3. CASE e.node \notin {"BoolLiteral", "StringLiteral"}
      BY <2>3, LiteralKinds DEF Held
    <2> QED
      BY <2>1, <2>2, <2>3, LiteralKinds
  <1>2. e = [node |-> e.node, Value |-> e.Value]
    BY Zenon DEF LiteralOK, Literal
  <1> QED
    BY <1>1, <1>2 DEF Literals

NewTuple(x, values, columns, inOrder, want) ==
    [xmin |-> x, xmax |-> 0, data |-> EncodeTuple(values, columns), inOrder |-> inOrder,
     want |-> want]

\* A literal for each column.
LiteralFor(want, cols) ==
    /\ want = [k \in 1 .. Len(cols) |-> want[k]]
    /\ \A k \in 1 .. Len(cols) : LiteralOK(want[k])

\* The row has in each column, once it is read, what the column was given.
RowGiven(values, columns, want, cols) ==
    /\ columns = cols
    /\ \A k \in 1 .. Len(cols) :
        /\ ~IsErr(evalLiteral(want[k], cols[k]))
        /\ AsRead(values[k], cols[k].TypeOID)
             = AsRead(evalLiteral(want[k], cols[k]), cols[k].TypeOID)

\* A tuple made from a row is well formed, if the row is what it was given.
LEMMA TupleWritten ==
    ASSUME NEW cols \in Seq(Columns), NEW columns, NEW values, RowOK(values, columns),
           NEW want, LiteralFor(want, cols),
           NEW last \in Nat, NEW x \in 1 .. last, NEW inOrder \in BOOLEAN,
           inOrder => RowGiven(values, columns, want, cols)
    PROVE  TupleOK(NewTuple(x, values, columns, inOrder, want), cols, last)
  <1>1. PICK data \in Seq(Bytes) : data = EncodeTuple(values, columns)
    BY CodecRoundTrip
  <1>2. PICK t : t = [xmin |-> x, xmax |-> 0, data |-> data, inOrder |-> inOrder, want |-> want]
    OBVIOUS
  <1>3. want \in Seq(Literals) /\ Len(want) = Len(cols)
    <2>1. \A k \in 1 .. Len(cols) : want[k] \in Literals
      BY LiteralIsTyped DEF LiteralFor
    <2>2. PICK N \in Nat : N = Len(cols)
      OBVIOUS
    <2>3. want \in [1 .. N -> Literals]
      BY <2>1, <2>2 DEF LiteralFor
    <2> QED
      BY <2>2, <2>3
  <1>4. t \in Tuples
    BY <1>2, <1>3 DEF Tuples
  <1>5. ASSUME inOrder PROVE ReadsLiterals(t, cols)
    <2>1. DecodeTuple(data, cols) = [ok |-> TRUE, values |-> RowRead(values, cols)]
      BY <1>1, <1>5, CodecRoundTrip DEF RowGiven
    <2>2. RowRead(values, cols) = RowRead(Given(want, cols), cols)
      BY <1>5 DEF RowRead, Given, RowGiven
    <2>3. t.data = data /\ t.want = want
      BY <1>2
    <2> QED
      BY <1>5, <2>1, <2>2, <2>3 DEF ReadsLiterals, RowGiven
  <1>6. TupleOK(t, cols, last)
    BY <1>2, <1>3, <1>4, <1>5 DEF TupleOK, WantOK, LiteralFor
  <1> QED
    BY <1>1, <1>2, <1>6, Zenon DEF NewTuple

\* The literal a column omitted by INSERT is taken to be given.
LEMMA NullIsLiteral == LiteralOK(Literal("NullLiteral", 0))
  <1>0. Literal("NullLiteral", 0).node = "NullLiteral" /\ Literal("NullLiteral", 0).Value = 0
    BY DEF Literal
  <1>1. PICK e : e = Literal("NullLiteral", 0) /\ e.node = "NullLiteral" /\ e.Value = 0
    BY <1>0, Zenon
  <1>2. e = Literal(e.node, e.Value) /\ e.node \in LiteralNodes /\ e.Value \in Int
    BY <1>1 DEF LiteralNodes
  <1>3. e.node # "BoolLiteral" /\ e.node # "StringLiteral"
    BY <1>1
  <1>4. LiteralOK(e)
    BY <1>2, <1>3 DEF LiteralOK
  <1> QED
    BY <1>1, <1>4

\* The first of some places is one of them.
LEMMA FirstOf ==
    ASSUME NEW S, S \subseteq Nat, S # {}
    PROVE  First(S) \in S
  <1>1. \E i \in S : \A j \in S : i <= j
    BY NatMin
  <1> QED
    BY <1>1 DEF First

\* A column found by its name is one of the table's.
LEMMA PositionFound ==
    ASSUME NEW columns \in Seq(Columns), NEW name, Positions(name, columns) # {}
    PROVE  First(Positions(name, columns)) \in 1 .. Len(columns)
  <1>1. Positions(name, columns) \subseteq 1 .. Len(columns)
    BY DEF Positions
  <1>2. First(Positions(name, columns)) \in Positions(name, columns)
    BY <1>1, FirstOf
  <1> QED
    BY <1>1, <1>2

\* The last of the clauses that set a column.
LEMMA LastOf ==
    ASSUME NEW N \in Nat, NEW S, S \subseteq 1 .. N, S # {}
    PROVE  Max(S) \in S
  <1> DEFINE T == {N - n : n \in S}
  <1>2. T \subseteq Nat /\ T # {}
    OBVIOUS
  <1>3. PICK m \in T : \A n \in T : m <= n
    <2> HIDE DEF T
    <2> QED
      BY <1>2, NatMin
  <1>4. PICK i \in S : m = N - i
    OBVIOUS
  <1>5. ASSUME NEW j \in S PROVE i >= j
    <2>1. N - j \in T
      OBVIOUS
    <2>2. m <= N - j
      BY <1>3, <2>1
    <2> QED
      BY <1>4, <2>2
  <1> QED
    BY <1>5 DEF Max

\* The last XID after a statement that writes.
Last == IF connTxn.XID # 0 THEN nextXID ELSE nextXID + 1

\* The XID of a statement that writes has no outcome yet.
LEMMA WritersXID ==
    ASSUME QInv
    PROVE  /\ nextXID \in Nat /\ Last \in Nat /\ nextXID <= Last
           /\ XID \in 1 .. Last /\ XID \in Nat
           /\ XID \notin DOMAIN statuses
  <1>1. nextXID \in Nat /\ connTxn.XID \in 0 .. nextXID /\ connTxn.XID \notin DOMAIN statuses
    BY DEF QInv, StatusesOK, ConnOK
  <1>2. nextXID + 1 \notin DOMAIN statuses
    BY <1>1 DEF QInv, StatusesOK
  <1> QED
    BY <1>1, <1>2 DEF Last, XID, NextXID

\* The parts of an INSERT that is not refused.
Inserting(s, places, columns, values, want) ==
    /\ places = IF s.Columns = <<>> THEN Everywhere ELSE Indexes(s.Columns)
    /\ columns = [k \in 1 .. Len(places) |-> table[places[k]]]
    /\ values = [k \in 1 .. Len(places) |-> evalLiteral(s.Values[k], columns[k])]
    /\ want = [i \in 1 .. Len(table) |->
                    LET at == {k \in 1 .. Len(places) : places[k] = i}
                    IN  IF at = {} THEN Literal("NullLiteral", 0) ELSE s.Values[First(at)]]
    /\ AllFound(s.Columns) /\ Len(s.Values) = Len(places)
    /\ \A k \in 1 .. Len(places) : ~IsErr(values[k])
    /\ \A k \in 1 .. Len(s.Values) : ExprOK(s.Values[k])

\* If it names all columns in the table's order, each is given its own literal.
LEMMA InsertsInOrder ==
    ASSUME QInv, NEW s, NEW places, NEW columns, NEW values, NEW want,
           Inserting(s, places, columns, values, want), places = Everywhere
    PROVE  /\ Len(places) = Len(table) /\ columns = table
           /\ \A k \in 1 .. Len(table) : want[k] = s.Values[k]
  <1>0. PICK N \in Nat : table \in Seq(Columns) /\ N = Len(table)
    BY DEF QInv
  <1>1. Len(places) = N /\ \A k \in 1 .. N : places[k] = k
    BY <1>0 DEF Everywhere
  <1>2. columns = table
    <2>1. columns = [k \in 1 .. N |-> table[k]]
      BY <1>1 DEF Inserting
    <2> QED
      BY <1>0, <2>1
  <1>3. ASSUME NEW k \in 1 .. N PROVE want[k] = s.Values[k]
    <2>1. PICK at : at = {j \in 1 .. N : places[j] = k}
      OBVIOUS
    <2>2. at = {k}
      BY <1>1, <2>1
    <2>3. First(at) = k
      <3>1. at \subseteq Nat /\ at # {}
        BY <2>2
      <3>2. First(at) \in at
        BY <3>1, FirstOf
      <3> QED
        BY <2>2, <3>2
    <2>4. want[k] = IF at = {} THEN Literal("NullLiteral", 0) ELSE s.Values[First(at)]
      BY <1>0, <1>1, <2>1 DEF Inserting
    <2> QED
      BY <2>2, <2>3, <2>4
  <1> QED
    BY <1>0, <1>1, <1>2, <1>3

\* Such an INSERT writes a well-formed tuple.
LEMMA TupleInserted ==
    ASSUME QInv, NEW s, s.Columns \in Seq(STRING),
           NEW places, NEW columns, NEW values, NEW want,
           Inserting(s, places, columns, values, want)
    PROVE  TupleOK(NewTuple(XID, values, columns, places = Everywhere, want), table, Last)
  <1> USE DEF Inserting
  <1>0. table \in Seq(Columns)
    BY DEF QInv
  <1>1. PICK N \in Nat : N = Len(places) /\ \A k \in 1 .. N : places[k] \in 1 .. Len(table)
    <2>1. CASE s.Columns = <<>>
      <3>1. places = [i \in 1 .. Len(table) |-> i]
        BY <2>1 DEF Everywhere
      <3>2. Len(places) = Len(table) /\ \A k \in 1 .. Len(table) : places[k] = k
        BY <1>0, <3>1
      <3> QED
        BY <1>0, <3>2
    <2>2. CASE s.Columns # <<>>
      <3>1. PICK M \in Nat : M = Len(s.Columns)
        OBVIOUS
      <3>2. places = [k \in 1 .. M |-> First(Positions(s.Columns[k], table))]
        BY <2>2, <3>1 DEF Indexes
      <3>3. ASSUME NEW k \in 1 .. M PROVE First(Positions(s.Columns[k], table)) \in 1 .. Len(table)
        BY <1>0, <3>1, PositionFound DEF AllFound
      <3> QED
        BY <3>2, <3>3
    <2> QED
      BY <2>1, <2>2
  <1>2. ASSUME NEW k \in 1 .. N
        PROVE  /\ columns[k] \in Columns /\ columns[k] = table[places[k]]
               /\ values[k] = evalLiteral(s.Values[k], columns[k])
               /\ LiteralOK(s.Values[k]) /\ ValueOK(values[k], columns[k].TypeOID)
    <2>1. columns[k] = table[places[k]] /\ values[k] = evalLiteral(s.Values[k], columns[k])
      BY <1>1
    <2>2. columns[k] \in Columns
      BY <1>0, <1>1, <2>1
    <2>3. ExprOK(s.Values[k]) /\ ~IsErr(evalLiteral(s.Values[k], columns[k]))
      BY <1>1, <2>1
    <2> QED
      BY <2>1, <2>2, <2>3, LiteralValue
  <1>3. RowOK(values, columns)
    <2>1. columns \in Seq(Columns) /\ Len(columns) = N
      <3>1. columns = [k \in 1 .. N |-> table[places[k]]] /\ \A k \in 1 .. N : table[places[k]] \in Columns
        BY <1>1, <1>2
      <3> HIDE DEF Inserting
      <3> QED
        BY <3>1
    <2>2. Len(values) = N
      BY <1>1
    <2> QED
      BY <1>2, <2>1, <2>2 DEF RowOK
  <1>4. ASSUME NEW i \in 1 .. Len(table) PROVE LiteralOK(want[i])
    <2>1. PICK at : at = {k \in 1 .. N : places[k] = i}
      OBVIOUS
    <2>2. want[i] = IF at = {} THEN Literal("NullLiteral", 0) ELSE s.Values[First(at)]
      BY <1>1, <2>1
    <2>3. CASE at = {}
      BY <2>2, <2>3, NullIsLiteral
    <2>4. CASE at # {}
      <3>1. at \subseteq Nat /\ at \subseteq 1 .. N
        BY <2>1
      <3>2. First(at) \in at
        BY <2>4, <3>1, FirstOf
      <3> QED
        BY <1>2, <2>2, <2>4, <3>1, <3>2
    <2> QED
      BY <2>3, <2>4
  <1>5. LiteralFor(want, table)
    <2>1. want = [k \in 1 .. Len(table) |-> want[k]]
      OBVIOUS
    <2> QED
      BY <1>4, <2>1, Zenon DEF LiteralFor
  <1>6. ASSUME places = Everywhere
        PROVE  RowGiven(values, columns, want, table)
    <2>1. /\ Len(places) = Len(table) /\ columns = table
          /\ \A k \in 1 .. Len(table) : want[k] = s.Values[k]
      <3> HIDE DEF Inserting
      <3> QED
        BY <1>6, InsertsInOrder
    <2> QED
      BY <1>1, <1>2, <2>1 DEF RowGiven
  <1>7. Last \in Nat /\ XID \in 1 .. Last
    BY WritersXID
  <1>8. PICK inOrder \in BOOLEAN : inOrder = (places = Everywhere)
    OBVIOUS
  <1>9. TupleOK(NewTuple(XID, values, columns, inOrder, want), table, Last)
    BY <1>0, <1>3, <1>5, <1>6, <1>7, <1>8, TupleWritten
  <1> QED
    BY <1>8, <1>9

\* The clauses of an UPDATE that is not refused.
ClausesOK(clauses) ==
    \A k \in 1 .. Len(clauses) :
        /\ ExprOK(clauses[k].Value)
        /\ Positions(clauses[k].Column, table) # {}
        /\ ~IsErr(evalLiteral(clauses[k].Value, table[First(Positions(clauses[k].Column, table))]))

\* The new version of a tuple that decodes is well formed.
LEMMA VersionWritten ==
    ASSUME QInv, NEW clauses, Len(clauses) \in Nat, ClausesOK(clauses),
           NEW i \in 1 .. Len(heap), DecodeTuple(heap[i].data, table).ok
    PROVE  TupleOK(NewTuple(XID, SetValues(Decoded(i), clauses), table, heap[i].inOrder,
                            SetWanted(heap[i].want, clauses)), table, Last)
  <1>0. table \in Seq(Columns)
    BY DEF QInv
  <1>1. PICK t : t = heap[i]
    OBVIOUS
  <1>2. TupleOK(t, table, nextXID) /\ t.data \in Seq(Bytes) /\ t.inOrder \in BOOLEAN
    BY <1>1 DEF QInv, HeapOK, TupleOK, Tuples
  <1>3. PICK row : row = Decoded(i) /\ RowOK(row, table)
    BY <1>0, <1>1, <1>2, DecodedRowIsTyped DEF Decoded
  <1>4. PICK values, want : values = SetValues(row, clauses) /\ want = SetWanted(t.want, clauses)
    OBVIOUS
  <1>5. ASSUME NEW k \in 1 .. Len(table), SetBy(clauses, k) # {}
        PROVE  \E e : /\ values[k] = evalLiteral(e, table[k]) /\ want[k] = e
                      /\ LiteralOK(e) /\ ~IsErr(evalLiteral(e, table[k]))
                      /\ ValueOK(values[k], table[k].TypeOID)
    <2>1. SetBy(clauses, k) \subseteq 1 .. Len(clauses)
      BY DEF SetBy
    <2>2. PICK j \in SetBy(clauses, k) : j = Max(SetBy(clauses, k))
      BY <1>5, <2>1, LastOf
    <2>3. j \in 1 .. Len(clauses) /\ k = First(Positions(clauses[j].Column, table))
      BY <2>2 DEF SetBy
    <2>4. PICK e : e = clauses[j].Value
      OBVIOUS
    <2>5. values[k] = evalLiteral(e, table[k]) /\ want[k] = e
      BY <1>4, <1>5, <2>2, <2>4 DEF SetValues, SetWanted
    <2>6. ExprOK(e) /\ ~IsErr(evalLiteral(e, table[k]))
      BY <2>3, <2>4 DEF ClausesOK
    <2>7. table[k] \in Columns
      BY <1>0
    <2>8. LiteralOK(e) /\ ValueOK(evalLiteral(e, table[k]), table[k].TypeOID)
      BY <2>6, <2>7, LiteralValue
    <2> QED
      BY <2>5, <2>6, <2>8
  <1>6. ASSUME NEW k \in 1 .. Len(table), SetBy(clauses, k) = {}
        PROVE  values[k] = row[k] /\ want[k] = t.want[k]
    BY <1>4, <1>6 DEF SetValues, SetWanted
  <1>7. RowOK(values, table)
    <2>1. Len(values) = Len(table)
      BY <1>0, <1>4 DEF SetValues
    <2>2. ASSUME NEW k \in 1 .. Len(table) PROVE ValueOK(values[k], table[k].TypeOID)
      BY <1>3, <1>5, <1>6 DEF RowOK
    <2> QED
      BY <1>0, <2>1, <2>2 DEF RowOK
  <1>8. LiteralFor(want, table)
    <2>1. want = [k \in 1 .. Len(table) |-> want[k]]
      BY <1>4 DEF SetWanted
    <2>2. ASSUME NEW k \in 1 .. Len(table) PROVE LiteralOK(want[k])
      BY <1>2, <1>5, <1>6 DEF TupleOK, WantOK
    <2> QED
      BY <2>1, <2>2, Zenon DEF LiteralFor
  <1>9. ASSUME t.inOrder PROVE RowGiven(values, table, want, table)
    <2>1. /\ \A k \in 1 .. Len(table) : ~IsErr(evalLiteral(t.want[k], table[k]))
          /\ row = RowRead(Given(t.want, table), table)
      BY <1>1, <1>2, <1>3, <1>9 DEF TupleOK, ReadsLiterals, Decoded
    <2>2. ASSUME NEW k \in 1 .. Len(table)
          PROVE  /\ ~IsErr(evalLiteral(want[k], table[k]))
                 /\ AsRead(values[k], table[k].TypeOID)
                      = AsRead(evalLiteral(want[k], table[k]), table[k].TypeOID)
      <3>1. CASE SetBy(clauses, k) # {}
        BY <1>5, <3>1
      <3>2. CASE SetBy(clauses, k) = {}
        <4>1. PICK e : e = t.want[k]
          OBVIOUS
        <4>2. PICK col \in Columns : col = table[k]
          BY <1>0
        <4>3. LiteralOK(e) /\ ~IsErr(evalLiteral(e, col))
          BY <1>2, <2>1, <4>1, <4>2 DEF TupleOK, WantOK
        <4>4. ValueOK(evalLiteral(e, col), col.TypeOID)
          BY <4>3, LiteralValue DEF ExprOK
        <4>5. row[k] = AsRead(evalLiteral(e, col), col.TypeOID)
          BY <2>1, <4>1, <4>2 DEF RowRead, Given
        <4>6. AsRead(row[k], col.TypeOID) = AsRead(evalLiteral(e, col), col.TypeOID)
          BY <4>4, <4>5, ReadTwice
        <4> QED
          BY <1>6, <3>2, <4>1, <4>2, <4>3, <4>6
      <3> QED
        BY <3>1, <3>2
    <2> QED
      BY <2>2 DEF RowGiven
  <1>10. Last \in Nat /\ XID \in 1 .. Last
    BY WritersXID
  <1>11. PICK inOrder \in BOOLEAN : inOrder = t.inOrder
    BY <1>2
  <1>12. TupleOK(NewTuple(XID, values, table, inOrder, want), table, Last)
    BY <1>0, <1>7, <1>8, <1>9, <1>10, <1>11, TupleWritten
  <1> QED
    BY <1>1, <1>3, <1>4, <1>11, <1>12

\* The file after some of its tuples have been marked.
Marked(h, P) ==
    \A i \in 1 .. Len(heap) :
        /\ h[i].xmin = heap[i].xmin /\ h[i].data = heap[i].data /\ h[i].want = heap[i].want
        /\ h[i].inOrder = heap[i].inOrder
        /\ h[i].xmax = IF i \in P THEN XID ELSE heap[i].xmax

\* Marking changes xmax of the chosen tuples and nothing else.
LEMMA FileMarked ==
    ASSUME QInv, NEW P, P \subseteq 1 .. Len(heap)
    PROVE  /\ HeapOK(Marking(P), table, Last)
           /\ Len(Marking(P)) = Len(heap)
           /\ Marked(Marking(P), P)
  <1>0. heap \in Seq(Tuples) /\ HeapOK(heap, table, nextXID)
    BY DEF QInv, HeapOK
  <1>1. PICK N \in Nat : N = Len(heap)
    BY <1>0
  <1>2. PICK h : h = Marking(P) /\ h = [i \in 1 .. N |->
                        IF i \in P THEN [heap[i] EXCEPT !.xmax = XID] ELSE heap[i]]
    BY <1>1 DEF Marking
  <1>3. nextXID \in Nat /\ Last \in Nat /\ nextXID <= Last /\ XID \in 1 .. Last /\ XID \in Nat
    BY WritersXID
  <1>4. ASSUME NEW i \in 1 .. N
        PROVE  /\ h[i] \in Tuples
               /\ h[i].xmin = heap[i].xmin /\ h[i].data = heap[i].data
               /\ h[i].want = heap[i].want /\ h[i].inOrder = heap[i].inOrder
               /\ h[i].xmax = IF i \in P THEN XID ELSE heap[i].xmax
    <2>1. PICK t \in Tuples : t = heap[i]
      BY <1>0, <1>1
    <2>2. PICK x \in Nat : x = XID
      BY <1>3
    <2>3. PICK u : u = [t EXCEPT !.xmax = x]
      OBVIOUS
    <2>4. u \in Tuples /\ u.xmin = t.xmin /\ u.data = t.data /\ u.want = t.want
            /\ u.inOrder = t.inOrder /\ u.xmax = x
      BY <2>3 DEF Tuples
    <2>5. h[i] = IF i \in P THEN u ELSE t
      BY <1>2, <2>1, <2>2, <2>3
    <2> QED
      BY <2>1, <2>2, <2>4, <2>5
  <1>5. ASSUME NEW i \in 1 .. N PROVE TupleOK(h[i], table, Last)
    <2>1. TupleOK(heap[i], table, nextXID)
      BY <1>0, <1>1 DEF HeapOK
    <2>2. h[i].xmin \in 1 .. Last /\ h[i].xmax \in 0 .. Last
      BY <1>3, <1>4, <2>1 DEF TupleOK
    <2> QED
      BY <1>4, <2>1, <2>2 DEF TupleOK, ReadsLiterals
  <1>6. h \in Seq(Tuples) /\ Len(h) = N
    <2>1. DOMAIN h = 1 .. N /\ h = [i \in 1 .. N |-> h[i]]
      BY <1>2, Zenon
    <2>2. h \in [1 .. N -> Tuples]
      BY <1>4, <2>1
    <2> QED
      BY <2>2
  <1> QED
    BY <1>1, <1>2, <1>4, <1>5, <1>6 DEF HeapOK, Marked

-----------------------------------------------------------------------------
(***************************************************************************)
(* What Execute returns.                                                   *)
(***************************************************************************)
Seen(t) == IsVisible(t.xmin, t.xmax, TakeSnapshot)

\* A file in which the tuples are the old ones, some of the visible ones marked
\* by this statement, and new ones by this statement.
Keeps(h) ==
    /\ Len(h) \in Nat /\ Len(heap) <= Len(h)
    /\ \A i \in 1 .. Len(heap) :
        /\ h[i].xmin = heap[i].xmin /\ h[i].data = heap[i].data /\ h[i].want = heap[i].want
        /\ \/ h[i].xmax = heap[i].xmax
           \/ h[i].xmax = XID /\ Seen(heap[i])
    /\ \A i \in 1 .. Len(h) : i > Len(heap) => h[i].xmin = XID

ResultOK(r) ==
    /\ r.ok \in BOOLEAN /\ r.draws \in BOOLEAN /\ r.end \in Status
    /\ r.table \in Seq(Columns)
    /\ HeapOK(r.heap, r.table, IF r.draws THEN Last ELSE nextXID)
    /\ \/ r.rows = <<>>
       \/ /\ r.tag = "SELECT" /\ r.n \in Nat /\ r.n > 0 /\ Len(r.rows) = r.n
          /\ Len(r.columns) \in Nat
    /\ ~r.ok /\ r.draws => r.end # Committed
    /\ r.table = table /\ table # <<>> => Keeps(r.heap)

\* The file keeps what it holds if nothing is done to it.
LEMMA KeepsItself ==
    ASSUME QInv
    PROVE  Keeps(heap)
  <1>1. Len(heap) \in Nat
    BY DEF QInv, HeapOK
  <1> QED
    BY <1>1 DEF Keeps

\* A statement that is refused leaves everything as it was.
LEMMA UnchangedOK ==
    ASSUME QInv
    PROVE  ResultOK(Unchanged)
  <1>1. HeapOK(heap, table, nextXID) /\ table \in Seq(Columns)
    BY DEF QInv
  <1>2. Keeps(heap)
    BY KeepsItself
  <1> QED
    BY <1>1, <1>2 DEF ResultOK, Unchanged, Status, InProgress

\* What a scan has found is visible and decodes.
LEMMA ScanFinds ==
    ASSUME QInv, NEW where
    PROVE  /\ Scan(where).fails \in BOOLEAN
           /\ Scan(where).found \subseteq 1 .. Len(heap)
           /\ Cardinality(Scan(where).found) \in Nat
           /\ \A i \in Scan(where).found : Seen(heap[i]) /\ DecodeTuple(heap[i].data, table).ok
  <1>1. PICK v : v = Verdicts(where)
    OBVIOUS
  <1>2. /\ Scan(where).fails = (\E i \in 1 .. Len(heap) : v[i] = "error")
        /\ Scan(where).found = {i \in 1 .. Len(heap) :
                                    v[i] = "match" /\ \A j \in 1 .. i : v[j] # "error"}
    BY <1>1 DEF Scan, ScanOf
  <1>3. ASSUME NEW i \in 1 .. Len(heap), v[i] = "match"
        PROVE  Seen(heap[i]) /\ DecodeTuple(heap[i].data, table).ok
    <2>1. Verdict(heap[i], DecodeTuple(heap[i].data, table), where) = "match"
      BY <1>1, <1>3 DEF Verdicts
    <2> QED
      BY <2>1 DEF Verdict, Seen
  <1>4. Cardinality(Scan(where).found) \in Nat
    <2>1. Len(heap) \in Nat
      BY DEF QInv, HeapOK
    <2>2. IsFiniteSet(1 .. Len(heap))
      BY <2>1, FS_Interval
    <2>3. Scan(where).found \subseteq 1 .. Len(heap)
      BY <1>2
    <2> QED
      BY <2>2, <2>3, FS_Subset, FS_CardinalityType
  <1> QED
    BY <1>2, <1>3, <1>4

\* Marking what a scan has found keeps the rest.
LEMMA MarkingKeeps ==
    ASSUME QInv, NEW P, P \subseteq 1 .. Len(heap), \A i \in P : Seen(heap[i])
    PROVE  Keeps(Marking(P)) /\ HeapOK(Marking(P), table, Last)
  <1>1. Len(heap) \in Nat
    BY DEF QInv, HeapOK
  <1>2. PICK h : h = Marking(P)
    OBVIOUS
  <1>3. HeapOK(h, table, Last) /\ Len(h) = Len(heap) /\ Marked(h, P)
    BY <1>2, FileMarked
  <1>4. ASSUME NEW i \in 1 .. Len(heap)
        PROVE  /\ h[i].xmin = heap[i].xmin /\ h[i].data = heap[i].data /\ h[i].want = heap[i].want
               /\ h[i].xmax = heap[i].xmax \/ (h[i].xmax = XID /\ Seen(heap[i]))
    BY <1>3 DEF Marked
  <1> QED
    BY <1>1, <1>2, <1>3, <1>4 DEF Keeps

\* SELECT returns the rows found and changes nothing.
LEMMA SelectOK ==
    ASSUME QInv, NEW s, s.Columns \in Seq(STRING), NEW where
    PROVE  ResultOK(executeSelect(s, Scan(where)))
  <1>1. PICK scan : scan = Scan(where) /\ Cardinality(scan.found) \in Nat
    BY ScanFinds
  <1>2. PICK r : r = executeSelect(s, scan)
    OBVIOUS
  <1>3. CASE r = Unchanged
    BY <1>1, <1>2, <1>3, UnchangedOK
  <1>4. CASE r # Unchanged
    <2>0. PICK idx : idx = IF s.Columns = <<"*">> THEN Everywhere ELSE Indexes(s.Columns)
      OBVIOUS
    <2>1. PICK rows, columns, c : /\ c = Cardinality(scan.found)
                                  /\ rows = [k \in 1 .. c |-> rows[k]]
                                  /\ columns = [k \in 1 .. Len(idx) |-> table[idx[k]]]
                                  /\ r = [Unchanged EXCEPT !.ok = TRUE, !.tag = "SELECT", !.n = c,
                                                           !.columns = columns, !.rows = rows]
      BY <1>2, <1>4, <2>0 DEF executeSelect
    <2>2. /\ r.ok = TRUE /\ r.heap = heap /\ r.table = table /\ r.draws = FALSE
          /\ r.end = InProgress /\ r.tag = "SELECT" /\ r.n = c /\ r.rows = rows
          /\ r.columns = columns
      BY <2>1 DEF Unchanged
    <2>3. rows = <<>> \/ (c > 0 /\ Len(rows) = c)
      BY <1>1, <2>1
    <2>4. HeapOK(heap, table, nextXID) /\ table \in Seq(Columns) /\ Keeps(heap)
      BY KeepsItself DEF QInv
    <2>5. Len(columns) \in Nat
      <3>1. Len(idx) \in Nat
        <4>1. Len(Everywhere) \in Nat
          BY <2>4 DEF Everywhere
        <4>2. Len(Indexes(s.Columns)) \in Nat
          BY DEF Indexes
        <4> QED
          BY <2>0, <4>1, <4>2
      <3> QED
        BY <2>1, <3>1
    <2>6. ResultOK(r)
      BY <1>1, <2>1, <2>2, <2>3, <2>4, <2>5 DEF ResultOK, Status, InProgress
    <2> QED
      BY <1>1, <1>2, <2>6
  <1> QED
    BY <1>3, <1>4

\* DELETE marks what its scan has found.
LEMMA DeleteOK ==
    ASSUME QInv, NEW s, NEW where
    PROVE  ResultOK(executeDelete(s, Scan(where)))
  <1>1. PICK scan : scan = Scan(where)
    OBVIOUS
  <1>2. PICK r : r = executeDelete(s, scan)
    OBVIOUS
  <1>3. /\ r.ok = (~scan.fails) /\ r.heap = Marking(scan.found) /\ r.table = table /\ r.draws = TRUE
        /\ r.end = IF scan.fails THEN InProgress ELSE Committed
        /\ r.rows = <<>>
    BY <1>2 DEF executeDelete, Unchanged
  <1>4. /\ scan.fails \in BOOLEAN /\ scan.found \subseteq 1 .. Len(heap)
        /\ \A i \in scan.found : Seen(heap[i])
    BY <1>1, ScanFinds
  <1>5. Keeps(Marking(scan.found)) /\ HeapOK(Marking(scan.found), table, Last)
    BY <1>4, MarkingKeeps
  <1>6. table \in Seq(Columns)
    BY DEF QInv
  <1>7. ResultOK(r)
    BY <1>3, <1>4, <1>5, <1>6 DEF ResultOK, Status, InProgress, Committed
  <1> QED
    BY <1>1, <1>2, <1>7

\* What an INSERT that is not refused returns.
Inserts(s, r, places, columns, values, want) ==
    /\ Inserting(s, places, columns, values, want)
    /\ \A k \in 1 .. Len(places) : ~(IsNil(values[k]) /\ columns[k].NotNull)
    /\ r = [Unchanged EXCEPT !.ok = TRUE, !.draws = TRUE, !.end = Committed,
                !.heap = Append(heap, NewTuple(XID, values, columns, places = Everywhere, want)),
                !.tag = "INSERT", !.n = 1]

\* INSERT is refused, or it is one of these.
LEMMA InsertTakes ==
    ASSUME NEW s, \A k \in 1 .. Len(s.Values) : ExprOK(s.Values[k]),
           NEW r, r = executeInsert(s), r # Unchanged
    PROVE  \E places, columns, values, want : Inserts(s, r, places, columns, values, want)
  <1> DEFINE places  == IF s.Columns = <<>> THEN Everywhere ELSE Indexes(s.Columns)
             columns == [k \in 1 .. Len(places) |-> table[places[k]]]
             values  == [k \in 1 .. Len(places) |-> evalLiteral(s.Values[k], columns[k])]
             want    == [i \in 1 .. Len(table) |->
                              LET at == {k \in 1 .. Len(places) : places[k] = i}
                              IN  IF at = {} THEN Literal("NullLiteral", 0)
                                  ELSE s.Values[First(at)]]
             tuple   == NewTuple(XID, values, columns, places = Everywhere, want)
             refused == \/ ~AllFound(s.Columns)
                        \/ Len(s.Values) # Len(places)
                        \/ \E k \in 1 .. Len(places) :
                              IsErr(values[k]) \/ (IsNil(values[k]) /\ columns[k].NotNull)
  <1>1. r = IF refused THEN Unchanged
            ELSE [Unchanged EXCEPT !.ok = TRUE, !.heap = Append(heap, tuple), !.draws = TRUE,
                      !.end = Committed, !.tag = "INSERT", !.n = 1]
    BY Zenon DEF executeInsert, NewTuple
  <1>2. ~refused
    <2> HIDE DEF refused, tuple
    <2> QED
      BY <1>1, Zenon
  <1>3. Inserting(s, places, columns, values, want)
    BY <1>2, Zenon DEF Inserting
  <1>4. \A k \in 1 .. Len(places) : ~(IsNil(values[k]) /\ columns[k].NotNull)
    BY <1>2, Zenon
  <1>5. tuple = NewTuple(XID, values, columns, places = Everywhere, want)
    OBVIOUS
  <1> HIDE DEF places, columns, values, want, tuple, refused
  <1>6. r = [Unchanged EXCEPT !.ok = TRUE, !.draws = TRUE, !.end = Committed,
                !.heap = Append(heap, tuple), !.tag = "INSERT", !.n = 1]
    BY <1>1, <1>2 DEF Unchanged
  <1>7. Inserts(s, r, places, columns, values, want)
    BY <1>3, <1>4, <1>5, <1>6 DEF Inserts
  <1> QED
    BY <1>7, Zenon

\* INSERT is refused or appends one tuple under the statement's XID.
LEMMA InsertOK ==
    ASSUME QInv, NEW s, s.Columns \in Seq(STRING),
           \A k \in 1 .. Len(s.Values) : ExprOK(s.Values[k])
    PROVE  ResultOK(executeInsert(s))
  <1>1. PICK r : r = executeInsert(s)
    OBVIOUS
  <1>2. CASE r = Unchanged
    BY <1>1, <1>2, UnchangedOK
  <1>3. CASE r # Unchanged
    <2>3. PICK places, columns, values, want : Inserts(s, r, places, columns, values, want)
      BY <1>1, <1>3, InsertTakes
    <2>4. Inserting(s, places, columns, values, want)
      BY <2>3 DEF Inserts
    <2>5. PICK tuple : tuple = NewTuple(XID, values, columns, places = Everywhere, want)
      OBVIOUS
    <2>6. r = [Unchanged EXCEPT !.ok = TRUE, !.draws = TRUE, !.end = Committed,
                !.heap = Append(heap, tuple), !.tag = "INSERT", !.n = 1]
      BY <2>3, <2>5 DEF Inserts
    <2>7. /\ r.ok = TRUE /\ r.heap = Append(heap, tuple) /\ r.table = table /\ r.draws = TRUE
          /\ r.end = Committed /\ r.rows = <<>>
      BY <2>6 DEF Unchanged
    <2>8. TupleOK(tuple, table, Last) /\ tuple.xmin = XID
      <3>1. TupleOK(tuple, table, Last)
        BY <2>4, <2>5, TupleInserted
      <3> QED
        BY <2>5, <3>1 DEF NewTuple
    <2>9. /\ HeapOK(heap, table, Last) /\ heap \in Seq(Tuples) /\ tuple \in Tuples
          /\ table \in Seq(Columns)
      <3>1. HeapOK(heap, table, nextXID) /\ table \in Seq(Columns)
        BY DEF QInv
      <3>2. nextXID \in Nat /\ Last \in Nat /\ nextXID <= Last
        BY WritersXID
      <3> QED
        BY <2>8, <3>1, <3>2, HeapLater DEF HeapOK, TupleOK
    <2>10. PICK h : h = Append(heap, tuple)
      OBVIOUS
    <2>11. /\ h \in Seq(Tuples) /\ Len(h) = Len(heap) + 1 /\ Len(heap) \in Nat
           /\ h[Len(heap) + 1] = tuple
           /\ \A i \in 1 .. Len(heap) : h[i] = heap[i]
      BY <2>9, <2>10
    <2>12. HeapOK(h, table, Last)
      <3>1. ASSUME NEW i \in 1 .. Len(h) PROVE TupleOK(h[i], table, Last)
        <4>1. i \in 1 .. Len(heap) \/ i = Len(heap) + 1
          BY <2>11
        <4> QED
          BY <2>8, <2>9, <2>11, <4>1 DEF HeapOK
      <3> QED
        BY <2>11, <3>1 DEF HeapOK
    <2>13. Keeps(h)
      BY <2>8, <2>11 DEF Keeps
    <2>14. ResultOK(r)
      BY <2>7, <2>9, <2>10, <2>12, <2>13 DEF ResultOK, Status, Committed
    <2> QED
      BY <1>1, <2>14
  <1> QED
    BY <1>2, <1>3

\* Places a scan can have found: their tuples are visible and decode.
Findings(scan) ==
    /\ scan.fails \in BOOLEAN /\ scan.found \subseteq 1 .. Len(heap)
    /\ Cardinality(scan.found) \in Nat
    /\ \A i \in scan.found : Seen(heap[i]) /\ DecodeTuple(heap[i].data, table).ok

\* UPDATE marks what its scan has found and appends a new version of each.
LEMMA UpdateOK ==
    ASSUME QInv, NEW s, Len(s.SetClauses) \in Nat, NEW scan, Findings(scan),
           \A k \in 1 .. Len(s.SetClauses) : ExprOK(s.SetClauses[k].Value)
    PROVE  ResultOK(executeUpdate(s, scan))
  <1>2. /\ scan.fails \in BOOLEAN /\ scan.found \subseteq 1 .. Len(heap)
        /\ Cardinality(scan.found) \in Nat
        /\ \A i \in scan.found : Seen(heap[i]) /\ DecodeTuple(heap[i].data, table).ok
    BY DEF Findings
  <1>3. PICK P, c : P = scan.found /\ c = Cardinality(P)
    OBVIOUS
  <1>4. table \in Seq(Columns) /\ heap \in Seq(Tuples)
    BY DEF QInv, HeapOK
  <1>5. PICK clauses : clauses = s.SetClauses
    OBVIOUS
  <1> DEFINE bad == \E k \in 1 .. Len(clauses) :
                        LET at == Positions(clauses[k].Column, table)
                        IN  \/ at = {}
                            \/ IsErr(evalLiteral(clauses[k].Value, table[First(at)]))
             new(i) == NewTuple(XID, SetValues(Decoded(i), clauses), table, heap[i].inOrder,
                                SetWanted(heap[i].want, clauses))
  <1>6. PICK r : r = executeUpdate(s, scan)
    OBVIOUS
  <1>7. CASE bad /\ P # {}
    <2>1. r = [Unchanged EXCEPT !.heap = Marking({First(P)}), !.draws = TRUE, !.end = Aborted]
      BY <1>3, <1>5, <1>6, <1>7, Zenon DEF executeUpdate
    <2>2. /\ r.ok = FALSE /\ r.heap = Marking({First(P)}) /\ r.table = table /\ r.draws = TRUE
          /\ r.end = Aborted /\ r.rows = <<>>
      BY <2>1 DEF Unchanged
    <2>3. First(P) \in P
      <3>1. P \subseteq Nat
        BY <1>2, <1>3
      <3> QED
        BY <1>7, <3>1, FirstOf
    <2>4. Keeps(Marking({First(P)})) /\ HeapOK(Marking({First(P)}), table, Last)
      <3>1. PICK F : F = {First(P)}
        OBVIOUS
      <3>2. F \subseteq 1 .. Len(heap) /\ \A i \in F : Seen(heap[i])
        BY <1>2, <1>3, <2>3, <3>1
      <3>3. Keeps(Marking(F)) /\ HeapOK(Marking(F), table, Last)
        BY <3>2, MarkingKeeps
      <3> QED
        BY <3>1, <3>3
    <2>5. ResultOK(r)
      BY <1>4, <2>2, <2>4 DEF ResultOK, Status, Aborted, Committed
    <2> QED
      BY <1>6, <2>5
  <1>8. CASE ~(bad /\ P # {})
    <2>0. PICK m : m = Marking(P)
      OBVIOUS
    <2>1. PICK versions : versions = [k \in 1 .. c |-> new(Nth(P, k))]
      OBVIOUS
    <2>2. PICK h : h = m \o versions
      OBVIOUS
    <2>3. r = [Unchanged EXCEPT !.ok = ~scan.fails, !.draws = TRUE,
                    !.end = IF scan.fails THEN InProgress ELSE Committed,
                    !.heap = h, !.tag = "UPDATE", !.n = c]
      <3>1. r = [Unchanged EXCEPT !.ok = ~scan.fails, !.draws = TRUE,
                    !.end = IF scan.fails THEN InProgress ELSE Committed,
                    !.heap = Marking(scan.found)
                                \o [k \in 1 .. Cardinality(scan.found) |-> new(Nth(scan.found, k))],
                    !.tag = "UPDATE", !.n = Cardinality(scan.found)]
        BY <1>3, <1>5, <1>6, <1>8, Zenon DEF executeUpdate, NewTuple
      <3> QED
        BY <1>3, <2>0, <2>1, <2>2, <3>1
    <2>4. /\ r.ok = (~scan.fails) /\ r.heap = h /\ r.table = table /\ r.draws = TRUE
          /\ r.end = IF scan.fails THEN InProgress ELSE Committed
          /\ r.rows = <<>>
      BY <2>3 DEF Unchanged
    <2>5. P \subseteq 1 .. Len(heap) /\ c \in Nat /\ \A i \in P : Seen(heap[i])
      BY <1>2, <1>3
    <2>6. Keeps(m) /\ HeapOK(m, table, Last) /\ Len(m) = Len(heap) /\ m \in Seq(Tuples)
      <3>1. Keeps(m) /\ HeapOK(m, table, Last)
        BY <2>0, <2>5, MarkingKeeps
      <3>2. Len(m) = Len(heap)
        BY <2>0, <2>5, FileMarked
      <3> QED
        BY <3>1, <3>2 DEF HeapOK
    <2>7. ASSUME NEW k \in 1 .. c
          PROVE  /\ versions[k] \in Tuples /\ TupleOK(versions[k], table, Last)
                 /\ versions[k].xmin = XID
      <3>1. PICK N \in Nat : N = Len(heap)
        BY <1>4
      <3>2. PICK i \in P : i = Nth(P, k)
        BY <1>3, <2>5, <3>1, NthPlace
      <3>3. versions[k] = new(i) /\ i \in 1 .. Len(heap)
        BY <2>1, <2>5, <3>2
      <3>4. P # {}
        BY <3>2
      <3>5. ClausesOK(clauses) /\ Len(clauses) \in Nat
        BY <1>5, <1>8, <3>4 DEF ClausesOK
      <3>6. DecodeTuple(heap[i].data, table).ok
        BY <1>2, <1>3, <3>2
      <3>7. TupleOK(new(i), table, Last)
        BY <3>3, <3>5, <3>6, VersionWritten
      <3>8. new(i).xmin = XID
        BY DEF NewTuple
      <3> QED
        BY <3>3, <3>7, <3>8 DEF TupleOK
    <2> HIDE DEF bad, new
    <2>8. versions \in Seq(Tuples) /\ Len(versions) = c
      <3>1. versions \in [1 .. c -> Tuples]
        BY <2>1, <2>7
      <3> QED
        BY <2>5, <3>1
    <2>9. /\ h \in Seq(Tuples) /\ Len(h) = Len(heap) + c
          /\ \A i \in 1 .. Len(heap) : h[i] = m[i]
          /\ \A i \in 1 .. Len(h) : i > Len(heap) => i - Len(heap) \in 1 .. c
                                                   /\ h[i] = versions[i - Len(heap)]
      <3>1. /\ h \in Seq(Tuples) /\ Len(h) = Len(m) + Len(versions)
            /\ \A i \in 1 .. Len(m) + Len(versions) :
                    h[i] = IF i <= Len(m) THEN m[i] ELSE versions[i - Len(m)]
        <4>1. m \in Seq(Tuples) /\ versions \in Seq(Tuples)
          BY <2>6, <2>8
        <4> QED
          BY <2>2, <4>1, ConcatProperties, Zenon
      <3>2. Len(heap) \in Nat
        BY <1>4
      <3> QED
        BY <2>5, <2>6, <2>8, <3>1, <3>2
    <2>10. HeapOK(h, table, Last)
      <3>1. ASSUME NEW i \in 1 .. Len(h) PROVE TupleOK(h[i], table, Last)
        <4>1. CASE i > Len(heap)
          BY <2>7, <2>9, <4>1
        <4>2. CASE ~(i > Len(heap))
          <5>1. i \in 1 .. Len(heap) /\ i \in 1 .. Len(m)
            BY <1>4, <2>6, <4>2
          <5> QED
            BY <2>6, <2>9, <5>1 DEF HeapOK
        <4> QED
          BY <4>1, <4>2
      <3> QED
        BY <2>9, <3>1 DEF HeapOK
    <2>11. Keeps(h)
      <3>1. ASSUME NEW i \in 1 .. Len(h), i > Len(heap) PROVE h[i].xmin = XID
        BY <2>7, <2>9, <3>1
      <3>2. Len(h) \in Nat /\ Len(heap) <= Len(h)
        BY <1>4, <2>5, <2>9
      <3> QED
        BY <2>6, <2>9, <3>1, <3>2 DEF Keeps
    <2>12. ResultOK(r)
      BY <1>2, <1>4, <2>4, <2>10, <2>11 DEF ResultOK, Status, InProgress, Committed
    <2> QED
      BY <1>6, <2>12
  <1> QED
    BY <1>7, <1>8

\* INSERT that does not get its tuple stored leaves the file alone.
LEMMA InsertNotStoredOK ==
    ASSUME QInv
    PROVE  ResultOK(InsertNotStored) /\ InsertNotStored.ok = FALSE
  <1>1. PICK r : r = InsertNotStored
    OBVIOUS
  <1>2. /\ r.ok = FALSE /\ r.heap = heap /\ r.table = table /\ r.draws = TRUE
        /\ r.end = Aborted /\ r.rows = <<>>
    BY <1>1 DEF InsertNotStored, Unchanged
  <1>3. table \in Seq(Columns) /\ HeapOK(heap, table, Last) /\ Keeps(heap)
    <2>1. HeapOK(heap, table, nextXID) /\ table \in Seq(Columns)
      BY DEF QInv
    <2>2. nextXID \in Nat /\ Last \in Nat /\ nextXID <= Last
      BY WritersXID
    <2> QED
      BY <2>1, <2>2, HeapLater, KeepsItself
  <1>4. ResultOK(r)
    BY <1>2, <1>3 DEF ResultOK, Status, Aborted, Committed
  <1> QED
    BY <1>1, <1>2, <1>4

\* A function on an initial segment is a sequence.
LEMMA TupleSequence ==
    ASSUME NEW n \in Nat, NEW f \in [1 .. n -> Tuples]
    PROVE  f \in Seq(Tuples) /\ Len(f) = n
  OBVIOUS

\* One more visible tuple is marked.
LEMMA MarkedToo ==
    ASSUME QInv, NEW h, HeapOK(h, table, Last), Keeps(h),
           NEW i \in 1 .. Len(heap), Seen(heap[i]),
           NEW g, g = [h EXCEPT ![i] = [h[i] EXCEPT !.xmax = XID]]
    PROVE  HeapOK(g, table, Last) /\ Keeps(g)
  <1>1. PICK N \in Nat, M \in Nat : N = Len(heap) /\ M = Len(h) /\ N <= M /\ i \in 1 .. M
    <2>1. HeapOK(heap, table, nextXID)
      BY DEF QInv
    <2>2. heap \in Seq(Tuples)
      BY <2>1 DEF HeapOK
    <2>3. Len(heap) \in Nat
      BY <2>2
    <2>4. Len(h) \in Nat /\ Len(heap) <= Len(h)
      BY DEF Keeps
    <2>5. i \in 1 .. Len(h)
      BY <2>3, <2>4
    <2> QED
      BY <2>3, <2>4, <2>5
  <1>2. PICK x \in Nat : x = XID /\ x \in 1 .. Last /\ Last \in Nat
    BY WritersXID
  <1>3. PICK t \in Tuples : t = h[i] /\ TupleOK(t, table, Last)
    BY <1>1 DEF HeapOK
  <1>4. PICK u : u = [t EXCEPT !.xmax = x]
    OBVIOUS
  <1>5. u \in Tuples /\ u.xmin = t.xmin /\ u.data = t.data /\ u.want = t.want
          /\ u.inOrder = t.inOrder /\ u.xmax = x
    BY <1>4 DEF Tuples
  <1>6. h \in [1 .. M -> Tuples]
    BY <1>1 DEF HeapOK
  <1>7. g \in [1 .. M -> Tuples] /\ \A j \in 1 .. M : g[j] = IF j = i THEN u ELSE h[j]
    BY <1>1, <1>2, <1>3, <1>4, <1>5, <1>6
  <1>8. g \in Seq(Tuples) /\ Len(g) = M
    <2>1. g \in [1 .. M -> Tuples] /\ M \in Nat
      BY <1>7
    <2> QED
      BY <2>1, TupleSequence
  <1>9. TupleOK(u, table, Last)
    <2>1. u.xmin \in 1 .. Last /\ u.xmax \in 0 .. Last
      BY <1>2, <1>3, <1>5 DEF TupleOK
    <2> QED
      BY <1>3, <1>5, <2>1 DEF TupleOK, ReadsLiterals
  <1>10. HeapOK(g, table, Last)
    BY <1>1, <1>7, <1>8, <1>9 DEF HeapOK
  <1>11. Keeps(g)
    <2>1. ASSUME NEW j \in 1 .. Len(heap)
          PROVE  /\ g[j].xmin = heap[j].xmin /\ g[j].data = heap[j].data
                 /\ g[j].want = heap[j].want
                 /\ g[j].xmax = heap[j].xmax \/ (g[j].xmax = XID /\ Seen(heap[j]))
      <3>1. j \in 1 .. M /\ g[j] = IF j = i THEN u ELSE h[j]
        BY <1>1, <1>7
      <3> QED
        BY <1>2, <1>3, <1>5, <3>1 DEF Keeps
    <2>2. ASSUME NEW j \in 1 .. Len(g), j > Len(heap) PROVE g[j].xmin = XID
      <3>1. j \in 1 .. Len(h) /\ g[j] = h[j]
        BY <1>1, <1>7, <1>8, <2>2
      <3> QED
        BY <2>2, <3>1 DEF Keeps
    <2> QED
      BY <1>1, <1>8, <2>1, <2>2 DEF Keeps
  <1> QED
    BY <1>10, <1>11

\* What an UPDATE whose scan fails returns.
FailedUpdate(r) ==
    r = [ok |-> FALSE, heap |-> r.heap, table |-> table, draws |-> TRUE, end |-> r.end,
         tag |-> r.tag, n |-> r.n, columns |-> <<>>, rows |-> <<>>]

LEMMA UpdateFails ==
    ASSUME NEW s, NEW scan, scan.fails = TRUE
    PROVE  FailedUpdate(executeUpdate(s, scan))
  <1>1. PICK r : r = executeUpdate(s, scan)
    OBVIOUS
  <1>2. \/ \E h : r = [Unchanged EXCEPT !.heap = h, !.draws = TRUE, !.end = Aborted]
        \/ \E h, n : r = [Unchanged EXCEPT !.ok = ~scan.fails, !.draws = TRUE,
                              !.end = IF scan.fails THEN InProgress ELSE Committed,
                              !.heap = h, !.tag = "UPDATE", !.n = n]
    BY <1>1, Zenon DEF executeUpdate
  <1>3. FailedUpdate(r)
    BY <1>2 DEF FailedUpdate, Unchanged
  <1> QED
    BY <1>1, <1>3

\* UPDATE that does not get a version stored: an UPDATE of what comes before, and
\* one more mark.
LEMMA UpdateNotStoredOK ==
    ASSUME QInv, NEW s, Len(s.SetClauses) \in Nat, NEW scan, Findings(scan),
           \A k \in 1 .. Len(s.SetClauses) : ExprOK(s.SetClauses[k].Value),
           NEW i \in scan.found, table # <<>>
    PROVE  /\ ResultOK(UpdateNotStored(s, scan, i))
           /\ UpdateNotStored(s, scan, i).ok = FALSE
  <1>1. PICK P : P = {j \in scan.found : j < i}
    OBVIOUS
  <1>2. PICK part : part = [fails |-> TRUE, found |-> P]
    OBVIOUS
  <1>3. part.fails = TRUE /\ part.found = P
    BY <1>2
  <1>4. Findings(part)
    <2>1. Len(heap) \in Nat
      BY DEF QInv, HeapOK
    <2>2. P \in SUBSET (1 .. Len(heap))
      BY <1>1 DEF Findings
    <2>3. IsFiniteSet(P)
      <3>1. IsFiniteSet(1 .. Len(heap))
        BY <2>1, FS_Interval
      <3> QED
        BY <2>2, <3>1, FS_Subset
    <2>4. Cardinality(P) \in Nat
      BY <2>3, FS_CardinalityType
    <2>5. \A j \in P : Seen(heap[j]) /\ DecodeTuple(heap[j].data, table).ok
      BY <1>1 DEF Findings
    <2> QED
      BY <1>3, <2>2, <2>4, <2>5 DEF Findings
  <1>5. PICK b : b = executeUpdate(s, part)
    OBVIOUS
  <1>6. ResultOK(b)
    BY <1>4, <1>5, UpdateOK
  <1>8. FailedUpdate(b)
    BY <1>3, <1>5, UpdateFails
  <1>9. PICK h : b.heap = h /\ b.table = table /\ b.draws = TRUE
    BY <1>8 DEF FailedUpdate
  <1>10. PICK g : g = [h EXCEPT ![i] = [h[i] EXCEPT !.xmax = XID]]
    OBVIOUS
  <1>11. PICK r : r = UpdateNotStored(s, scan, i)
    OBVIOUS
  <1>12. r = [b EXCEPT !.heap = g, !.end = Aborted]
    BY <1>1, <1>2, <1>5, <1>9, <1>10, <1>11 DEF UpdateNotStored
  <1>13. /\ r.ok = FALSE /\ r.heap = g /\ r.table = table /\ r.draws = TRUE
         /\ r.end = Aborted /\ r.rows = <<>>
    BY <1>8, <1>12 DEF FailedUpdate
  <1>14. HeapOK(h, table, Last) /\ table \in Seq(Columns) /\ (table # <<>> => Keeps(h))
    BY <1>6, <1>9 DEF ResultOK
  <1>15. i \in 1 .. Len(heap) /\ Seen(heap[i])
    BY DEF Findings
  <1>17. HeapOK(g, table, Last) /\ Keeps(g)
    BY <1>10, <1>14, <1>15, MarkedToo
  <1>18. ResultOK(r)
    BY <1>13, <1>14, <1>17 DEF ResultOK, Status, Aborted, Committed
  <1> QED
    BY <1>11, <1>13, <1>18

\* CREATE TABLE finds a type for each column, and an empty file.
LEMMA CreateOK ==
    ASSUME QInv, NEW s,
           s.Columns \in Seq([Name : STRING, TypeName : STRING, NotNull : BOOLEAN])
    PROVE  ResultOK(executeCreateTable(s))
  <1>1. PICK r : r = executeCreateTable(s)
    OBVIOUS
  <1>2. CASE r = Unchanged
    BY <1>1, <1>2, UnchangedOK
  <1>3. CASE r # Unchanged
    <2> DEFINE columns == [k \in 1 .. Len(s.Columns) |->
                            [Name    |-> s.Columns[k].Name,
                             TypeOID |-> oidsByName[s.Columns[k].TypeName],
                             NotNull |-> s.Columns[k].NotNull]]
    <2>1. /\ table = <<>>
          /\ \A k \in 1 .. Len(s.Columns) : s.Columns[k].TypeName \in DOMAIN oidsByName
          /\ r = [Unchanged EXCEPT !.ok = TRUE, !.tag = "CREATE TABLE", !.heap = <<>>,
                                   !.table = columns]
      BY <1>1, <1>3, Zenon DEF executeCreateTable
    <2>2. columns \in Seq(Columns)
      <3>1. PICK N \in Nat : N = Len(s.Columns)
        OBVIOUS
      <3>2. ASSUME NEW k \in 1 .. N PROVE columns[k] \in Columns
        <4>1. PICK c \in [Name : STRING, TypeName : STRING, NotNull : BOOLEAN] : c = s.Columns[k]
          <5>1. PICK S : S = [Name : STRING, TypeName : STRING, NotNull : BOOLEAN]
                          /\ s.Columns \in Seq(S)
            OBVIOUS
          <5>2. s.Columns[k] \in S
            <6>1. k \in 1 .. Len(s.Columns)
              BY <3>1
            <6> QED
              BY <5>1, <6>1, ElementOfSeq, Zenon
          <5> QED
            BY <5>1, <5>2
        <4>2. c.TypeName \in DOMAIN oidsByName
          BY <2>1, <3>1, <4>1
        <4>3. oidsByName[c.TypeName] \in TypeOIDs
          BY <4>2 DEF oidsByName, TypeOIDs, SizeOf
        <4>4. columns[k] = [Name |-> c.Name, TypeOID |-> oidsByName[c.TypeName],
                            NotNull |-> c.NotNull]
          BY <3>1, <4>1
        <4> QED
          BY <4>3, <4>4 DEF Columns
      <3>3. columns = [k \in 1 .. N |-> columns[k]]
        BY <3>1
      <3> HIDE DEF columns
      <3>4. columns \in [1 .. N -> Columns]
        BY <3>2, <3>3
      <3> QED
        BY <3>4
    <2> HIDE DEF columns
    <2>3. /\ r.ok = TRUE /\ r.heap = <<>> /\ r.table = columns /\ r.draws = FALSE
          /\ r.end = InProgress /\ r.rows = <<>>
      BY <2>1 DEF Unchanged
    <2>4. HeapOK(<<>>, columns, nextXID)
      BY DEF HeapOK
    <2>5. ResultOK(r)
      BY <2>1, <2>2, <2>3, <2>4 DEF ResultOK, Status, InProgress
    <2> QED
      BY <1>1, <2>5
  <1> QED
    BY <1>2, <1>3

\* DROP TABLE leaves no columns and no tuples.
LEMMA DropOK ==
    ASSUME QInv, NEW s, s.IfExists \in BOOLEAN
    PROVE  ResultOK(executeDropTable(s))
  <1>1. PICK r : r = executeDropTable(s)
    OBVIOUS
  <1>2. /\ r.ok = (table # <<>> \/ s.IfExists) /\ r.heap = <<>> /\ r.table = <<>>
        /\ r.draws = FALSE /\ r.end = InProgress /\ r.rows = <<>>
    BY <1>1 DEF executeDropTable, Unchanged
  <1>3. HeapOK(<<>>, <<>>, nextXID) /\ <<>> \in Seq(Columns)
    BY DEF HeapOK
  <1>4. r.ok \in BOOLEAN
    BY <1>2
  <1>5. ResultOK(r)
    BY <1>2, <1>3, <1>4 DEF ResultOK, Status, InProgress
  <1> QED
    BY <1>1, <1>5

\* Whatever statement the parser has made of the query.
LEMMA ExecuteOK ==
    ASSUME QInv, NEW s, StatementOK(s), s.stmt \in Executed
    PROVE  ResultOK(Execute(s))
  <1>1. CASE s.stmt = "CREATE TABLE"
    <2>1. s.Columns \in Seq([Name : STRING, TypeName : STRING, NotNull : BOOLEAN])
      BY <1>1 DEF StatementOK
    <2>2. Execute(s) = executeCreateTable(s)
      BY <1>1 DEF Execute
    <2> QED
      BY <2>1, <2>2, CreateOK
  <1>2. CASE s.stmt = "DROP TABLE"
    <2>1. s.IfExists \in BOOLEAN
      BY <1>2 DEF StatementOK
    <2>2. Execute(s) = executeDropTable(s)
      BY <1>2 DEF Execute
    <2> QED
      BY <2>1, <2>2, DropOK
  <1>3. CASE s.stmt \notin {"CREATE TABLE", "DROP TABLE"} /\ table = <<>>
    <2>1. Execute(s) = Unchanged
      BY <1>3 DEF Execute
    <2> QED
      BY <2>1, UnchangedOK
  <1>4. CASE s.stmt = "SELECT" /\ table # <<>>
    <2>1. s.Columns \in Seq(STRING)
      BY <1>4 DEF StatementOK
    <2>2. Execute(s) = executeSelect(s, Scan(s.Where))
      BY <1>4 DEF Execute
    <2> QED
      BY <2>1, <2>2, SelectOK
  <1>5. CASE s.stmt = "INSERT" /\ table # <<>>
    <2>1. s.Columns \in Seq(STRING) /\ \A k \in 1 .. Len(s.Values) : ExprOK(s.Values[k])
      BY <1>5 DEF StatementOK
    <2>2. Execute(s) = executeInsert(s)
      BY <1>5 DEF Execute
    <2> QED
      BY <2>1, <2>2, InsertOK
  <1>6. CASE s.stmt = "UPDATE" /\ table # <<>>
    <2>1. /\ Len(s.SetClauses) \in Nat
          /\ \A k \in 1 .. Len(s.SetClauses) : ExprOK(s.SetClauses[k].Value)
      BY <1>6 DEF StatementOK
    <2>2. Execute(s) = executeUpdate(s, Scan(s.Where))
      BY <1>6 DEF Execute
    <2>3. Findings(Scan(s.Where))
      BY ScanFinds DEF Findings
    <2> QED
      BY <2>1, <2>2, <2>3, UpdateOK
  <1>7. CASE s.stmt = "DELETE" /\ table # <<>>
    <2>2. Execute(s) = executeDelete(s, Scan(s.Where))
      BY <1>7 DEF Execute
    <2> QED
      BY <2>2, DeleteOK
  <1> QED
    BY <1>1, <1>2, <1>3, <1>4, <1>5, <1>6, <1>7 DEF Executed

\* The tag and the count of a statement that succeeds.
Tagged(s, r) ==
    r.ok => r.tag = s.stmt /\ (s.stmt = "SELECT" /\ r.rows = <<>> => r.n = 0)

LEMMA ExecuteTagged ==
    ASSUME QInv, NEW s, s.stmt \in Executed
    PROVE  Tagged(s, Execute(s))
  <1>0. Unchanged.ok = FALSE
    BY DEF Unchanged
  <1>1. CASE s.stmt = "CREATE TABLE"
    <2>1. PICK r : r = Execute(s) /\ r = executeCreateTable(s)
      BY <1>1 DEF Execute
    <2>2. r = Unchanged \/ r.tag = "CREATE TABLE"
      BY <2>1 DEF executeCreateTable, Unchanged
    <2> QED
      BY <1>0, <1>1, <2>1, <2>2 DEF Tagged
  <1>2. CASE s.stmt = "DROP TABLE"
    <2>1. PICK r : r = Execute(s) /\ r = executeDropTable(s)
      BY <1>2 DEF Execute
    <2>2. r.tag = "DROP TABLE"
      BY <2>1 DEF executeDropTable, Unchanged
    <2> QED
      BY <1>2, <2>1, <2>2 DEF Tagged
  <1>3. CASE s.stmt \notin {"CREATE TABLE", "DROP TABLE"} /\ table = <<>>
    <2>1. Execute(s) = Unchanged
      BY <1>3 DEF Execute
    <2> QED
      BY <1>0, <2>1 DEF Tagged
  <1>4. CASE s.stmt = "SELECT" /\ table # <<>>
    <2>1. PICK scan : scan = Scan(s.Where) /\ Cardinality(scan.found) \in Nat
      BY ScanFinds
    <2>2. PICK r : r = Execute(s) /\ r = executeSelect(s, scan)
      BY <1>4, <2>1 DEF Execute
    <2>3. CASE r = Unchanged
      BY <1>0, <2>2, <2>3 DEF Tagged
    <2>4. CASE r # Unchanged
      <3>1. PICK rows, columns, c : /\ c = Cardinality(scan.found)
                                    /\ rows = [k \in 1 .. c |-> rows[k]]
                                    /\ r = [Unchanged EXCEPT !.ok = TRUE, !.tag = "SELECT",
                                               !.n = c, !.columns = columns, !.rows = rows]
        BY <2>2, <2>4 DEF executeSelect
      <3>2. r.tag = "SELECT" /\ r.n = c /\ r.rows = rows
        BY <3>1 DEF Unchanged
      <3>3. rows = <<>> => c = 0
        BY <2>1, <3>1
      <3> QED
        BY <1>4, <2>2, <3>2, <3>3 DEF Tagged
    <2> QED
      BY <2>3, <2>4
  <1>5. CASE s.stmt = "INSERT" /\ table # <<>>
    <2>1. PICK r : r = Execute(s) /\ r = executeInsert(s)
      BY <1>5 DEF Execute
    <2>2. r = Unchanged
            \/ \E h : r = [Unchanged EXCEPT !.ok = TRUE, !.heap = h, !.draws = TRUE,
                                  !.end = Committed, !.tag = "INSERT", !.n = 1]
      BY <2>1, Zenon DEF executeInsert
    <2>3. r = Unchanged \/ r.tag = "INSERT"
      BY <2>2 DEF Unchanged
    <2> QED
      BY <1>0, <1>5, <2>1, <2>3 DEF Tagged
  <1>6. CASE s.stmt = "UPDATE" /\ table # <<>>
    <2>1. PICK scan : scan = Scan(s.Where) /\ scan.fails \in BOOLEAN
      BY ScanFinds
    <2>2. PICK r : r = Execute(s) /\ r = executeUpdate(s, scan)
      BY <1>6, <2>1 DEF Execute
    <2>3. \/ \E h : r = [Unchanged EXCEPT !.heap = h, !.draws = TRUE, !.end = Aborted]
          \/ \E h, n : r = [Unchanged EXCEPT !.ok = ~scan.fails, !.draws = TRUE,
                                !.end = IF scan.fails THEN InProgress ELSE Committed,
                                !.heap = h, !.tag = "UPDATE", !.n = n]
      BY <2>2, Zenon DEF executeUpdate
    <2>4. r.ok = FALSE \/ r.tag = "UPDATE"
      BY <2>3 DEF Unchanged
    <2> QED
      BY <1>6, <2>2, <2>4 DEF Tagged
  <1>7. CASE s.stmt = "DELETE" /\ table # <<>>
    <2>1. PICK r : r = Execute(s) /\ r = executeDelete(s, Scan(s.Where))
      BY <1>7 DEF Execute
    <2>2. r.tag = "DELETE"
      BY <2>1 DEF executeDelete, Unchanged
    <2> QED
      BY <1>7, <2>1, <2>2 DEF Tagged
  <1> QED
    BY <1>1, <1>2, <1>3, <1>4, <1>5, <1>6, <1>7 DEF Executed

\* A statement whose tuple is not stored fails.
LEMMA NotStoredFails ==
    ASSUME QInv, InsertTupleFails
    PROVE  \E r : ResultOK(r) /\ r.ok = FALSE /\ Apply(r)
  <1>1. StatementOK(stmt)
    BY DEF InsertTupleFails, HandlingStatement, QInv, stmt
  <1>2. CASE stmt.stmt = "INSERT"
    <2>1. Apply(InsertNotStored)
      BY <1>2 DEF InsertTupleFails
    <2>2. ResultOK(InsertNotStored) /\ InsertNotStored.ok = FALSE
      BY InsertNotStoredOK
    <2> QED
      BY <2>1, <2>2
  <1>3. CASE stmt.stmt = "UPDATE"
    <2>1. PICK scan : scan = Scan(stmt.Where) /\ Findings(scan)
      BY ScanFinds DEF Findings
    <2>2. PICK i \in scan.found : Apply(UpdateNotStored(stmt, scan, i)) /\ table # <<>>
      BY <1>3, <2>1 DEF InsertTupleFails
    <2>3. /\ Len(stmt.SetClauses) \in Nat
          /\ \A k \in 1 .. Len(stmt.SetClauses) : ExprOK(stmt.SetClauses[k].Value)
      BY <1>1, <1>3 DEF StatementOK
    <2>4. PICK r : r = UpdateNotStored(stmt, scan, i) /\ Apply(r)
      BY <2>2
    <2>5. ResultOK(r) /\ r.ok = FALSE
      BY <2>1, <2>2, <2>3, <2>4, UpdateNotStoredOK
    <2> QED
      BY <2>4, <2>5
  <1> QED
    BY <1>2, <1>3 DEF InsertTupleFails, HandlingStatement

\* A statement that is executed, whether its tuples are stored or not, applies a
\* result that is in order.
LEMMA ExecutionResult ==
    ASSUME QInv, ExecuteStatement \/ InsertTupleFails
    PROVE  /\ parsed.ok /\ query # <<>> /\ UNCHANGED <<query, parsed>>
           /\ \E r : ResultOK(r) /\ Tagged(stmt, r) /\ Apply(r)
  <1>1. /\ parsed.ok /\ query # <<>> /\ UNCHANGED <<query, parsed>>
        /\ stmt.stmt \in Executed
    BY DEF ExecuteStatement, InsertTupleFails, HandlingStatement, Handling, Executed
  <1>2. StatementOK(stmt)
    BY <1>1 DEF QInv, stmt
  <1>3. CASE ExecuteStatement
    <2>1. PICK r : r = Execute(stmt) /\ Apply(r)
      BY <1>3 DEF ExecuteStatement
    <2>2. ResultOK(r) /\ Tagged(stmt, r)
      BY <1>1, <1>2, <2>1, ExecuteOK, ExecuteTagged
    <2> QED
      BY <1>1, <2>1, <2>2
  <1>4. CASE InsertTupleFails
    <2>1. PICK r : ResultOK(r) /\ r.ok = FALSE /\ Apply(r)
      BY <1>4, NotStoredFails
    <2> QED
      BY <1>1, <2>1 DEF Tagged
  <1> QED
    BY <1>3, <1>4

-----------------------------------------------------------------------------
(***************************************************************************)
(* The invariant holds of every state.                                     *)
(***************************************************************************)
LEMMA QInvInit == QInit => QInv
  <1> SUFFICES ASSUME QInit PROVE QInv
    OBVIOUS
  <1>1. nextXID = 0 /\ DOMAIN statuses = {} /\ heap = <<>> /\ parsed.ok = FALSE
    BY DEF QInit, Nothing
  <1>2. table \in Seq(Columns)
    BY QueryAssumption DEF QInit
  <1>3. StatusesOK
    BY <1>1 DEF StatusesOK
  <1>4. ConnOK
    BY <1>1 DEF QInit, ConnOK, NoTxn
  <1>5. HeapOK(heap, table, nextXID)
    BY <1>1 DEF HeapOK
  <1> QED
    BY <1>1, <1>2, <1>3, <1>4, <1>5 DEF QInv

\* A step that leaves the table and the file alone, and draws at most an XID.
LEMMA FileUntouched ==
    ASSUME QInv, UNCHANGED <<table, heap>>, nextXID' \in Nat, nextXID <= nextXID'
    PROVE  table' \in Seq(Columns) /\ HeapOK(heap', table', nextXID')
  <1>1. nextXID \in Nat /\ table \in Seq(Columns) /\ HeapOK(heap, table, nextXID)
    BY DEF QInv, StatusesOK
  <1>2. HeapOK(heap, table, nextXID')
    BY <1>1, HeapLater
  <1> QED
    BY <1>1, <1>2

\* What a query handler may do to the connection and to the outcomes.
LEMMA SetStatusOK ==
    ASSUME StatusesOK, NEW x \in 1 .. nextXID', nextXID' \in Nat, nextXID <= nextXID',
           NEW st \in {Committed, Aborted}, SetStatus(x, st)
    PROVE  StatusesOK' /\ DOMAIN statuses' = DOMAIN statuses \cup {x}
  BY DEF StatusesOK, SetStatus
\* The state of the connection after an error.
LEMMA FailingOK ==
    ASSUME ConnOK, UNCHANGED <<nextXID, statuses>>, connTxn' \in {connTxn, Failing}
    PROVE  ConnOK'
  <1>1. PICK c \in [State : {"Idle", "InTransaction", "Failed"}, XID : 0 .. nextXID] : c = connTxn
    BY DEF ConnOK
  <1>2. Failing = [State |-> IF c.State = "InTransaction" THEN "Failed" ELSE c.State,
                   XID |-> c.XID]
    BY <1>1 DEF Failing
  <1> QED
    BY <1>1, <1>2 DEF ConnOK

\* A step that leaves the transaction manager, the table and the file alone.
LEMMA NothingDone ==
    ASSUME QInv, UNCHANGED <<nextXID, statuses, table, heap>>, ConnOK',
           parsed'.ok => StatementOK(parsed'.out)
    PROVE  QInv'
  <1>1. StatusesOK'
    BY DEF QInv, StatusesOK
  <1>2. table' \in Seq(Columns) /\ HeapOK(heap', table', nextXID')
    BY FileUntouched DEF QInv, StatusesOK
  <1> QED
    BY <1>1, <1>2 DEF QInv

\* A result of Execute, once it has been applied.
LEMMA Applied ==
    ASSUME QInv, NEW r, ResultOK(r), Apply(r), UNCHANGED parsed
    PROVE  QInv'
  <1>1. /\ heap' = r.heap /\ table' = r.table
        /\ nextXID' = IF r.draws /\ connTxn.XID = 0 THEN nextXID + 1 ELSE nextXID
        /\ connTxn' \in {connTxn, Failing}
        /\ IF r.draws /\ connTxn.XID = 0 /\ r.end # InProgress
           THEN SetStatus(nextXID + 1, r.end) ELSE UNCHANGED statuses
    BY DEF Apply, FinishExecution, NextXID
  <1>2. nextXID \in Nat /\ StatusesOK /\ ConnOK
    BY DEF QInv, StatusesOK
  <1>3. /\ r.draws \in BOOLEAN /\ r.end \in Status /\ r.table \in Seq(Columns)
        /\ HeapOK(r.heap, r.table, IF r.draws THEN Last ELSE nextXID)
    BY DEF ResultOK
  <1>4. nextXID' \in Nat /\ nextXID <= nextXID'
    BY <1>1, <1>2
  <1>5. HeapOK(heap', table', nextXID')
    <2>1. nextXID' = IF r.draws THEN Last ELSE nextXID
      BY <1>1, <1>3 DEF Last
    <2> QED
      BY <1>1, <1>3, <2>1
  <1>6. StatusesOK' /\ DOMAIN statuses' \subseteq DOMAIN statuses \cup {nextXID + 1}
    <2>1. CASE r.draws /\ connTxn.XID = 0 /\ r.end # InProgress
      <3>1. r.end \in {Committed, Aborted} /\ nextXID + 1 \in 1 .. nextXID'
        BY <1>1, <1>2, <1>3, <2>1 DEF Status
      <3> QED
        BY <1>1, <1>2, <1>4, <2>1, <3>1, SetStatusOK
    <2>2. CASE ~(r.draws /\ connTxn.XID = 0 /\ r.end # InProgress)
      BY <1>1, <1>2, <1>4, <2>2 DEF StatusesOK
    <2> QED
      BY <2>1, <2>2
  <1>7. ConnOK'
    <2>1. PICK c \in [State : {"Idle", "InTransaction", "Failed"}, XID : 0 .. nextXID] :
                c = connTxn /\ (c.State = "Idle" <=> c.XID = 0) /\ c.XID \notin DOMAIN statuses
      BY <1>2 DEF ConnOK
    <2>2. Failing = [State |-> IF c.State = "InTransaction" THEN "Failed" ELSE c.State,
                     XID |-> c.XID]
      BY <2>1 DEF Failing
    <2>3. connTxn'.XID = c.XID /\ (connTxn'.State = "Idle" <=> c.State = "Idle")
          /\ connTxn' \in [State : {"Idle", "InTransaction", "Failed"}, XID : 0 .. nextXID]
      BY <1>1, <2>1, <2>2
    <2>4. c.XID \notin DOMAIN statuses'
      BY <1>2, <1>6, <2>1
    <2>5. connTxn' \in [State : {"Idle", "InTransaction", "Failed"}, XID : 0 .. nextXID']
      BY <1>2, <1>4, <2>3
    <2> QED
      BY <2>1, <2>3, <2>4, <2>5 DEF ConnOK
  <1>8. parsed'.ok => StatementOK(parsed'.out)
    BY DEF QInv
  <1> QED
    BY <1>1, <1>3, <1>5, <1>6, <1>7, <1>8 DEF QInv

\* COMMIT and ROLLBACK: the outcome of an open transaction, and none after.
LEMMA Ended ==
    ASSUME QInv, UNCHANGED <<nextXID, table, heap, parsed>>, connTxn' = NoTxn,
           \/ UNCHANGED statuses
           \/ /\ connTxn.State # "Idle"
              /\ \E st \in {Committed, Aborted} : SetStatus(connTxn.XID, st)
    PROVE  QInv'
  <1>1. nextXID \in Nat /\ StatusesOK /\ ConnOK
    BY DEF QInv, StatusesOK
  <1>2. StatusesOK'
    <2>1. CASE UNCHANGED statuses
      BY <1>1, <2>1 DEF StatusesOK
    <2>2. CASE connTxn.State # "Idle" /\ \E st \in {Committed, Aborted} : SetStatus(connTxn.XID, st)
      <3>1. PICK st \in {Committed, Aborted} : SetStatus(connTxn.XID, st)
        BY <2>2
      <3>2. connTxn.XID \in 1 .. nextXID' /\ nextXID' \in Nat /\ nextXID <= nextXID'
        BY <1>1, <2>2 DEF ConnOK
      <3> QED
        BY <1>1, <3>1, <3>2, SetStatusOK
    <2> QED
      BY <2>1, <2>2
  <1>3. ConnOK'
    BY <1>1, <1>2 DEF ConnOK, NoTxn, StatusesOK
  <1>4. table' \in Seq(Columns) /\ HeapOK(heap', table', nextXID')
    BY <1>1, FileUntouched
  <1>5. parsed'.ok => StatementOK(parsed'.out)
    BY DEF QInv
  <1> QED
    BY <1>2, <1>3, <1>4, <1>5 DEF QInv

\* Every step of the message loop preserves the invariant.
LEMMA QInvNext == QInv /\ [QNext]_qvars => QInv'
  <1> SUFFICES ASSUME QInv, [QNext]_qvars PROVE QInv'
    OBVIOUS
  <1>0. nextXID \in Nat /\ ConnOK /\ StatusesOK /\ (parsed.ok => StatementOK(parsed.out))
    BY DEF QInv, StatusesOK
  <1>1. ASSUME NEW q \in Queries, ReceiveQuery(q) PROVE QInv'
    <2>1. parsed' = ParseQuery(q) /\ UNCHANGED <<nextXID, statuses, table, heap, connTxn>>
      BY <1>1 DEF ReceiveQuery, Parsed
    <2>2. parsed'.ok => StatementOK(parsed'.out)
      BY <2>1, QueryAssumption
    <2>3. ConnOK'
      BY <1>0, <2>1 DEF ConnOK
    <2> QED
      BY <2>1, <2>2, <2>3, NothingDone
  <1>2. ASSUME ParseError \/ RejectFailed \/ UnsupportedMessage PROVE QInv'
    <2>1. UNCHANGED <<nextXID, statuses, table, heap, parsed>> /\ connTxn' \in {connTxn, Failing}
      BY <1>2 DEF ParseError, RejectFailed, UnsupportedMessage, Handling, HandlingStatement
    <2>2. ConnOK'
      BY <1>0, <2>1, FailingOK
    <2> QED
      BY <1>0, <2>1, <2>2, NothingDone
  <1>3. ASSUME ExecuteStatement \/ InsertTupleFails PROVE QInv'
    <2>1. PICK r : ResultOK(r) /\ Apply(r) /\ UNCHANGED parsed
      BY <1>3, ExecutionResult
    <2> QED
      BY <2>1, Applied
  <1>4. ASSUME BeginStatement PROVE QInv'
    <2>1. CASE connTxn.State = "InTransaction"
      <3>1. UNCHANGED <<nextXID, statuses, table, heap, parsed, connTxn>>
        BY <1>4, <2>1 DEF BeginStatement, HandlingStatement, Handling
      <3>2. ConnOK'
        BY <1>0, <3>1 DEF ConnOK
      <3> QED
        BY <1>0, <3>1, <3>2, NothingDone
    <2>2. CASE connTxn.State # "InTransaction"
      <3>1. /\ UNCHANGED <<statuses, table, heap, parsed>> /\ nextXID' = nextXID + 1
            /\ connTxn' = [State |-> "InTransaction", XID |-> nextXID + 1]
        BY <1>4, <2>2 DEF BeginStatement, HandlingStatement, Handling, NextXID
      <3>2. StatusesOK'
        BY <1>0, <3>1 DEF StatusesOK
      <3>3. ConnOK'
        BY <1>0, <3>1 DEF StatusesOK, ConnOK
      <3>4. table' \in Seq(Columns) /\ HeapOK(heap', table', nextXID')
        BY <1>0, <3>1, FileUntouched
      <3>5. parsed'.ok => StatementOK(parsed'.out)
        BY <1>0, <3>1
      <3> QED
        BY <3>2, <3>3, <3>4, <3>5 DEF QInv
    <2> QED
      BY <2>1, <2>2
  <1>5. ASSUME CommitStatement PROVE QInv'
    <2>1. UNCHANGED <<nextXID, table, heap, parsed>> /\ connTxn' = NoTxn
      BY <1>5 DEF CommitStatement, HandlingStatement, Handling
    <2>2. \/ UNCHANGED statuses
          \/ /\ connTxn.State # "Idle"
             /\ \E st \in {Committed, Aborted} : SetStatus(connTxn.XID, st)
      <3>1. CASE connTxn.State = "InTransaction"
        BY <1>5, <3>1 DEF CommitStatement, CommitXID
      <3>2. CASE connTxn.State = "Failed"
        BY <1>5, <3>2 DEF CommitStatement, AbortXID
      <3>3. CASE connTxn.State \notin {"InTransaction", "Failed"}
        BY <1>5, <3>3 DEF CommitStatement
      <3> QED
        BY <3>1, <3>2, <3>3
    <2> QED
      BY <2>1, <2>2, Ended
  <1>6. ASSUME RollbackStatement PROVE QInv'
    <2>1. UNCHANGED <<nextXID, table, heap, parsed>> /\ connTxn' = NoTxn
      BY <1>6 DEF RollbackStatement, HandlingStatement, Handling
    <2>2. \/ UNCHANGED statuses
          \/ /\ connTxn.State # "Idle"
             /\ \E st \in {Committed, Aborted} : SetStatus(connTxn.XID, st)
      BY <1>6 DEF RollbackStatement, AbortXID
    <2> QED
      BY <2>1, <2>2, Ended
  <1>7. ASSUME ClientReads PROVE QInv'
    <2>1. UNCHANGED <<nextXID, statuses, table, heap, connTxn>> /\ parsed'.ok = FALSE
      BY <1>7 DEF ClientReads, Nothing
    <2>2. ConnOK'
      BY <1>0, <2>1 DEF ConnOK
    <2> QED
      BY <2>1, <2>2, NothingDone
  <1>8. ASSUME UNCHANGED qvars PROVE QInv'
    <2>1. UNCHANGED <<nextXID, statuses, table, heap, connTxn, parsed>>
      BY <1>8 DEF qvars
    <2>2. ConnOK'
      BY <1>0, <2>1 DEF ConnOK
    <2> QED
      BY <1>0, <2>1, <2>2, NothingDone
  <1> QED
    BY <1>1, <1>2, <1>3, <1>4, <1>5, <1>6, <1>7, <1>8 DEF QNext

\* QInv is an invariant of the query loop.
THEOREM QueryInvariant == QSpec => []QInv
  BY QInvInit, QInvNext, PTL DEF QSpec

\* Type correctness of the query loop, whatever statements the parser makes of
\* queries: XIDs that have been drawn, outcomes that are final, a state of the
\* connection, and tuples of bytes with a literal for each column.
THEOREM QueryTypeCorrect == QSpec => []QTypeOK
  BY QueryInvariant, QInvTypes, PTL

\* What INSERTs of all columns in table order, and UPDATEs of their rows, have
\* written is what any later scan decodes, for all columns, literals and byte
\* widths: EncodeTuple and DecodeTuple through the whole life of a row.
THEOREM RowsReadBack == QSpec => []InOrderReadsBack
  BY QueryInvariant, QInvReads, PTL
-----------------------------------------------------------------------------
(***************************************************************************)
(* The answers.                                                            *)
(***************************************************************************)
Joined(g, s, t) ==
    /\ Len(g) = Len(s) + Len(t)
    /\ \A i \in 1 .. Len(s) : g[i] = s[i]
    /\ \A i \in 1 .. Len(t) : g[Len(s) + i] = t[i]

\* The places of the elements in a concatenation.
LEMMA Joining ==
    ASSUME NEW S, NEW s \in Seq(S), NEW t \in Seq(S), NEW g, g = s \o t
    PROVE  g \in Seq(S) /\ Joined(g, s, t)
  <1>1. /\ g \in Seq(S) /\ Len(g) = Len(s) + Len(t)
        /\ \A i \in 1 .. Len(s) + Len(t) : g[i] = IF i <= Len(s) THEN s[i] ELSE t[i - Len(s)]
    BY ConcatProperties, Zenon
  <1>2. PICK m \in Nat, n \in Nat : m = Len(s) /\ n = Len(t)
    OBVIOUS
  <1>3. ASSUME NEW i \in 1 .. m PROVE g[i] = s[i]
    BY <1>1, <1>2
  <1>4. ASSUME NEW i \in 1 .. n PROVE g[m + i] = t[i]
    <2>1. m + i \in 1 .. m + n /\ ~(m + i <= m) /\ (m + i) - m = i
      OBVIOUS
    <2> QED
      BY <1>1, <1>2, <2>1
  <1> QED
    BY <1>1, <1>2, <1>3, <1>4 DEF Joined

\* A list of one message.
LEMMA OneMessage ==
    ASSUME NEW S, NEW x \in S, NEW f, f = <<x>>
    PROVE  f \in Seq(S) /\ Len(f) = 1 /\ f[1] = x
  OBVIOUS

\* A function on 1 and 2 is a pair.
LEMMA Pair ==
    ASSUME NEW x, NEW y, NEW h, h = [i \in 1 .. 2 |-> IF i = 1 THEN x ELSE y]
    PROVE  h = <<x, y>>
  OBVIOUS

AreTwo(a, x, y) == Len(a) = 2 /\ a[1] = x /\ a[2] = y /\ TypesOf(a) = <<x.type, y.type>>

\* The answer of one message and ReadyForQuery.
LEMMA TwoMessages ==
    ASSUME NEW x, NEW y, NEW a, a = <<x>> \o <<y>>
    PROVE  AreTwo(a, x, y)
  <1>1. PICK S : x \in S /\ y \in S
    <2>1. x \in {x, y} /\ y \in {x, y}
      OBVIOUS
    <2> QED
      BY <2>1, Zenon
  <1>2. PICK f, g : f = <<x>> /\ g = <<y>>
    OBVIOUS
  <1>3. f \in Seq(S) /\ Len(f) = 1 /\ f[1] = x /\ g \in Seq(S) /\ Len(g) = 1 /\ g[1] = y
    BY <1>1, <1>2, OneMessage
  <1>4. Joined(a, f, g)
    <2>1. a = f \o g
      BY <1>2
    <2> QED
      BY <1>3, <2>1, Joining
  <1>5. Len(a) = 2 /\ a[1] = x /\ a[2] = y
    BY <1>3, <1>4 DEF Joined
  <1>6. TypesOf(a) = [i \in 1 .. 2 |-> a[i].type]
    BY <1>5 DEF TypesOf
  <1>7. TypesOf(a) = [i \in 1 .. 2 |-> IF i = 1 THEN x.type ELSE y.type]
    <2>1. ASSUME NEW i \in 1 .. 2 PROVE a[i].type = IF i = 1 THEN x.type ELSE y.type
      <3>1. i = 1 \/ i = 2
        OBVIOUS
      <3> QED
        BY <1>5, <3>1
    <2> QED
      BY <1>6, <2>1
  <1>8. TypesOf(a) = <<x.type, y.type>>
    BY <1>7, Pair
  <1> QED
    BY <1>5, <1>8, Zenon DEF AreTwo

AreThree(a, x, y, z) ==
    /\ Len(a) = 3 /\ a[1] = x /\ a[2] = y /\ a[3] = z
    /\ TypesOf(a) = <<x.type, y.type, z.type>>

\* The answer to BEGIN inside a transaction.
LEMMA ThreeMessages ==
    ASSUME NEW x, NEW y, NEW z, NEW a, a = <<x, y>> \o <<z>>
    PROVE  AreThree(a, x, y, z)
  <1>1. PICK S : x \in S /\ y \in S /\ z \in S
    <2>1. x \in {x, y, z} /\ y \in {x, y, z} /\ z \in {x, y, z}
      OBVIOUS
    <2> QED
      BY <2>1, Zenon
  <1>2. PICK f, g : f = <<x, y>> /\ g = <<z>>
    OBVIOUS
  <1>3. f \in Seq(S) /\ Len(f) = 2 /\ f[1] = x /\ f[2] = y
    BY <1>1, <1>2
  <1>4. g \in Seq(S) /\ Len(g) = 1 /\ g[1] = z
    BY <1>1, <1>2, OneMessage
  <1>5. Joined(a, f, g)
    <2>1. a = f \o g
      BY <1>2
    <2> QED
      BY <1>3, <1>4, <2>1, Joining
  <1>6. Len(a) = 3 /\ a[1] = x /\ a[2] = y /\ a[3] = z
    BY <1>3, <1>4, <1>5 DEF Joined
  <1>7. TypesOf(a) = [i \in 1 .. 3 |-> a[i].type]
    BY <1>6 DEF TypesOf
  <1>8. [i \in 1 .. 3 |-> a[i].type] = <<a[1].type, a[2].type, a[3].type>>
    OBVIOUS
  <1>9. TypesOf(a) = <<x.type, y.type, z.type>>
    BY <1>6, <1>7, <1>8
  <1> QED
    BY <1>6, <1>9, Zenon DEF AreThree

\* An opening message, a list, and two closing ones.
Framed(a, first, list, c, z) ==
    /\ Len(a) = Len(list) + 3 /\ a[1] = first
    /\ \A i \in 1 .. Len(list) : a[i + 1] = list[i]
    /\ a[Len(list) + 2] = c /\ a[Len(list) + 3] = z

\* The places of the messages in such an answer.
LEMMA Framing ==
    ASSUME NEW S, NEW first \in S, NEW list \in Seq(S), NEW c \in S, NEW z \in S,
           NEW a, a = ((<<first>> \o list) \o <<c>>) \o <<z>>
    PROVE  a \in Seq(S) /\ Framed(a, first, list, c, z)
  <1>1. PICK N \in Nat : N = Len(list)
    OBVIOUS
  <1>2. PICK f, d, e : f = <<first>> /\ d = <<c>> /\ e = <<z>>
    OBVIOUS
  <1>3. /\ f \in Seq(S) /\ Len(f) = 1 /\ f[1] = first
        /\ d \in Seq(S) /\ Len(d) = 1 /\ d[1] = c
        /\ e \in Seq(S) /\ Len(e) = 1 /\ e[1] = z
    BY <1>2, OneMessage
  <1>4. PICK g : g = f \o list
    OBVIOUS
  <1>5. g \in Seq(S) /\ Joined(g, f, list)
    BY <1>3, <1>4, Joining
  <1>6. PICK h : h = g \o d
    OBVIOUS
  <1>7. h \in Seq(S) /\ Joined(h, g, d)
    BY <1>3, <1>5, <1>6, Joining
  <1>8. a = h \o e
    BY <1>2, <1>4, <1>6, Zenon
  <1>9. a \in Seq(S) /\ Joined(a, h, e)
    BY <1>3, <1>7, <1>8, Joining
  <1>10. Len(g) = N + 1 /\ g[1] = first /\ \A i \in 1 .. N : g[i + 1] = list[i]
    BY <1>1, <1>3, <1>5 DEF Joined
  <1>11. /\ Len(h) = N + 2 /\ h[N + 2] = c
         /\ \A i \in 1 .. N + 1 : h[i] = g[i]
    BY <1>3, <1>7, <1>10 DEF Joined
  <1>12. /\ Len(a) = N + 3 /\ a[N + 3] = z
         /\ \A i \in 1 .. N + 2 : a[i] = h[i]
    <2>1. /\ Len(a) = (N + 2) + 1 /\ a[(N + 2) + 1] = z
          /\ \A i \in 1 .. N + 2 : a[i] = h[i]
      <3>1. 1 \in 1 .. Len(e)
        BY <1>3
      <3>2. /\ Len(a) = Len(h) + Len(e) /\ a[Len(h) + 1] = e[1]
            /\ \A i \in 1 .. Len(h) : a[i] = h[i]
        BY <1>9, <3>1, Zenon DEF Joined
      <3> HIDE <1>9
      <3> QED
        BY <1>3, <1>11, <3>2
    <2>2. (N + 2) + 1 = N + 3
      OBVIOUS
    <2> QED
      BY <2>1, <2>2
  <1>13. a[1] = first /\ a[N + 2] = c
    <2>1. 1 \in 1 .. N + 2 /\ N + 2 \in 1 .. N + 2 /\ 1 \in 1 .. N + 1
      OBVIOUS
    <2>2. a[1] = h[1] /\ a[N + 2] = h[N + 2] /\ h[1] = g[1]
      BY <1>11, <1>12, <2>1
    <2> QED
      BY <1>10, <1>11, <2>2
  <1>14. ASSUME NEW i \in 1 .. N PROVE a[i + 1] = list[i]
    <2>1. i + 1 \in 1 .. N + 1 /\ i + 1 \in 1 .. N + 2
      OBVIOUS
    <2> QED
      BY <1>10, <1>11, <1>12, <2>1
  <1> QED
    BY <1>1, <1>9, <1>12, <1>13, <1>14 DEF Framed

\* The answer with the rows of a SELECT.
RowAnswer(a, n, z) ==
    /\ Len(a) = n + 3 /\ a[n + 3] = z
    /\ TypesOf(a) = <<"T">> \o [i \in 1 .. n |-> "D"] \o <<"C", "Z">>
    /\ \A i \in 2 .. n + 1 : Len(a[i].values) = Len(a[1].fields)
    /\ a[n + 2] = CommandComplete("SELECT", n)
    /\ \A i \in 1 .. Len(a) : a[i].type # "E"

\* The rows of such an answer, one message each.
RowsListed(a, rows, columns, n) ==
    /\ \A i \in 1 .. n : a[i + 1] = RowMessage(rows[i], columns)
    /\ {k \in 1 .. Len(a) : a[k].type = "D"} = 2 .. n + 1

\* The answer of a SELECT that returns rows is of that form.
LEMMA RowsInAnswer ==
    ASSUME NEW rows, NEW columns, NEW n \in Nat, n > 0, Len(rows) = n, Len(columns) \in Nat,
           NEW z, z.type = "Z",
           NEW a, a = (RowMessages(rows, columns) \o <<CommandComplete("SELECT", n)>>) \o <<z>>
    PROVE  RowAnswer(a, n, z) /\ RowsListed(a, rows, columns, n)
  <1>1. PICK list : list = [i \in 1 .. n |-> RowMessage(rows[i], columns)]
    OBVIOUS
  <1>2. PICK first, c : first = RowDescription(columns) /\ c = CommandComplete("SELECT", n)
    OBVIOUS
  <1>3. first.type = "T" /\ first.fields = columns /\ c.type = "C"
    BY <1>2 DEF RowDescription, CommandComplete
  <1>4. ASSUME NEW i \in 1 .. n PROVE list[i].type = "D" /\ Len(list[i].values) = Len(columns)
    <2>1. PICK texts : texts = [k \in 1 .. Len(columns) |-> IF IsNil(rows[i][k]) THEN NullText
                                        ELSE TextEncode(rows[i][k], columns[k].TypeOID)]
      OBVIOUS
    <2>2. list[i] = DataRow(texts)
      BY <1>1, <2>1 DEF RowMessage
    <2>3. Len(texts) = Len(columns)
      BY <2>1
    <2> QED
      BY <2>2, <2>3 DEF DataRow
  <1>5. a = ((<<first>> \o list) \o <<c>>) \o <<z>>
    <2>1. rows # <<>>
      OBVIOUS
    <2>2. RowMessages(rows, columns) = <<first>> \o list
      BY <1>1, <1>2, <2>1 DEF RowMessages
    <2> QED
      BY <1>2, <2>2
  <1>6. PICK S : first \in S /\ c \in S /\ z \in S /\ list \in Seq(S) /\ Len(list) = n
    <2>1. PICK S : S = {first, c, z} \cup {list[i] : i \in 1 .. n}
      OBVIOUS
    <2>2. list \in [1 .. n -> S]
      BY <1>1, <2>1
    <2>3. list \in Seq(S) /\ Len(list) = n
      BY <2>2
    <2> QED
      BY <2>1, <2>3
  <1>7. Framed(a, first, list, c, z)
    BY <1>5, <1>6, Framing
  <1>8. /\ Len(a) = n + 3 /\ a[1] = first /\ a[n + 2] = c /\ a[n + 3] = z
        /\ \A i \in 1 .. n : a[i + 1] = list[i]
    BY <1>6, <1>7 DEF Framed
  <1>9. ASSUME NEW i \in 2 .. n + 1
        PROVE  a[i].type = "D" /\ Len(a[i].values) = Len(a[1].fields)
    <2>1. i - 1 \in 1 .. n /\ (i - 1) + 1 = i
      OBVIOUS
    <2>2. a[i] = list[i - 1]
      BY <1>8, <2>1
    <2> QED
      BY <1>3, <1>4, <1>8, <2>1, <2>2
  <1>10. TypesOf(a) = <<"T">> \o [i \in 1 .. n |-> "D"] \o <<"C", "Z">>
    <2>1. PICK T : T = {"T", "D", "C", "Z"}
      OBVIOUS
    <2>2. PICK ds : ds = [i \in 1 .. n |-> "D"]
      OBVIOUS
    <2>3. ds \in Seq(T) /\ Len(ds) = n /\ \A i \in 1 .. n : ds[i] = "D"
      <3>1. ds \in [1 .. n -> T]
        BY <2>1, <2>2
      <3>2. ds \in Seq(T) /\ Len(ds) = n
        BY <3>1
      <3> QED
        BY <2>2, <3>2
    <2>4. PICK x, y : x = <<"T">> /\ y = <<"C", "Z">>
      OBVIOUS
    <2>5. PICK g, h : g = x \o ds /\ h = g \o y
      OBVIOUS
    <2>6. /\ x \in Seq(T) /\ Len(x) = 1 /\ x[1] = "T"
          /\ y \in Seq(T) /\ Len(y) = 2 /\ y[1] = "C" /\ y[2] = "Z"
      BY <2>1, <2>4
    <2>7. g \in Seq(T) /\ Len(g) = n + 1 /\ g[1] = "T" /\ \A i \in 2 .. n + 1 : g[i] = "D"
      <3>1. g \in Seq(T) /\ Joined(g, x, ds)
        BY <2>3, <2>5, <2>6, Joining
      <3>2. Len(g) = n + 1 /\ g[1] = "T"
        BY <2>3, <2>6, <3>1 DEF Joined
      <3>3. ASSUME NEW i \in 2 .. n + 1 PROVE g[i] = "D"
        <4>1. i - 1 \in 1 .. n /\ 1 + (i - 1) = i
          OBVIOUS
        <4>2. g[1 + (i - 1)] = ds[i - 1]
          BY <2>3, <2>6, <3>1, <4>1 DEF Joined
        <4> QED
          BY <2>3, <4>1, <4>2
      <3> QED
        BY <3>1, <3>2, <3>3
    <2>8. /\ h \in Seq(T) /\ Len(h) = n + 3 /\ h[n + 2] = "C" /\ h[n + 3] = "Z"
          /\ \A i \in 1 .. n + 1 : h[i] = g[i]
      <3>1. h \in Seq(T) /\ Joined(h, g, y)
        BY <2>5, <2>6, <2>7, Joining
      <3>2. h[(n + 1) + 1] = "C" /\ h[(n + 1) + 2] = "Z"
        BY <2>6, <2>7, <3>1 DEF Joined
      <3> QED
        BY <2>6, <2>7, <3>1, <3>2 DEF Joined
    <2>9. ASSUME NEW i \in 1 .. n + 3 PROVE a[i].type = h[i]
      <3>1. i = 1 \/ i \in 2 .. n + 1 \/ i = n + 2 \/ i = n + 3
        OBVIOUS
      <3> QED
        BY <1>3, <1>8, <1>9, <2>7, <2>8, <3>1
    <2>10. TypesOf(a) = [i \in 1 .. n + 3 |-> h[i]]
      BY <1>8, <2>9 DEF TypesOf
    <2>11. h = [i \in 1 .. n + 3 |-> h[i]]
      BY <2>8
    <2>12. h = <<"T">> \o [i \in 1 .. n |-> "D"] \o <<"C", "Z">>
      BY <2>2, <2>4, <2>5, Zenon
    <2> QED
      BY <2>10, <2>11, <2>12, Zenon
  <1>11. ASSUME NEW i \in 1 .. n + 3 PROVE a[i].type # "E"
    <2>1. i = 1 \/ i \in 2 .. n + 1 \/ i = n + 2 \/ i = n + 3
      OBVIOUS
    <2> QED
      BY <1>3, <1>8, <1>9, <2>1
  <1> QED
    <2>1. Len(a) = n + 3 /\ a[n + 3] = z /\ a[n + 2] = CommandComplete("SELECT", n)
      BY <1>2, <1>8
    <2>2. \A i \in 1 .. Len(a) : a[i].type # "E"
      BY <1>11, <2>1
    <2>3. RowsListed(a, rows, columns, n)
      <3>1. ASSUME NEW i \in 1 .. n PROVE a[i + 1] = RowMessage(rows[i], columns)
        BY <1>1, <1>8
      <3>2. ASSUME NEW k \in 1 .. n + 3 PROVE a[k].type = "D" <=> k \in 2 .. n + 1
        <4>1. k = 1 \/ k \in 2 .. n + 1 \/ k = n + 2 \/ k = n + 3
          OBVIOUS
        <4>2. 1 \notin 2 .. n + 1 /\ n + 2 \notin 2 .. n + 1 /\ n + 3 \notin 2 .. n + 1
          OBVIOUS
        <4> QED
          BY <1>3, <1>8, <1>9, <4>1, <4>2
      <3>3. 2 .. n + 1 \subseteq 1 .. n + 3
        OBVIOUS
      <3> QED
        BY <2>1, <3>1, <3>2, <3>3, Zenon DEF RowsListed
    <2> QED
      BY <1>9, <1>10, <2>1, <2>2, <2>3, Zenon DEF RowAnswer

\* The type bytes of the messages.
LEMMA MessageTypes ==
    /\ ErrorResponse.type = "E"
    /\ \A tag, n : CommandComplete(tag, n).type = "C"
    /\ \A status : ReadyForQuery(status).type = "Z"
  BY DEF ErrorResponse, CommandComplete, ReadyForQuery

\* An error or a completion, and the end of the answer.
LEMMA OneThenReady ==
    ASSUME NEW m, m.type \in {"E", "C"}, Answer(<<m>>)
    PROVE  /\ answer' # <<>> /\ answer'[1] = m
           /\ answer'[Len(answer')] = ReadyForQuery(txnStatusByte(connTxn'.State))
           /\ TypesOf(answer)' = <<m.type, "Z">>
           /\ Errored' => m.type = "E"
  <1>1. PICK z : z = ReadyForQuery(txnStatusByte(connTxn'.State)) /\ z.type = "Z"
    BY MessageTypes, Zenon
  <1>2. PICK a : a = answer' /\ a = <<m>> \o <<z>>
    BY <1>1 DEF Answer
  <1>3. Len(a) = 2 /\ a[1] = m /\ a[2] = z /\ TypesOf(a) = <<m.type, "Z">>
    <2>1. Len(a) = 2 /\ a[1] = m /\ a[2] = z /\ TypesOf(a) = <<m.type, z.type>>
      <3>1. AreTwo(a, m, z)
        BY <1>2, TwoMessages
      <3> QED
        BY <3>1, Zenon DEF AreTwo
    <2> QED
      BY <1>1, <2>1, Zenon
  <1>4. a[Len(a)] = z /\ a # <<>>
    BY <1>3
  <1>5. TypesOf(answer)' = <<m.type, "Z">>
    BY <1>2, <1>3, Zenon DEF TypesOf
  <1>6. ASSUME Errored' PROVE m.type = "E"
    <2>1. PICK i \in 1 .. Len(a) : a[i].type = "E"
      BY <1>2, <1>6 DEF Errored
    <2>2. i = 1 \/ i = 2
      BY <1>3, <2>1
    <2> QED
      BY <1>1, <1>3, <2>1, <2>2
  <1> QED
    BY <1>1, <1>2, <1>3, <1>4, <1>5, <1>6, Zenon

\* One error is a well-formed answer.
LEMMA ErrorAnswered ==
    ASSUME Answer(<<ErrorResponse>>)
    PROVE  AnswerWellFormed'
  <1>1. ErrorResponse.type \in {"E", "C"} /\ ErrorResponse.type = "E"
    BY DEF ErrorResponse
  <1>2. /\ answer'[Len(answer')] = ReadyForQuery(txnStatusByte(connTxn'.State))
        /\ TypesOf(answer)' = <<"E", "Z">>
    BY <1>1, OneThenReady
  <1> QED
    BY <1>2, Zenon DEF AnswerWellFormed

\* And so is one completion, that of the statement.
LEMMA CompletionAnswered ==
    ASSUME NEW tag, NEW n, Answer(<<CommandComplete(tag, n)>>),
           query' # <<>>, parsed'.ok, stmt'.stmt = tag, tag = "SELECT" => n = 0
    PROVE  AnswerWellFormed'
  <1>1. PICK c : c = CommandComplete(tag, n)
    OBVIOUS
  <1>2. c.type = "C" /\ c.tag = tag /\ c.n = n
    BY <1>1 DEF CommandComplete
  <1>3. /\ answer'[Len(answer')] = ReadyForQuery(txnStatusByte(connTxn'.State))
        /\ TypesOf(answer)' = <<"C", "Z">> /\ answer'[1] = c
    BY <1>1, <1>2, OneThenReady
  <1>4. Completed'
    BY <1>2, <1>3, Zenon DEF Completed
  <1> QED
    BY <1>3, <1>4, Zenon DEF AnswerWellFormed

\* What Execute answers.
LEMMA ExecutionAnswered ==
    ASSUME NEW r, ResultOK(r), FinishExecution(r)
    PROVE  /\ Errored' => ~r.ok
           /\ query' # <<>> /\ parsed'.ok /\ Tagged(stmt', r) => AnswerWellFormed'
  <1>1. CASE ~r.ok
    <2>1. Answer(<<ErrorResponse>>)
      BY <1>1 DEF FinishExecution
    <2> QED
      BY <1>1, <2>1, ErrorAnswered
  <1>2. CASE r.ok /\ r.rows = <<>>
    <2>1. PICK c : c = CommandComplete(r.tag, r.n) /\ c.type = "C"
      BY MessageTypes, Zenon
    <2>2. Answer(<<>> \o <<c>>)
      BY <1>2, <2>1 DEF FinishExecution, RowMessages
    <2>3. <<>> \o <<c>> = <<c>>
      OBVIOUS
    <2>4. Answer(<<c>>)
      BY <2>2, <2>3
    <2>5. c.type \in {"E", "C"} /\ c.type # "E"
      BY <2>1
    <2>6. ~Errored'
      BY <2>4, <2>5, OneThenReady
    <2>7. ASSUME query' # <<>>, parsed'.ok, Tagged(stmt', r) PROVE AnswerWellFormed'
      <3>1. PICK tag, n : tag = r.tag /\ n = r.n /\ Answer(<<CommandComplete(tag, n)>>)
        BY <2>1, <2>4
      <3>2. stmt'.stmt = tag /\ (tag = "SELECT" => n = 0)
        BY <1>2, <2>7, <3>1 DEF Tagged
      <3> QED
        BY <2>7, <3>1, <3>2, CompletionAnswered
    <2> QED
      BY <2>6, <2>7
  <1>3. CASE r.ok /\ r.rows # <<>>
    <2>1. PICK n \in Nat : n = r.n /\ n > 0 /\ Len(r.rows) = n /\ r.tag = "SELECT" /\ Len(r.columns) \in Nat
      BY <1>3 DEF ResultOK
    <2>2. PICK z : z = ReadyForQuery(txnStatusByte(connTxn'.State)) /\ z.type = "Z"
      BY MessageTypes, Zenon
    <2>3. PICK a : /\ a = answer'
                   /\ a = (RowMessages(r.rows, r.columns) \o <<CommandComplete("SELECT", n)>>) \o <<z>>
      BY <1>3, <2>1, <2>2, Zenon DEF FinishExecution, Answer
    <2>4. PICK rows, columns : rows = r.rows /\ columns = r.columns
      OBVIOUS
    <2>5. a = (RowMessages(rows, columns) \o <<CommandComplete("SELECT", n)>>) \o <<z>>
      BY <2>3, <2>4
    <2>6. RowAnswer(a, n, z)
      BY <2>1, <2>2, <2>4, <2>5, RowsInAnswer
    <2>7. n \in 1 .. Len(a) /\ a[Len(a)] = z
      <3>1. Len(a) = n + 3 /\ a[n + 3] = z
        BY <2>6, Zenon DEF RowAnswer
      <3> QED
        BY <2>1, <3>1
    <2>8. RowsAnswered(n)'
      BY <2>1, <2>3, <2>6, Zenon DEF RowsAnswered, TypesOf, RowAnswer
    <2>9. ASSUME query' # <<>>, parsed'.ok, Tagged(stmt', r) PROVE AnswerWellFormed'
      <3>1. IsStatement("SELECT")'
        BY <1>3, <2>1, <2>9 DEF Tagged, IsStatement
      <3> QED
        BY <2>2, <2>3, <2>7, <2>8, <3>1, Zenon DEF AnswerWellFormed
    <2>10. ~Errored'
      BY <2>3, <2>6, Zenon DEF Errored, RowAnswer
    <2> QED
      BY <2>9, <2>10
  <1> QED
    BY <1>1, <1>2, <1>3 DEF ResultOK

\* Every handler of the message loop writes a well-formed answer.
LEMMA AnswersNext == QInv /\ AnswerWellFormed /\ [QNext]_qvars => AnswerWellFormed'
  <1> SUFFICES ASSUME QInv, AnswerWellFormed, [QNext]_qvars PROVE AnswerWellFormed'
    OBVIOUS
  <1>1. ASSUME answer' = <<>> PROVE AnswerWellFormed'
    BY <1>1 DEF AnswerWellFormed
  <1>2. ASSUME NEW q \in Queries, ReceiveQuery(q) PROVE answer' = <<>>
    BY <1>2 DEF ReceiveQuery
  <1>3. ASSUME ParseError \/ RejectFailed \/ UnsupportedMessage PROVE AnswerWellFormed'
    <2>1. Answer(<<ErrorResponse>>)
      BY <1>3 DEF ParseError, RejectFailed, UnsupportedMessage
    <2> QED
      BY <2>1, ErrorAnswered
  <1>4. ASSUME ExecuteStatement \/ InsertTupleFails PROVE AnswerWellFormed'
    <2>1. parsed.ok /\ query # <<>> /\ UNCHANGED <<query, parsed>>
      BY <1>4, ExecutionResult
    <2>2. PICK r : ResultOK(r) /\ Tagged(stmt, r) /\ FinishExecution(r)
      BY <1>4, ExecutionResult DEF Apply
    <2>3. query' # <<>> /\ parsed'.ok /\ stmt' = stmt
      BY <2>1 DEF stmt
    <2>4. Tagged(stmt', r)
      BY <2>2, <2>3
    <2> QED
      BY <2>2, <2>3, <2>4, ExecutionAnswered
  <1>5. ASSUME BeginStatement PROVE AnswerWellFormed'
    <2>1. CASE connTxn.State = "InTransaction"
      <3>1. PICK x, y : /\ x = ErrorResponse /\ y = CommandComplete("BEGIN", 0)
                        /\ x.type = "E" /\ y.type = "C"
        BY MessageTypes, Zenon
      <3>2. PICK z : z = ReadyForQuery(txnStatusByte(connTxn'.State)) /\ z.type = "Z"
        BY MessageTypes, Zenon
      <3>3. PICK a : a = answer' /\ a = <<x, y>> \o <<z>>
        BY <1>5, <2>1, <3>1, <3>2 DEF BeginStatement, Answer
      <3>4. Len(a) = 3 /\ a[3] = z /\ TypesOf(a) = <<"E", "C", "Z">>
        <4>1. Len(a) = 3 /\ a[3] = z /\ TypesOf(a) = <<x.type, y.type, z.type>>
          <5>1. AreThree(a, x, y, z)
            BY <3>3, ThreeMessages
          <5> QED
            BY <5>1, Zenon DEF AreThree
        <4> QED
          BY <3>1, <3>2, <4>1, Zenon
      <3>5. a[Len(a)] = z
        BY <3>4
      <3>6. IsStatement("BEGIN")' /\ connTxn'.State = "InTransaction"
        BY <1>5, <2>1 DEF BeginStatement, HandlingStatement, Handling, IsStatement, stmt
      <3> QED
        BY <3>2, <3>3, <3>4, <3>5, <3>6, Zenon DEF AnswerWellFormed, TypesOf
    <2>2. CASE connTxn.State # "InTransaction"
      <3>1. Answer(<<CommandComplete("BEGIN", 0)>>)
        BY <1>5, <2>2 DEF BeginStatement
      <3>2. query' # <<>> /\ parsed'.ok /\ stmt'.stmt = "BEGIN"
        BY <1>5 DEF BeginStatement, HandlingStatement, Handling, stmt
      <3> QED
        BY <3>1, <3>2, CompletionAnswered
    <2> QED
      BY <2>1, <2>2
  <1>6. ASSUME CommitStatement PROVE AnswerWellFormed'
    <2>1. Answer(<<CommandComplete("COMMIT", 0)>>)
      BY <1>6 DEF CommitStatement
    <2>2. query' # <<>> /\ parsed'.ok /\ stmt'.stmt = "COMMIT"
      BY <1>6 DEF CommitStatement, HandlingStatement, Handling, stmt
    <2> QED
      BY <2>1, <2>2, CompletionAnswered
  <1>7. ASSUME RollbackStatement PROVE AnswerWellFormed'
    <2>1. Answer(<<CommandComplete("ROLLBACK", 0)>>)
      BY <1>7 DEF RollbackStatement
    <2>2. query' # <<>> /\ parsed'.ok /\ stmt'.stmt = "ROLLBACK"
      BY <1>7 DEF RollbackStatement, HandlingStatement, Handling, stmt
    <2> QED
      BY <2>1, <2>2, CompletionAnswered
  <1>8. ASSUME ClientReads PROVE answer' = <<>>
    BY <1>8 DEF ClientReads
  <1>9. ASSUME UNCHANGED qvars PROVE AnswerWellFormed'
    <2>1. answer' = answer /\ connTxn' = connTxn /\ query' = query /\ parsed' = parsed
      BY <1>9 DEF qvars
    <2> QED
      BY <2>1, Zenon DEF AnswerWellFormed, Completed, TypesOf, RowsAnswered, IsStatement, stmt
  <1> QED
    BY <1>1, <1>2, <1>3, <1>4, <1>5, <1>6, <1>7, <1>8, <1>9 DEF QNext

\* Whatever statements the parser makes of queries and however many rows there
\* are, an answer is one error; or the one completion of the statement, after a
\* description and as many DataRows as it counts if it is a SELECT that has found
\* rows; or, for BEGIN inside a transaction only, an error and a completion; and
\* then one ReadyForQuery with the state of the transaction.
THEOREM AnswersAreWellFormed == QSpec => []AnswerWellFormed
  <1>1. QInit => AnswerWellFormed
    BY DEF QInit, AnswerWellFormed
  <1> QED
    BY <1>1, QueryInvariant, AnswersNext, PTL DEF QSpec

-----------------------------------------------------------------------------
(***************************************************************************)
(* What a statement changes of what others see.                            *)
(***************************************************************************)

\* A tuple is visible by the outcomes alone: every XID in the file has been
\* drawn before the snapshot, and no outcome is recorded as in progress.
CommittedXIDs == {x \in DOMAIN statuses : statuses[x] = Committed}

Shown(t) == t.xmin \in CommittedXIDs /\ (t.xmax = 0 \/ t.xmax \notin CommittedXIDs)

ShownAreSeen == \A i \in 1 .. Len(heap) : Seen(heap[i]) <=> Shown(heap[i])

\* Visibility to a snapshot taken now, and the outcomes, agree.
LEMMA SeenByOutcomes == QInv => ShownAreSeen
  <1> SUFFICES ASSUME QInv, NEW i \in 1 .. Len(heap) PROVE Seen(heap[i]) <=> Shown(heap[i])
    BY DEF ShownAreSeen
  <1>1. TupleOK(heap[i], table, nextXID) /\ nextXID \in Nat
    BY DEF QInv, HeapOK, StatusesOK
  <1>2. PICK a \in 1 .. nextXID, b \in 0 .. nextXID : a = heap[i].xmin /\ b = heap[i].xmax
    BY <1>1 DEF TupleOK
  <1>3. PICK s : s = TakeSnapshot
    OBVIOUS
  <1>4. s.Xmax = nextXID + 1 /\ s.Xip = {}
    <2>1. {x \in DOMAIN statuses : statuses[x] = InProgress} = {}
      BY DEF QInv, StatusesOK, InProgress, Committed, Aborted
    <2> QED
      BY <1>3, <2>1 DEF TakeSnapshot
  <1>5. ASSUME NEW x \in 0 .. nextXID PROVE isXIDCommitted(x, s) <=> x \in CommittedXIDs
    BY <1>1, <1>4 DEF isXIDCommitted, GetStatus, CommittedXIDs, Committed, InProgress
  <1>6. isXIDCommitted(a, s) <=> a \in CommittedXIDs
    BY <1>1, <1>2, <1>5
  <1>7. isXIDCommitted(b, s) <=> b \in CommittedXIDs
    BY <1>2, <1>5
  <1> QED
    BY <1>2, <1>3, <1>6, <1>7 DEF Seen, Shown, IsVisible

\* A file that keeps what it held, and no commit: the same rows are visible.
LEMMA NothingShows ==
    ASSUME QInv, QInv', Keeps(heap'), CommittedXIDs' = CommittedXIDs
    PROVE  VisibleRows' = VisibleRows
  <1>0. XID \notin CommittedXIDs
    BY WritersXID DEF CommittedXIDs
  <1>1. ShownAreSeen /\ ShownAreSeen'
    <2>1. QInv' => ShownAreSeen'
      BY SeenByOutcomes, PTL
    <2> QED
      BY <2>1, SeenByOutcomes
  <1>2. PICK h : h = heap'
    OBVIOUS
  <1>3. Len(heap) \in Nat /\ Len(h) \in Nat /\ Len(heap) <= Len(h)
    BY <1>2 DEF Keeps, QInv, HeapOK
  <1>4. ASSUME NEW i \in 1 .. Len(h)
        PROVE  Seen(heap[i])' <=> (/\ h[i].xmin \in CommittedXIDs
                                  /\ (h[i].xmax = 0 \/ h[i].xmax \notin CommittedXIDs))
    <2>1. Seen(heap[i])' <=> Shown(heap[i])'
      BY <1>1, <1>2 DEF ShownAreSeen
    <2> QED
      BY <1>2, <2>1 DEF Shown
  <1>5. ASSUME NEW i \in 1 .. Len(heap)
        PROVE  /\ Seen(heap[i])' <=> Seen(heap[i])
               /\ h[i].data = heap[i].data /\ h[i].want = heap[i].want
    <2>1. /\ h[i].xmin = heap[i].xmin /\ h[i].data = heap[i].data /\ h[i].want = heap[i].want
          /\ h[i].xmax = heap[i].xmax \/ (h[i].xmax = XID /\ Seen(heap[i]))
      BY <1>2 DEF Keeps
    <2>2. Seen(heap[i]) <=> (/\ heap[i].xmin \in CommittedXIDs
                             /\ (heap[i].xmax = 0 \/ heap[i].xmax \notin CommittedXIDs))
      BY <1>1 DEF ShownAreSeen, Shown
    <2>3. i \in 1 .. Len(h)
      BY <1>3
    <2> QED
      BY <1>0, <1>4, <2>1, <2>2, <2>3, Zenon
  <1>6. ASSUME NEW i \in 1 .. Len(h), i > Len(heap) PROVE ~Seen(heap[i])'
    <2>1. h[i].xmin = XID
      BY <1>2, <1>6 DEF Keeps
    <2> QED
      BY <1>0, <1>4, <2>1, Zenon
  <1>7. PICK V : V = {j \in 1 .. Len(heap) : Seen(heap[j])}
    OBVIOUS
  <1>8. {j \in 1 .. Len(h) : Seen(heap[j])'} = V
    <2>1. ASSUME NEW j \in 1 .. Len(h) PROVE Seen(heap[j])' <=> j \in V
      <3>1. CASE j > Len(heap)
        <4>1. j \notin 1 .. Len(heap)
          BY <1>3, <3>1
        <4> QED
          BY <1>6, <1>7, <3>1, <4>1
      <3>2. CASE ~(j > Len(heap))
        <4>1. j \in 1 .. Len(heap)
          BY <1>3, <3>2
        <4> QED
          BY <1>5, <1>7, <4>1
      <3> QED
        BY <3>1, <3>2
    <2>2. V \subseteq 1 .. Len(h)
      BY <1>3, <1>7
    <2> QED
      BY <2>1, <2>2, Zenon
  <1>9. VisibleRows = [i \in V |-> <<heap[i].data, heap[i].want>>]
    BY <1>7, Zenon DEF VisibleRows, Seen
  <1>10. VisibleRows' = [i \in V |-> <<h[i].data, h[i].want>>]
    BY <1>2, <1>8, Zenon DEF VisibleRows, Seen
  <1>11. ASSUME NEW i \in V PROVE <<h[i].data, h[i].want>> = <<heap[i].data, heap[i].want>>
    BY <1>5, <1>7
  <1> QED
    BY <1>9, <1>10, <1>11, Zenon

\* No outcome but an abort is recorded.
LEMMA NoCommit ==
    ASSUME \/ UNCHANGED statuses
           \/ \E x, st : x \notin DOMAIN statuses /\ st # Committed /\ SetStatus(x, st)
    PROVE  CommittedXIDs' = CommittedXIDs
  <1>1. CASE UNCHANGED statuses
    BY <1>1 DEF CommittedXIDs
  <1>2. CASE \E x, st : x \notin DOMAIN statuses /\ st # Committed /\ SetStatus(x, st)
    <2>1. PICK x, st : x \notin DOMAIN statuses /\ st # Committed /\ SetStatus(x, st)
      BY <1>2
    <2>2. PICK f, g : /\ f = statuses /\ g = statuses'
                      /\ g = [y \in DOMAIN f \cup {x} |-> IF y = x THEN st ELSE f[y]]
      BY <2>1 DEF SetStatus
    <2>3. {y \in DOMAIN g : g[y] = Committed} = {y \in DOMAIN f : f[y] = Committed}
      BY <2>1, <2>2
    <2> QED
      BY <2>2, <2>3 DEF CommittedXIDs
  <1> QED
    BY <1>1, <1>2

\* A result of Execute, once it has been applied, shows nothing unless the
\* statement has succeeded on its own.
LEMMA ExecutionShowsNothing ==
    ASSUME QInv, QInv', NEW r, ResultOK(r), Apply(r),
           table # <<>>, table' = table, Errored' \/ connTxn.State # "Idle"
    PROVE  VisibleRows' = VisibleRows
  <1>1. /\ heap' = r.heap /\ table' = r.table /\ FinishExecution(r)
        /\ IF r.draws /\ connTxn.XID = 0 /\ r.end # InProgress
           THEN SetStatus(nextXID + 1, r.end) ELSE UNCHANGED statuses
    BY DEF Apply, NextXID
  <1>2. Keeps(heap')
    BY <1>1 DEF ResultOK
  <1>3. CASE r.draws /\ connTxn.XID = 0 /\ r.end # InProgress
    <2>1. connTxn.State = "Idle"
      BY <1>3 DEF QInv, ConnOK
    <2>2. ~r.ok
      BY <1>1, <2>1, ExecutionAnswered
    <2>3. r.end # Committed
      BY <1>3, <2>2 DEF ResultOK
    <2>4. nextXID + 1 \notin DOMAIN statuses
      BY DEF QInv, StatusesOK
    <2>5. \E x, st : x \notin DOMAIN statuses /\ st # Committed /\ SetStatus(x, st)
      BY <1>1, <1>3, <2>3, <2>4
    <2>6. CommittedXIDs' = CommittedXIDs
      BY <2>5, NoCommit
    <2> QED
      BY <1>2, <2>6, NothingShows
  <1>4. CASE ~(r.draws /\ connTxn.XID = 0 /\ r.end # InProgress)
    <2>1. UNCHANGED statuses
      BY <1>1, <1>4
    <2>2. CommittedXIDs' = CommittedXIDs
      BY <2>1, NoCommit
    <2> QED
      BY <1>2, <2>2, NothingShows
  <1> QED
    BY <1>3, <1>4

\* No step shows what is withheld.
LEMMA StepShowsNothing == QInv /\ QInv' /\ [QNext]_qvars => [ShowsNothing]_qvars
  <1> SUFFICES ASSUME QInv, QInv', QNext, query # <<>>, answer = <<>>, table # <<>>,
                      table' = table, Errored' \/ Withheld
               PROVE  VisibleRows' = VisibleRows
    BY DEF ShowsNothing
  <1>1. ASSUME UNCHANGED heap, CommittedXIDs' = CommittedXIDs PROVE VisibleRows' = VisibleRows
    <2>1. Keeps(heap')
      BY <1>1, KeepsItself
    <2> QED
      BY <1>1, <2>1, NothingShows
  <1>2. ASSUME UNCHANGED <<heap, statuses>> PROVE VisibleRows' = VisibleRows
    <2>1. CommittedXIDs' = CommittedXIDs
      BY <1>2, NoCommit
    <2> QED
      BY <1>1, <1>2, <2>1
  <1>3. ASSUME \E q \in Queries : ReceiveQuery(q) PROVE FALSE
    BY <1>3 DEF ReceiveQuery
  <1>4. ASSUME UnsupportedMessage \/ ClientReads PROVE FALSE
    BY <1>4 DEF UnsupportedMessage, ClientReads
  <1>5. ASSUME ParseError \/ RejectFailed \/ BeginStatement PROVE UNCHANGED <<heap, statuses>>
    BY <1>5 DEF ParseError, RejectFailed, BeginStatement
  <1>6. ASSUME ExecuteStatement \/ InsertTupleFails PROVE VisibleRows' = VisibleRows
    <2>1. PICK r : ResultOK(r) /\ Apply(r)
      BY <1>6, ExecutionResult
    <2>2. Errored' \/ connTxn.State # "Idle"
      BY DEF Withheld
    <2> QED
      BY <2>1, <2>2, ExecutionShowsNothing
  <1>7. connTxn.XID \notin DOMAIN statuses /\ Aborted # Committed
    BY DEF QInv, ConnOK, Aborted, Committed
  <1>8. ASSUME CommitStatement PROVE VisibleRows' = VisibleRows
    <2>1. UNCHANGED heap /\ Answer(<<CommandComplete("COMMIT", 0)>>) /\ IsStatement("COMMIT")
      BY <1>8 DEF CommitStatement, HandlingStatement, Handling, IsStatement
    <2>2. ~Errored'
      <3>1. PICK m : m = CommandComplete("COMMIT", 0) /\ m.type = "C"
        BY MessageTypes, Zenon
      <3>2. Answer(<<m>>) /\ m.type \in {"E", "C"} /\ m.type # "E"
        BY <2>1, <3>1
      <3> QED
        BY <3>2, OneThenReady
    <2>3. connTxn.State = "Failed"
      BY <2>1, <2>2 DEF Withheld
    <2>4. SetStatus(connTxn.XID, Aborted)
      BY <1>8, <2>3 DEF CommitStatement, AbortXID
    <2>5. CommittedXIDs' = CommittedXIDs
      BY <1>7, <2>4, NoCommit
    <2> QED
      BY <1>1, <2>1, <2>5
  <1>9. ASSUME RollbackStatement PROVE VisibleRows' = VisibleRows
    <2>1. UNCHANGED heap
      BY <1>9 DEF RollbackStatement
    <2>2. UNCHANGED statuses \/ SetStatus(connTxn.XID, Aborted)
      BY <1>9 DEF RollbackStatement, AbortXID
    <2>3. CommittedXIDs' = CommittedXIDs
      BY <1>7, <2>2, NoCommit
    <2> QED
      BY <1>1, <2>1, <2>3
  <1> QED
    BY <1>2, <1>3, <1>4, <1>5, <1>6, <1>8, <1>9 DEF QNext

\* A statement that ends in an error, and anything inside a transaction short of
\* a COMMIT that finds it not failed, leaves what is visible as it was, however
\* many tuples it has marked or appended before the error.
THEOREM NothingUncommittedShows == QSpec => InvisibleUntilCommitted
  BY QueryInvariant, StepShowsNothing, PTL DEF QSpec, InvisibleUntilCommitted

-----------------------------------------------------------------------------
(***************************************************************************)
(* What a statement finds, in SQL's terms.                                 *)
(***************************************************************************)

\* What is read where a literal was written stands for the SQL value it left
\* there, and is sent as that value's text.
LEMMA LiteralDenoted ==
    ASSUME NEW e, NEW col \in Columns, ExprOK(e), ~IsErr(evalLiteral(e, col)),
           NEW v, v = AsRead(evalLiteral(e, col), col.TypeOID),
           NEW x, x = StoredValue(e, col.TypeOID)
    PROVE  /\ Denotes(v, x) /\ IsSQL(x)
           /\ x = SQLNull => IsNil(evalLiteral(e, col))
           /\ col.TypeOID # "bytea" =>
                (IF IsNil(v) THEN NullText ELSE TextEncode(v, col.TypeOID)) = ExpectedText(x)
  <1>1. PICK oid \in TypeOIDs : oid = col.TypeOID
    BY DEF Columns
  <1>2. LiteralOK(e)
    BY LiteralValue
  <1>3. CASE e.node = "NullLiteral" /\ evalLiteral(e, col) = Nil
    <2>1. v = Nil /\ x = [sort |-> "null", v |-> 0]
      BY <1>3 DEF AsRead, StoredValue, SQLNull, SQLValue
    <2>2. IsNil(v) /\ IsNil(evalLiteral(e, col))
      BY <1>3, <2>1 DEF IsNil, Nil
    <2>3. Denotes(v, x) /\ IsSQL(x)
      BY <2>1 DEF Denotes, IsSQL, SQLValue
    <2>4. ExpectedText(x) = NullText
      BY <2>1 DEF ExpectedText
    <2> QED
      BY <2>2, <2>3, <2>4
  <1>4. CASE /\ e.node = "IntegerLiteral" /\ col.TypeOID \in IntegerTypes
             /\ evalLiteral(e, col)
                    = [kind |-> KindOf[col.TypeOID], val |-> Narrow(e.Value, col.TypeOID)]
    <2>1. e.Value \in Int
      BY <1>2, <1>4, LiteralKinds
    <2>2. PICK n \in Int : n = Narrow(e.Value, oid) /\ n = Congruent(e.Value, oid)
      <3>1. InRange(Narrow(e.Value, oid), oid)
        BY <1>1, <1>4, <2>1, NarrowInRange
      <3>2. Narrow(e.Value, oid) \in Int
        BY <3>1 DEF InRange
      <3> QED
        BY <1>1, <1>4, <2>1, <3>2, NarrowCongruent
    <2>3. PICK kind : /\ kind = KindOf[oid]
                      /\ kind \in {"int16", "int32", "int64", "uint32"}
                      /\ oid = "oid" <=> kind = "uint32"
      BY <1>1, <1>4 DEF KindOf, IntegerTypes
    <2>4. ~(SizeOf[oid] < 0)
      BY <1>1, <1>4, IntegerSizes
    <2>5. v = [kind |-> kind, val |-> n]
      BY <1>1, <1>4, <2>2, <2>3, <2>4 DEF AsRead
    <2>6. PICK sort : sort = (IF oid = "oid" THEN "oid" ELSE "number")
      OBVIOUS
    <2>7. x = [sort |-> sort, v |-> 2 * n]
      BY <1>1, <1>4, <2>2, <2>6 DEF StoredValue, SQLValue
    <2>8. sort \notin {"null", "bool", "string", "none"}
      BY <2>6
    <2>9. Denotes(v, x) /\ IsSQL(x)
      BY <2>3, <2>5, <2>6, <2>7 DEF Denotes, IsSQL, SQLValue
    <2>10. x # SQLNull
      BY <2>7, <2>8 DEF SQLNull, SQLValue
    <2>11. ExpectedText(x) = Text("decimal", n)
      <3>1. (2 * n) \div 2 = n
        OBVIOUS
      <3>2. x.sort = sort /\ x.v = 2 * n
        BY <2>7
      <3> QED
        BY <2>8, <3>1, <3>2 DEF ExpectedText
    <2>12. TextEncode(v, oid) = Text("decimal", n) /\ ~IsNil(v)
      BY <2>3, <2>5 DEF TextEncode, IsNil
    <2> QED
      BY <1>1, <2>9, <2>10, <2>11, <2>12
  <1>5. CASE /\ e.node = "StringLiteral" /\ SizeOf[col.TypeOID] < 0
             /\ evalLiteral(e, col) = [kind |-> KindOf[col.TypeOID], val |-> e.Value]
    <2>0. e.Value \in Seq(Bytes)
      BY <1>2, <1>5, LiteralKinds
    <2>1. PICK kind : /\ kind = KindOf[oid] /\ kind \in {"string", "[]byte"}
                      /\ oid # "bytea" => kind = "string"
      BY <1>1, <1>5 DEF TypeOIDs, SizeOf, KindOf
    <2>2. v = [kind |-> "string", val |-> e.Value]
      BY <1>1, <1>5, <2>1 DEF AsRead, GoString, Nil
    <2>3. x = [sort |-> "string", v |-> e.Value]
      BY <1>5 DEF StoredValue, SQLValue
    <2>4. Denotes(v, x) /\ IsSQL(x) /\ x # SQLNull
      BY <2>0, <2>2, <2>3 DEF Denotes, IsSQL, SQLValue, SQLNull, GoString
    <2>5. ExpectedText(x) = Text("chars", e.Value)
      BY <2>3 DEF ExpectedText
    <2>6. ~IsNil(v) /\ (oid # "bytea" => TextEncode(v, oid) = Text("chars", e.Value))
      BY <2>1, <2>2 DEF TextEncode, IsNil
    <2> QED
      BY <1>1, <2>4, <2>5, <2>6
  <1>6. CASE /\ e.node = "BoolLiteral" /\ col.TypeOID = "bool"
             /\ evalLiteral(e, col) = Bool(e.Value)
    <2>0. e.Value \in BOOLEAN
      BY <1>2, <1>6, LiteralKinds
    <2>1. SizeOf[oid] = 1 /\ KindOf[oid] = "bool"
      BY <1>1, <1>6 DEF SizeOf, KindOf
    <2>2. v = [kind |-> "bool", val |-> e.Value]
      BY <1>1, <1>6, <2>1 DEF AsRead, Bool
    <2>3. x = [sort |-> "bool", v |-> e.Value]
      BY <1>6 DEF StoredValue, SQLValue
    <2>4. Denotes(v, x) /\ IsSQL(x) /\ x # SQLNull
      BY <2>0, <2>2, <2>3 DEF Denotes, IsSQL, SQLValue, SQLNull, Bool
    <2>5. PICK w : w = IF e.Value THEN "t" ELSE "f"
      OBVIOUS
    <2>6. ExpectedText(x) = Text("word", w)
      BY <2>3, <2>5 DEF ExpectedText
    <2>7. ~IsNil(v) /\ TextEncode(v, oid) = Text("word", w)
      BY <2>1, <2>2, <2>5 DEF TextEncode, IsNil
    <2> QED
      BY <1>1, <2>4, <2>6, <2>7
  <1> QED
    BY <1>3, <1>4, <1>5, <1>6, LiteralCases

\* A tuple in table order decodes, stands for its SQL row, and is sent as it.
LEMMA TupleDenoted ==
    ASSUME QInv, NEW i \in 1 .. Len(heap), heap[i].inOrder
    PROVE  /\ DecodeTuple(heap[i].data, table).ok
           /\ RowDenotes(Decoded(i), SQLRow(heap[i]), table)
           /\ \A k \in 1 .. Len(table) :
                table[k].TypeOID # "bytea" =>
                    (IF IsNil(Decoded(i)[k]) THEN NullText
                     ELSE TextEncode(Decoded(i)[k], table[k].TypeOID))
                        = ExpectedText(SQLRow(heap[i])[k])
  <1>1. PICK t : t = heap[i]
    OBVIOUS
  <1>2. TupleOK(t, table, nextXID) /\ t.inOrder
    BY <1>1 DEF QInv, HeapOK
  <1>3. PICK d : d = DecodeTuple(t.data, table) /\ d.values = Decoded(i)
    BY <1>1 DEF Decoded
  <1>4. d.ok /\ d.values = RowRead(Given(t.want, table), table)
    BY <1>2, <1>3 DEF TupleOK, ReadsLiterals
  <1>5. ASSUME NEW k \in 1 .. Len(table)
        PROVE  /\ Denotes(d.values[k], SQLRow(t)[k]) /\ IsSQL(SQLRow(t)[k])
               /\ table[k].TypeOID # "bytea" =>
                    (IF IsNil(d.values[k]) THEN NullText
                     ELSE TextEncode(d.values[k], table[k].TypeOID)) = ExpectedText(SQLRow(t)[k])
    <2>1. PICK e : e = t.want[k]
      OBVIOUS
    <2>2. PICK col \in Columns : col = table[k]
      BY DEF QInv
    <2>3. LiteralOK(e) /\ ~IsErr(evalLiteral(e, col))
      BY <1>2, <2>1, <2>2 DEF TupleOK, WantOK, ReadsLiterals
    <2>4. d.values[k] = AsRead(evalLiteral(e, col), col.TypeOID)
      BY <1>4, <2>1, <2>2 DEF RowRead, Given
    <2>5. SQLRow(t)[k] = StoredValue(e, col.TypeOID)
      BY <2>1, <2>2 DEF SQLRow
    <2>6. ExprOK(e)
      BY <2>3 DEF ExprOK
    <2>7. PICK v, x : v = d.values[k] /\ x = SQLRow(t)[k]
      OBVIOUS
    <2>8. /\ Denotes(v, x) /\ IsSQL(x)
          /\ col.TypeOID # "bytea" =>
                (IF IsNil(v) THEN NullText ELSE TextEncode(v, col.TypeOID)) = ExpectedText(x)
      BY <2>3, <2>4, <2>5, <2>6, <2>7, LiteralDenoted
    <2> QED
      BY <2>2, <2>7, <2>8
  <1>6. Len(table) \in Nat
    BY DEF QInv
  <1> QED
    BY <1>1, <1>3, <1>4, <1>5, <1>6 DEF RowDenotes

\* The places a scan has found are those SQL selects, and it does not fail: on
\* every visible row the evaluator and SQL come to the same verdict.
LEMMA ScanSelects ==
    ASSUME QInv, ReadAsWritten, AllInOrder, Judged, query # <<>>, parsed.ok,
           stmt.stmt \in {"SELECT", "UPDATE", "DELETE"}
    PROVE  /\ Scan(stmt.Where).fails = FALSE /\ Scan(stmt.Where).found = Selected
           /\ Selected \subseteq 1 .. Len(heap) /\ \A i \in Selected : Seen(heap[i])
           /\ DOMAIN SQLRows = {j \in 1 .. Len(heap) : Seen(heap[j])}
  <1>1. PICK where : where = stmt.Where
    OBVIOUS
  <1>2. WhereOK(where)
    BY <1>1 DEF QInv, stmt, StatementOK
  <1>3. PICK v : v = Verdicts(where)
    OBVIOUS
  <1>4. /\ Scan(where).fails = (\E i \in 1 .. Len(heap) : v[i] = "error")
        /\ Scan(where).found = {i \in 1 .. Len(heap) :
                                    v[i] = "match" /\ \A j \in 1 .. i : v[j] # "error"}
    BY <1>3 DEF Scan, ScanOf
  <1>5. DOMAIN SQLRows = {j \in 1 .. Len(heap) : Seen(heap[j])}
    BY Zenon DEF SQLRows, Seen
  <1>6. \A i \in DOMAIN SQLRows : SQLRows[i] = SQLRow(heap[i])
    BY DEF SQLRows
  <1>7. ASSUME NEW i \in 1 .. Len(heap)
        PROVE  v[i] = IF i \in Selected THEN "match" ELSE "skip"
    <2>1. PICK d : d = DecodeTuple(heap[i].data, table)
      OBVIOUS
    <2>2. d.ok /\ RowDenotes(d.values, SQLRow(heap[i]), table)
      BY <2>1, TupleDenoted DEF AllInOrder, Decoded
    <2>3. v[i] = IF ~Seen(heap[i]) THEN "skip"
                 ELSE IF where.node = "nil" THEN "match"
                 ELSE Judge(evalExpr(where, d.values, table))
      <3>1. v[i] = Verdict(heap[i], d, where)
        BY <1>3, <2>1 DEF Verdicts
      <3> QED
        BY <2>2, <3>1 DEF Verdict, Seen
    <2>4. CASE ~Seen(heap[i])
      <3>1. i \notin Selected
        BY <1>5, <2>4 DEF Selected
      <3> QED
        BY <2>3, <2>4, <3>1
    <2>5. CASE Seen(heap[i])
      <3>1. PICK x, y : x = SQLHolds(query, SQLRow(heap[i]), table)
                        /\ y = Means(where, SQLRow(heap[i]), table)
        OBVIOUS
      <3>2. i \in DOMAIN SQLRows /\ SQLRows[i] = SQLRow(heap[i])
        BY <1>5, <1>6, <2>5
      <3>3. x = y
        <4>1. x # "X"
          BY <3>1, <3>2 DEF Judged
        <4>2. x \in {"X", y}
          BY <1>1, <3>1 DEF ReadAsWritten
        <4> QED
          BY <4>1, <4>2
      <3>4. i \in Selected <=> y = "T"
        BY <3>1, <3>2, <3>3 DEF Selected
      <3>5. CASE where = NoWhere
        <4>1. y = "T"
          BY <3>1, <3>5 DEF Means
        <4>2. where.node = "nil"
          BY <3>5 DEF NoWhere
        <4> QED
          BY <2>3, <2>5, <3>4, <4>1, <4>2
      <3>6. CASE where \in Conditions
        <4>1. where.node # "nil"
          <5>1. where \in Exprs[MaxHeight] /\ MaxHeight \in 0 .. MaxHeight
            BY <3>6, HeightAssumption DEF Conditions
          <5> QED
            BY <5>1, Shape, AtomNodes
        <4>2. PICK w : w = evalExpr(where, d.values, table)
          OBVIOUS
        <4>3. y \in TruthValues /\ Agrees(w, y)
          BY <2>2, <3>1, <3>6, <4>2, EvaluatorAgrees
        <4>4. y # "X"
          BY <3>1, <3>2, <3>3 DEF Judged
        <4>5. ~IsErr(w) /\ (IsTrue(w) <=> y = "T")
          BY <4>3, <4>4 DEF Agrees, TruthValues
        <4>6. Judge(w) = IF y = "T" THEN "match" ELSE "skip"
          BY <4>5 DEF Judge
        <4> QED
          BY <2>3, <2>5, <3>4, <4>1, <4>2, <4>6
      <3> QED
        BY <1>2, <3>5, <3>6 DEF WhereOK
    <2> QED
      BY <2>4, <2>5
  <1>8. Selected \subseteq 1 .. Len(heap) /\ \A i \in Selected : Seen(heap[i])
    BY <1>5 DEF Selected
  <1>9. Len(heap) \in Nat
    BY DEF QInv, HeapOK
  <1>10. Scan(where).fails = FALSE
    BY <1>4, <1>7
  <1>11. Scan(where).found = Selected
    <2>1. \A i \in 1 .. Len(heap) : \A j \in 1 .. i : j \in 1 .. Len(heap)
      BY <1>9
    <2>2. \A i \in 1 .. Len(heap) :
            (v[i] = "match" /\ \A j \in 1 .. i : v[j] # "error") <=> i \in Selected
      BY <1>7, <2>1
    <2> QED
      BY <1>4, <1>8, <2>2, Zenon
  <1> QED
    BY <1>1, <1>5, <1>8, <1>10, <1>11

\* The place of the given rank is the place itself.
LEMMA RankPlace ==
    ASSUME NEW N \in Nat, NEW P, P \subseteq 1 .. N, NEW i \in P
    PROVE  Rank(P, i) \in 1 .. Cardinality(P) /\ Nth(P, Rank(P, i)) = i
  <1>1. IsFiniteSet(P)
    <2>1. IsFiniteSet(1 .. N)
      BY FS_Interval
    <2> QED
      BY <2>1, FS_Subset
  <1> DEFINE U(m) == {j \in P : j <= m}
  <1>2. ASSUME NEW m PROVE IsFiniteSet(U(m)) /\ Cardinality(U(m)) <= Cardinality(P)
                           /\ Cardinality(U(m)) \in Nat
    <2>1. U(m) \subseteq P
      OBVIOUS
    <2> QED
      BY <1>1, <2>1, FS_Subset, FS_CardinalityType
  <1>3. Cardinality(U(i)) # 0
    <2>1. i \in U(i)
      OBVIOUS
    <2> QED
      BY <1>2, <2>1, FS_EmptySet
  <1>4. ASSUME NEW a \in P, NEW b \in P, Cardinality(U(a)) = Cardinality(U(b)), a <= b
        PROVE  a = b
    <2>1. U(a) \subseteq U(b)
      <3>1. \A j \in P : j \in Nat
        OBVIOUS
      <3>2. \A j \in P : j <= a => j <= b
        BY <1>4, <3>1
      <3> QED
        BY <3>2, Zenon
    <2>2. U(a) = U(b)
      <3> HIDE DEF U
      <3> QED
        BY <1>2, <1>4, <2>1, FS_Subset
    <2>3. b \in U(b)
      OBVIOUS
    <2>4. b <= a
      BY <2>2, <2>3
    <2> QED
      BY <1>4, <2>4
  <1>5. ASSUME NEW a \in P, Cardinality(U(a)) = Cardinality(U(i)) PROVE a = i
    <2>1. a <= i \/ i <= a
      OBVIOUS
    <2> HIDE DEF U
    <2> QED
      BY <1>4, <1>5, <2>1
  <1>6. Nth(P, Rank(P, i)) = CHOOSE a \in P : Cardinality(U(a)) = Cardinality(U(i))
    BY DEF Nth, Rank
  <1>7. Rank(P, i) = Cardinality(U(i)) /\ Cardinality(P) \in Nat
    BY <1>1, FS_CardinalityType DEF Rank
  <1> HIDE DEF U
  <1> QED
    BY <1>2, <1>3, <1>5, <1>6, <1>7

-----------------------------------------------------------------------------
(***************************************************************************)
(* SELECT answers with the rows SQL selects.                               *)
(***************************************************************************)

\* The result of a SELECT that is not refused.
Selecting(s, r, P, places) ==
    /\ places = IF s.Columns = <<"*">> THEN Everywhere ELSE Indexes(s.Columns)
    /\ r.ok = TRUE /\ r.tag = "SELECT" /\ r.n = Cardinality(P)
    /\ r.columns = [k \in 1 .. Len(places) |-> table[places[k]]]
    /\ r.rows = [k \in 1 .. Cardinality(P) |->
                    [j \in 1 .. Len(places) |-> Decoded(Nth(P, k))[places[j]]]]

\* Such a SELECT takes the rows its scan has found.
LEMMA SelectTakes ==
    ASSUME NEW s, NEW scan, ~scan.fails, s.Columns = <<"*">> \/ AllFound(s.Columns),
           NEW r, r = executeSelect(s, scan),
           NEW places, places = IF s.Columns = <<"*">> THEN Everywhere ELSE Indexes(s.Columns)
    PROVE  Selecting(s, r, scan.found, places)
  <1>1. PICK rows, columns, n :
            /\ n = Cardinality(scan.found)
            /\ columns = [k \in 1 .. Len(places) |-> table[places[k]]]
            /\ rows = [k \in 1 .. Cardinality(scan.found) |->
                        [j \in 1 .. Len(places) |-> Decoded(Nth(scan.found, k))[places[j]]]]
    OBVIOUS
  <1>2. r = [Unchanged EXCEPT !.ok = TRUE, !.tag = "SELECT", !.n = n,
                              !.columns = columns, !.rows = rows]
    BY <1>1, Zenon DEF executeSelect
  <1>3. r.ok = TRUE /\ r.tag = "SELECT" /\ r.n = n /\ r.columns = columns /\ r.rows = rows
    BY <1>2 DEF Unchanged
  <1> QED
    BY <1>1, <1>3, Zenon DEF Selecting

\* A SELECT, refused or not, changes neither table nor file and draws no XID.
LEMMA SelectKeeps ==
    ASSUME NEW s, NEW scan, NEW r, r = executeSelect(s, scan)
    PROVE  r.heap = heap /\ r.table = table /\ r.draws = FALSE
  BY DEF executeSelect, Unchanged

\* The answer of a statement that returns no rows.
LEMMA NoRowsAnswered ==
    ASSUME NEW r, r.ok, r.rows = <<>>, FinishExecution(r)
    PROVE  /\ ~Errored' /\ answer'[1] = CommandComplete(r.tag, r.n)
           /\ {k \in 1 .. Len(answer') : answer'[k].type = "D"} = {}
  <1>1. PICK c : c = CommandComplete(r.tag, r.n) /\ c.type = "C"
    BY MessageTypes, Zenon
  <1>2. PICK z : z = ReadyForQuery(txnStatusByte(connTxn'.State)) /\ z.type = "Z"
    BY MessageTypes, Zenon
  <1>3. answer' = (<<>> \o <<c>>) \o <<z>>
    BY <1>1, <1>2 DEF FinishExecution, RowMessages, Answer
  <1>4. PICK a : a = answer' /\ a = <<c>> \o <<z>>
    <2>1. <<>> \o <<c>> = <<c>>
      OBVIOUS
    <2> QED
      BY <1>3, <2>1
  <1>5. Len(a) = 2 /\ a[1] = c /\ a[2] = z
    <2>1. AreTwo(a, c, z)
      BY <1>4, TwoMessages
    <2> QED
      BY <2>1, Zenon DEF AreTwo
  <1>6. ASSUME NEW k \in 1 .. Len(a) PROVE a[k].type \in {"C", "Z"}
    <2>1. k = 1 \/ k = 2
      BY <1>5
    <2> QED
      BY <1>1, <1>2, <1>5, <2>1
  <1>7. ~Errored'
    BY <1>4, <1>6 DEF Errored
  <1> QED
    BY <1>1, <1>4, <1>5, <1>6, <1>7

\* A SELECT is answered with the texts of the rows SQL selects, in their order.
LEMMA SelectAnswered ==
    ASSUME QInv, ReadAsWritten, AllInOrder, Judged, IsStatement("SELECT"), table # <<>>,
           NEW places, NEW r, Selecting(stmt, r, Selected, places),
           stmt.Columns = <<"*">> \/ AllFound(stmt.Columns), FinishExecution(r)
    PROVE  /\ ~Errored'
           /\ Cardinality({k \in 1 .. Len(answer') : answer'[k].type = "D"}) = Cardinality(Selected)
           /\ \A i \in Selected, j \in 1 .. Len(places) :
                table[places[j]].TypeOID # "bytea" =>
                    answer'[1 + Rank(Selected, i)].values[j] = ExpectedText(SQLRows[i][places[j]])
  <1>1. query # <<>> /\ parsed.ok /\ stmt.stmt = "SELECT" /\ stmt.Columns \in Seq(STRING)
    BY DEF IsStatement, QInv, StatementOK, stmt
  <1>2. PICK P : P = Selected
    OBVIOUS
  <1>3. P \subseteq 1 .. Len(heap) /\ \A i \in P : Seen(heap[i])
    BY <1>1, <1>2, ScanSelects
  <1>4. PICK N \in Nat : N = Len(heap)
    BY DEF QInv, HeapOK
  <1>5. PICK c \in Nat : c = Cardinality(P)
    <2>1. IsFiniteSet(1 .. N)
      BY FS_Interval
    <2> QED
      BY <1>3, <1>4, <2>1, FS_Subset, FS_CardinalityType
  <1>6. PICK M \in Nat : M = Len(places) /\ \A k \in 1 .. M : places[k] \in 1 .. Len(table)
    <2>0. table \in Seq(Columns)
      BY DEF QInv
    <2>1. CASE stmt.Columns = <<"*">>
      <3>1. places = [i \in 1 .. Len(table) |-> i]
        BY <2>1 DEF Everywhere, Selecting
      <3> QED
        BY <2>0, <3>1
    <2>2. CASE stmt.Columns # <<"*">>
      <3>1. PICK L \in Nat : L = Len(stmt.Columns)
        BY <1>1
      <3>2. places = [k \in 1 .. L |-> First(Positions(stmt.Columns[k], table))]
        BY <2>2, <3>1 DEF Indexes, Selecting
      <3>3. ASSUME NEW k \in 1 .. L PROVE First(Positions(stmt.Columns[k], table)) \in 1 .. Len(table)
        BY <2>0, <2>2, <3>1, PositionFound DEF AllFound
      <3> QED
        BY <3>2, <3>3
    <2> QED
      BY <2>1, <2>2
  <1>7. CASE c = 0
    <2>1. r.rows = <<>>
      BY <1>2, <1>5, <1>7 DEF Selecting
    <2>2. ~Errored' /\ {k \in 1 .. Len(answer') : answer'[k].type = "D"} = {}
      BY <2>1, NoRowsAnswered DEF Selecting
    <2>3. P = {}
      <3>0. IsFiniteSet(1 .. N)
        BY FS_Interval
      <3>1. IsFiniteSet(P)
        BY <1>3, <1>4, <3>0, FS_Subset
      <3> QED
        BY <1>5, <1>7, <3>1, FS_EmptySet
    <2>4. Cardinality({}) = 0
      BY FS_EmptySet
    <2> QED
      BY <1>2, <1>5, <1>7, <2>2, <2>3, <2>4
  <1>8. CASE c > 0
    <2>1. PICK rows, columns : rows = r.rows /\ columns = r.columns
      OBVIOUS
    <2>2. /\ columns = [k \in 1 .. M |-> table[places[k]]]
          /\ rows = [k \in 1 .. c |-> [j \in 1 .. M |-> Decoded(Nth(P, k))[places[j]]]]
      BY <1>2, <1>5, <1>6, <2>1 DEF Selecting
    <2>3. Len(rows) = c /\ Len(columns) = M /\ rows # <<>>
      BY <1>8, <2>2
    <2>4. PICK z : z = ReadyForQuery(txnStatusByte(connTxn'.State)) /\ z.type = "Z"
      BY MessageTypes, Zenon
    <2>5. PICK a : /\ a = answer'
                   /\ a = (RowMessages(rows, columns) \o <<CommandComplete("SELECT", c)>>) \o <<z>>
      <3>1. r.ok /\ r.tag = "SELECT" /\ r.n = c
        BY <1>2, <1>5 DEF Selecting
      <3> QED
        BY <2>1, <2>4, <3>1, Zenon DEF FinishExecution, Answer
    <2>6. RowAnswer(a, c, z) /\ RowsListed(a, rows, columns, c)
      BY <1>8, <2>3, <2>4, <2>5, RowsInAnswer
    <2>7. ~Errored'
      BY <2>5, <2>6, Zenon DEF Errored, RowAnswer
    <2>8. Cardinality({k \in 1 .. Len(a) : a[k].type = "D"}) = c
      <3>1. {k \in 1 .. Len(a) : a[k].type = "D"} = 2 .. c + 1
        BY <2>6 DEF RowsListed
      <3>2. Cardinality(2 .. c + 1) = (c + 1) - 2 + 1
        BY <1>8, FS_Interval
      <3>3. (c + 1) - 2 + 1 = c
        OBVIOUS
      <3> QED
        BY <3>1, <3>2, <3>3
    <2>9. ASSUME NEW i \in P, NEW j \in 1 .. M, table[places[j]].TypeOID # "bytea"
          PROVE  a[1 + Rank(P, i)].values[j] = ExpectedText(SQLRows[i][places[j]])
      <3>1. PICK k \in 1 .. c : k = Rank(P, i) /\ Nth(P, k) = i
        BY <1>3, <1>4, <1>5, RankPlace
      <3>2. a[1 + k] = RowMessage(rows[k], columns)
        <4>1. 1 + k = k + 1
          OBVIOUS
        <4> QED
          BY <2>6, <4>1 DEF RowsListed
      <3>3. PICK p \in 1 .. Len(table) : p = places[j]
        BY <1>6
      <3>4. rows[k][j] = Decoded(i)[p] /\ columns[j] = table[p]
        BY <2>2, <3>1, <3>3
      <3>5. a[1 + k].values[j] = IF IsNil(rows[k][j]) THEN NullText
                                 ELSE TextEncode(rows[k][j], columns[j].TypeOID)
        <4>1. a[1 + k].values = [l \in 1 .. Len(columns) |->
                    IF IsNil(rows[k][l]) THEN NullText
                    ELSE TextEncode(rows[k][l], columns[l].TypeOID)]
          BY <3>2 DEF RowMessage, DataRow
        <4> QED
          BY <2>3, <4>1
      <3>6. i \in 1 .. Len(heap) /\ heap[i].inOrder
        BY <1>3 DEF AllInOrder
      <3>7. (IF IsNil(Decoded(i)[p]) THEN NullText ELSE TextEncode(Decoded(i)[p], table[p].TypeOID))
                = ExpectedText(SQLRow(heap[i])[p])
        BY <2>9, <3>3, <3>6, TupleDenoted
      <3>8. SQLRows[i] = SQLRow(heap[i])
        BY <1>2 DEF SQLRows, Selected
      <3> QED
        BY <3>1, <3>3, <3>4, <3>5, <3>7, <3>8
    <2> QED
      BY <1>2, <1>5, <1>6, <2>5, <2>7, <2>8, <2>9
  <1> QED
    BY <1>5, <1>7, <1>8

\* A step that leaves everything SQL speaks of as it is.
Quiet == UNCHANGED <<nextXID, statuses, table, heap, query, parsed>>

\* After such a step SQL says what it has said before.
LEMMA QuietStep ==
    ASSUME Quiet
    PROVE  /\ AllInOrder' <=> AllInOrder
           /\ Judged' <=> Judged
           /\ Selected' = Selected /\ SQLRows' = SQLRows
           /\ stmt' = stmt
  <1>1. stmt' = stmt /\ (AllInOrder' <=> AllInOrder)
    BY DEF Quiet, stmt, AllInOrder
  <1>2. SQLRows' = SQLRows
    BY DEF Quiet, SQLRows, SQLRow, IsVisible, isXIDCommitted, GetStatus, TakeSnapshot
  <1>3. query' = query /\ table' = table
    BY DEF Quiet
  <1> QED
    BY <1>1, <1>2, <1>3 DEF Judged, Selected

\* What SelectsTheTrue says when the answer is a, the columns are at the places,
\* and the rows and those selected are the given ones.
Told(a, places, columns, selected, rows) ==
    /\ \A k \in 1 .. Len(a) : a[k].type # "E"
    /\ Cardinality({k \in 1 .. Len(a) : a[k].type = "D"}) = Cardinality(selected)
    /\ \A i \in selected, j \in 1 .. Len(places) :
        columns[places[j]].TypeOID # "bytea" =>
            a[1 + Rank(selected, i)].values[j] = ExpectedText(rows[i][places[j]])

Asked ==
    /\ IsStatement("SELECT") /\ answer # <<>> /\ table # <<>>
    /\ stmt.Columns = <<"*">> \/ AllFound(stmt.Columns)
    /\ connTxn.State # "Failed" /\ AllInOrder /\ Judged

SelectPlaces == IF stmt.Columns = <<"*">> THEN Everywhere ELSE Indexes(stmt.Columns)

\* SelectsTheTrue in these words, before and after a step.
LEMMA SelectsTold ==
    /\ SelectsTheTrue <=> (Asked => Told(answer, SelectPlaces, table, Selected, SQLRows))
    /\ SelectsTheTrue' <=> (Asked' => Told(answer', SelectPlaces', table', Selected', SQLRows'))
  <1>1. SelectsTheTrue <=> (Asked => Told(answer, SelectPlaces, table, Selected, SQLRows))
    BY DEF SelectsTheTrue, Asked, Told, SelectPlaces, Errored
  <1>2. SelectsTheTrue' <=> (Asked' => Told(answer', SelectPlaces', table', Selected', SQLRows'))
    BY DEF SelectsTheTrue, Asked, Told, SelectPlaces, Errored
  <1> QED
    BY <1>1, <1>2

\* The query a handler has answered is a SELECT only if Execute has run it.
LEMMA SelectsNext ==
    QInv /\ ReadAsWritten /\ SelectsTheTrue /\ [QNext]_qvars => SelectsTheTrue'
  <1> SUFFICES ASSUME QInv, ReadAsWritten, SelectsTheTrue, [QNext]_qvars PROVE SelectsTheTrue'
    OBVIOUS
  <1>1. ASSUME \/ answer' = <<>> \/ ~parsed'.ok \/ query' = <<>>
               \/ stmt'.stmt # "SELECT" \/ connTxn'.State = "Failed" \/ table' = <<>>
        PROVE  SelectsTheTrue'
    <2>1. ~(IsStatement("SELECT")' /\ answer' # <<>> /\ table' # <<>> /\ connTxn'.State # "Failed")
      BY <1>1 DEF IsStatement
    <2> QED
      BY <2>1 DEF SelectsTheTrue
  <1>2. CASE UNCHANGED qvars
    <2>1. Quiet /\ UNCHANGED <<connTxn, answer>>
      BY <1>2 DEF qvars, Quiet
    <2>2. /\ AllInOrder' <=> AllInOrder
          /\ Judged' <=> Judged
          /\ Selected' = Selected /\ SQLRows' = SQLRows /\ stmt' = stmt
      BY <2>1, QuietStep
    <2>3. /\ IsStatement("SELECT")' <=> IsStatement("SELECT")
          /\ Errored' <=> Errored
          /\ AllFound(stmt.Columns)' <=> AllFound(stmt.Columns)
          /\ Everywhere' = Everywhere /\ Indexes(stmt.Columns)' = Indexes(stmt.Columns)
      BY <2>1, <2>2 DEF Quiet, IsStatement, Errored, AllFound, Everywhere, Indexes
    <2>4. table' = table /\ answer' = answer /\ connTxn' = connTxn
      BY <2>1 DEF Quiet
    <2>5. (Asked' <=> Asked) /\ SelectPlaces' = SelectPlaces
      <3>1. (stmt.Columns)' = stmt.Columns
        BY <2>2
      <3> QED
        BY <2>2, <2>3, <2>4, <3>1 DEF Asked, SelectPlaces
    <2> QED
      BY <2>2, <2>4, <2>5, SelectsTold
  <1>3. CASE QNext
    <2>1. ASSUME NEW q \in Queries, ReceiveQuery(q) PROVE SelectsTheTrue'
      BY <1>1, <2>1 DEF ReceiveQuery
    <2>2. ASSUME ParseError PROVE SelectsTheTrue'
      BY <1>1, <2>2 DEF ParseError, Handling
    <2>3. ASSUME RejectFailed PROVE SelectsTheTrue'
      BY <1>1, <2>3 DEF RejectFailed
    <2>4. ASSUME BeginStatement \/ CommitStatement \/ RollbackStatement PROVE SelectsTheTrue'
      <3>1. UNCHANGED parsed /\ stmt.stmt \in {"BEGIN", "COMMIT", "ROLLBACK"}
        BY <2>4 DEF BeginStatement, CommitStatement, RollbackStatement, HandlingStatement, Handling
      <3> QED
        BY <1>1, <3>1 DEF stmt
    <2>5. ASSUME UnsupportedMessage PROVE SelectsTheTrue'
      BY <1>1, <2>5 DEF UnsupportedMessage
    <2>6. ASSUME ClientReads PROVE SelectsTheTrue'
      BY <1>1, <2>6 DEF ClientReads
    <2>7. ASSUME ExecuteStatement PROVE SelectsTheTrue'
      <3>1. UNCHANGED <<query, parsed>> /\ parsed.ok /\ Apply(Execute(stmt)) /\ query # <<>>
        BY <2>7 DEF ExecuteStatement, HandlingStatement, Handling
      <3>2. stmt' = stmt
        BY <3>1 DEF stmt
      <3>3. CASE stmt.stmt = "SELECT" /\ table # <<>>
        <4>1. PICK scan : scan = Scan(stmt.Where)
          OBVIOUS
        <4>2. PICK r : r = executeSelect(stmt, scan) /\ Apply(r)
          <5>1. Execute(stmt) = executeSelect(stmt, scan)
            BY <3>3, <4>1 DEF Execute
          <5> QED
            BY <3>1, <5>1
        <4>3. r.heap = heap /\ r.table = table /\ r.draws = FALSE
          BY <4>2, SelectKeeps
        <4>4. UNCHANGED <<heap, table, nextXID, statuses>> /\ FinishExecution(r)
          BY <4>2, <4>3 DEF Apply
        <4>5. Quiet
          BY <3>1, <4>4 DEF Quiet
        <4>6. /\ AllInOrder' <=> AllInOrder
              /\ Judged' <=> Judged
              /\ Selected' = Selected /\ SQLRows' = SQLRows
          BY <4>5, QuietStep
        <4>7. /\ IsStatement("SELECT")
              /\ AllFound(stmt.Columns)' <=> AllFound(stmt.Columns)
              /\ Everywhere' = Everywhere /\ Indexes(stmt.Columns)' = Indexes(stmt.Columns)
          BY <3>1, <3>2, <3>3, <4>5 DEF Quiet, IsStatement, AllFound, Everywhere, Indexes
        <4>8. PICK places : places = SelectPlaces
          OBVIOUS
        <4>9. ASSUME stmt.Columns = <<"*">> \/ AllFound(stmt.Columns), AllInOrder, Judged
              PROVE  /\ ~Errored'
                     /\ Cardinality({k \in 1 .. Len(answer') : answer'[k].type = "D"})
                            = Cardinality(Selected)
                     /\ \A i \in Selected, j \in 1 .. Len(places) :
                            table[places[j]].TypeOID # "bytea" =>
                                answer'[1 + Rank(Selected, i)].values[j]
                                    = ExpectedText(SQLRows[i][places[j]])
          <5>1. ~scan.fails /\ scan.found = Selected
            BY <3>1, <3>3, <4>1, <4>9, ScanSelects
          <5>2. Selecting(stmt, r, Selected, places)
            BY <4>2, <4>8, <4>9, <5>1, SelectTakes DEF SelectPlaces
          <5> QED
            BY <3>3, <4>4, <4>7, <4>9, <5>2, SelectAnswered
        <4>10. table' = table
          BY <4>4
        <4>11. SelectPlaces' = SelectPlaces
          BY <3>2, <4>7 DEF SelectPlaces
        <4>12. ASSUME Asked' PROVE Told(answer', places, table, Selected, SQLRows)
          <5>1. (stmt.Columns = <<"*">> \/ AllFound(stmt.Columns)) /\ AllInOrder /\ Judged
            BY <3>2, <4>6, <4>7, <4>12 DEF Asked
          <5> QED
            BY <4>9, <5>1 DEF Told, Errored
        <4> QED
          BY <4>6, <4>8, <4>10, <4>11, <4>12, SelectsTold
      <3>4. CASE stmt.stmt # "SELECT"
        BY <1>1, <3>2, <3>4
      <3>5. CASE stmt.stmt = "SELECT" /\ table = <<>>
        <4>1. PICK r : r = Unchanged /\ Apply(r)
          <5>1. Execute(stmt) = Unchanged
            BY <3>5 DEF Execute
          <5> QED
            BY <3>1, <5>1
        <4>2. r.table = table
          BY <4>1 DEF Unchanged
        <4>3. table' = table
          BY <4>1, <4>2 DEF Apply
        <4> QED
          BY <1>1, <3>5, <4>3
      <3> QED
        BY <3>3, <3>4, <3>5
    <2>8. ASSUME InsertTupleFails PROVE SelectsTheTrue'
      <3>1. UNCHANGED parsed /\ stmt.stmt \in {"INSERT", "UPDATE"}
        BY <2>8 DEF InsertTupleFails, HandlingStatement, Handling
      <3> QED
        BY <1>1, <3>1 DEF stmt
    <2> QED
      BY <1>3, <2>1, <2>2, <2>3, <2>4, <2>5, <2>6, <2>7, <2>8 DEF QNext
  <1> QED
    BY <1>2, <1>3

\* The answer to a SELECT is exactly the rows SQL selects, for every table, every
\* file and conditions of every height, if the parser reads conditions as they
\* are written (ReadAsWritten): narrowing, encoding, decoding, evaluation and
\* the text of values together lose nothing, although the evaluator has no
\* unknown and compares numbers as float64.
THEOREM SelectFindsTheTrue == QSpec /\ []ReadAsWritten => []SelectsTheTrue
  <1>1. QInit => SelectsTheTrue
    BY DEF QInit, SelectsTheTrue
  <1> QED
    BY <1>1, QueryInvariant, SelectsNext, PTL DEF QSpec

-----------------------------------------------------------------------------
(***************************************************************************)
(* What a statement changes, in SQL's terms.                               *)
(***************************************************************************)

\* A statement that fails is answered with an error.
LEMMA RefusedErrs ==
    ASSUME NEW r, ~r.ok, FinishExecution(r)
    PROVE  Errored'
  <1>1. PICK z : z = ReadyForQuery(txnStatusByte(connTxn'.State))
    OBVIOUS
  <1>2. PICK a : a = answer' /\ a = <<ErrorResponse>> \o <<z>>
    BY <1>1 DEF FinishExecution, Answer
  <1>3. AreTwo(a, ErrorResponse, z)
    BY <1>2, TwoMessages
  <1>4. Len(a) = 2 /\ a[1].type = "E"
    BY <1>3, MessageTypes DEF AreTwo
  <1>5. 1 \in 1 .. Len(a)
    BY <1>4
  <1> QED
    BY <1>2, <1>4, <1>5, Zenon DEF Errored

\* An autocommit statement that succeeds commits its own XID, a new one.
LEMMA Autocommitted ==
    ASSUME QInv, connTxn.State = "Idle", NEW r, Apply(r), r.draws = TRUE, r.end = Committed
    PROVE  /\ CommittedXIDs' = CommittedXIDs \cup {XID}
           /\ XID # 0 /\ XID \notin CommittedXIDs
           /\ \A i \in 1 .. Len(heap) : heap[i].xmin # XID /\ heap[i].xmax # XID
  <1>1. connTxn.XID = 0 /\ nextXID \in Nat /\ HeapOK(heap, table, nextXID)
    BY DEF QInv, ConnOK, StatusesOK
  <1>2. PICK x : x = XID /\ x = nextXID + 1
    BY <1>1 DEF XID, NextXID
  <1>3. x # 0 /\ x \notin DOMAIN statuses
    BY <1>1, <1>2 DEF QInv, StatusesOK
  <1>4. ASSUME NEW i \in 1 .. Len(heap) PROVE heap[i].xmin # x /\ heap[i].xmax # x
    <2>1. heap[i].xmin \in 1 .. nextXID /\ heap[i].xmax \in 0 .. nextXID
      BY <1>1 DEF HeapOK, TupleOK
    <2> QED
      BY <1>1, <1>2, <2>1
  <1>5. PICK f, g : /\ f = statuses /\ g = statuses'
                    /\ g = [y \in DOMAIN f \cup {x} |-> IF y = x THEN Committed ELSE f[y]]
    <2>1. SetStatus(x, Committed)
      BY <1>1, <1>2 DEF Apply, NextXID, InProgress, Committed
    <2> QED
      BY <2>1 DEF SetStatus
  <1>6. {y \in DOMAIN g : g[y] = Committed} = {y \in DOMAIN f : f[y] = Committed} \cup {x}
    BY <1>3, <1>5
  <1> QED
    BY <1>2, <1>3, <1>4, <1>5, <1>6 DEF CommittedXIDs

\* The file in which the tuples at P have been marked and new ones appended.
Rewrites(h, P) ==
    /\ Len(h) \in Nat /\ Len(heap) <= Len(h)
    /\ P \subseteq 1 .. Len(heap)
    /\ Marked(h, P)
    /\ \A i \in Len(heap) + 1 .. Len(h) : h[i].xmin = XID /\ h[i].xmax = 0

\* Once it has committed, a statement's new tuples are seen, those it has marked
\* are not, and the others are seen as before.
LEMMA RowsAfter ==
    ASSUME QInv, QInv', table' = table, NEW P, Rewrites(heap', P),
           CommittedXIDs' = CommittedXIDs \cup {XID}, XID # 0, XID \notin CommittedXIDs,
           \A i \in 1 .. Len(heap) : heap[i].xmin # XID /\ heap[i].xmax # XID
    PROVE  /\ DOMAIN SQLRows' = (DOMAIN SQLRows \ P) \cup (Len(heap) + 1 .. Len(heap'))
           /\ \A i \in DOMAIN SQLRows \ P : SQLRows'[i] = SQLRows[i]
           /\ \A i \in Len(heap) + 1 .. Len(heap') :
                SQLRows'[i] = [k \in 1 .. Len(table) |->
                                    StoredValue(heap'[i].want[k], table[k].TypeOID)]
  <1>1. ShownAreSeen /\ ShownAreSeen'
    <2>1. QInv' => ShownAreSeen'
      BY SeenByOutcomes, PTL
    <2> QED
      BY <2>1, SeenByOutcomes
  <1>2. PICK h : h = heap'
    OBVIOUS
  <1>3. PICK N \in Nat, M \in Nat : N = Len(heap) /\ M = Len(h) /\ N <= M
    BY <1>2 DEF Rewrites, QInv, HeapOK
  <1>4. PICK x : x = XID
    OBVIOUS
  <1>5. PICK C : C = CommittedXIDs /\ x \notin C /\ CommittedXIDs' = C \cup {x} /\ x # 0
    BY <1>4
  <1>6. ASSUME NEW i \in 1 .. M
        PROVE  Seen(heap[i])' <=> (/\ h[i].xmin \in C \cup {x}
                                  /\ (h[i].xmax = 0 \/ h[i].xmax \notin C \cup {x}))
    <2>1. Seen(heap[i])' <=> Shown(heap[i])'
      BY <1>1, <1>2, <1>3 DEF ShownAreSeen
    <2> QED
      BY <1>2, <1>5, <2>1 DEF Shown
  <1>7. ASSUME NEW i \in 1 .. N
        PROVE  /\ Seen(heap[i])' <=> (Seen(heap[i]) /\ i \notin P)
               /\ h[i].want = heap[i].want
    <2>1. /\ h[i].xmin = heap[i].xmin /\ h[i].want = heap[i].want
          /\ h[i].xmax = IF i \in P THEN x ELSE heap[i].xmax
      BY <1>2, <1>3, <1>4 DEF Rewrites, Marked
    <2>2. Seen(heap[i]) <=> (/\ heap[i].xmin \in C
                             /\ (heap[i].xmax = 0 \/ heap[i].xmax \notin C))
      BY <1>1, <1>3, <1>5 DEF ShownAreSeen, Shown
    <2>3. heap[i].xmin # x /\ heap[i].xmax # x /\ i \in 1 .. M
      BY <1>3, <1>4
    <2>4. CASE i \in P
      BY <1>5, <1>6, <2>1, <2>3, <2>4, Zenon
    <2>5. CASE i \notin P
      BY <1>5, <1>6, <2>1, <2>2, <2>3, <2>5, Zenon
    <2> QED
      BY <2>1, <2>4, <2>5
  <1>8. ASSUME NEW i \in N + 1 .. M PROVE Seen(heap[i])'
    <2>1. h[i].xmin = x /\ h[i].xmax = 0 /\ i \in 1 .. M
      BY <1>2, <1>3, <1>4 DEF Rewrites
    <2> QED
      BY <1>6, <2>1, Zenon
  <1>9. PICK V, W : /\ V = {j \in 1 .. N : Seen(heap[j])}
                    /\ W = {j \in 1 .. M : Seen(heap[j])'}
    OBVIOUS
  <1>10. W = (V \ P) \cup (N + 1 .. M)
    <2>1. ASSUME NEW j \in 1 .. M PROVE j \in W <=> j \in (V \ P) \cup (N + 1 .. M)
      <3>1. CASE j \in N + 1 .. M
        BY <1>8, <1>9, <3>1
      <3>2. CASE j \notin N + 1 .. M
        <4>1. j \in 1 .. N
          BY <1>3, <3>2
        <4> QED
          BY <1>7, <1>9, <3>2, <4>1
      <3> QED
        BY <3>1, <3>2
    <2>2. W \subseteq 1 .. M /\ (V \ P) \cup (N + 1 .. M) \subseteq 1 .. M
      BY <1>3, <1>9
    <2> QED
      BY <2>1, <2>2, Zenon
  <1>11. SQLRows = [i \in V |-> SQLRow(heap[i])]
    BY <1>3, <1>9, Zenon DEF SQLRows, Seen
  <1>12. SQLRows' = [i \in W |-> [k \in 1 .. Len(table) |->
                                        StoredValue(h[i].want[k], table[k].TypeOID)]]
    BY <1>2, <1>3, <1>9, Zenon DEF SQLRows, Seen, SQLRow
  <1>13. DOMAIN SQLRows = V /\ DOMAIN SQLRows' = W
    BY <1>11, <1>12, Zenon
  <1>14. ASSUME NEW i \in V \ P PROVE SQLRows'[i] = SQLRows[i]
    <2>1. i \in 1 .. N /\ i \in W
      BY <1>9, <1>10
    <2>2. h[i].want = heap[i].want
      BY <1>7, <2>1
    <2> QED
      BY <1>11, <1>12, <2>1, <2>2 DEF SQLRow
  <1>15. ASSUME NEW i \in N + 1 .. M
         PROVE  SQLRows'[i] = [k \in 1 .. Len(table) |->
                                    StoredValue(heap'[i].want[k], table[k].TypeOID)]
    BY <1>2, <1>10, <1>12
  <1> QED
    BY <1>2, <1>3, <1>10, <1>13, <1>14, <1>15

\* If every tuple of the file a statement leaves is in order, so was every tuple
\* of the file it found.
LEMMA InOrderBefore ==
    ASSUME QInv, NEW P, Rewrites(heap', P), AllInOrder'
    PROVE  AllInOrder
  <1>1. PICK h : h = heap'
    OBVIOUS
  <1>2. Len(heap) \in Nat /\ Len(h) \in Nat /\ Len(heap) <= Len(h)
    BY <1>1 DEF Rewrites, QInv, HeapOK
  <1>3. ASSUME NEW i \in 1 .. Len(heap) PROVE heap[i].inOrder
    <2>1. i \in 1 .. Len(h) /\ h[i].inOrder = heap[i].inOrder
      BY <1>1, <1>2 DEF Rewrites, Marked
    <2> QED
      BY <1>1, <2>1 DEF AllInOrder
  <1> QED
    BY <1>3 DEF AllInOrder

\* DELETE removes the rows SQL selects, and counts them.
LEMMA DeleteActs ==
    ASSUME QInv, QInv', ReadAsWritten, IsStatement("DELETE"), connTxn.State = "Idle",
           AllInOrder', Judged, NEW r, r = executeDelete(stmt, Scan(stmt.Where)), Apply(r)
    PROVE  /\ Leaves(DOMAIN SQLRows \ Selected, {})
           /\ answer'[1].n = Cardinality(Selected)
  <1>1. PICK scan : scan = Scan(stmt.Where)
    OBVIOUS
  <1>2. PICK P : P = scan.found /\ P \subseteq 1 .. Len(heap)
    BY <1>1, ScanFinds
  <1>3. /\ r.ok = (~scan.fails) /\ r.heap = Marking(P) /\ r.table = table /\ r.draws = TRUE
        /\ r.end = IF scan.fails THEN InProgress ELSE Committed
        /\ r.rows = <<>> /\ r.tag = "DELETE" /\ r.n = Cardinality(P)
    BY <1>1, <1>2 DEF executeDelete, Unchanged
  <1>4. heap' = Marking(P) /\ table' = table /\ FinishExecution(r)
    BY <1>3 DEF Apply
  <1>5. PICK N \in Nat : N = Len(heap)
    BY DEF QInv, HeapOK
  <1>6. Rewrites(heap', P) /\ Len(heap') = N
    <2>1. Len(heap') = N /\ Marked(heap', P)
      BY <1>2, <1>4, <1>5, FileMarked
    <2> QED
      BY <1>2, <1>5, <2>1 DEF Rewrites
  <1>7. AllInOrder
    BY <1>6, InOrderBefore
  <1>8. scan.fails = FALSE /\ P = Selected
    BY <1>1, <1>2, <1>7, ScanSelects DEF IsStatement
  <1>9. r.ok /\ r.end = Committed
    BY <1>3, <1>8
  <1>10. /\ CommittedXIDs' = CommittedXIDs \cup {XID}
         /\ XID # 0 /\ XID \notin CommittedXIDs
         /\ \A i \in 1 .. Len(heap) : heap[i].xmin # XID /\ heap[i].xmax # XID
    BY <1>3, <1>9, Autocommitted
  <1>11. /\ DOMAIN SQLRows' = (DOMAIN SQLRows \ P) \cup (N + 1 .. N)
         /\ \A i \in DOMAIN SQLRows \ P : SQLRows'[i] = SQLRows[i]
    BY <1>4, <1>5, <1>6, <1>10, RowsAfter
  <1>12. N + 1 .. N = {}
    BY <1>5
  <1>13. answer'[1].n = Cardinality(P)
    <2>1. answer'[1] = CommandComplete("DELETE", Cardinality(P))
      BY <1>3, <1>4, <1>9, NoRowsAnswered
    <2> QED
      BY <2>1 DEF CommandComplete
  <1> QED
    BY <1>8, <1>11, <1>12, <1>13 DEF Leaves

\* INSERT adds one row, of the values it gives, none of them NULL where the
\* column does not take it.
LEMMA InsertActs ==
    ASSUME QInv, QInv', StatementOK(stmt), stmt.stmt = "INSERT", connTxn.State = "Idle",
           AllInOrder', ~Errored', NEW r, r = executeInsert(stmt), Apply(r),
           NEW inserted,
           inserted = [i \in 1 .. Len(table) |-> StoredValue(stmt.Values[i], table[i].TypeOID)]
    PROVE  /\ Leaves(DOMAIN SQLRows, {Len(heap) + 1}) /\ answer'[1].n = 1
           /\ SQLRows'[Len(heap) + 1] = inserted
           /\ \A i \in 1 .. Len(table) : table[i].NotNull => inserted[i] # SQLNull
  <1>0. \A k \in 1 .. Len(stmt.Values) : ExprOK(stmt.Values[k])
    BY DEF StatementOK
  <1>1. r.ok
    BY RefusedErrs DEF Apply
  <1>2. r # Unchanged
    <2>1. Unchanged.ok = FALSE
      BY DEF Unchanged
    <2> QED
      BY <1>1, <2>1
  <1>3. PICK places, columns, values, want : Inserts(stmt, r, places, columns, values, want)
    BY <1>0, <1>2, InsertTakes
  <1>4. PICK t : t = NewTuple(XID, values, columns, places = Everywhere, want)
    OBVIOUS
  <1>5. /\ r.heap = Append(heap, t) /\ r.table = table /\ r.draws = TRUE /\ r.end = Committed
        /\ r.rows = <<>> /\ r.tag = "INSERT" /\ r.n = 1
    BY <1>3, <1>4 DEF Inserts, Unchanged
  <1>6. PICK h : /\ h = heap' /\ Len(heap) \in Nat
                 /\ Len(h) = Len(heap) + 1 /\ h[Len(heap) + 1] = t
                 /\ \A i \in 1 .. Len(heap) : h[i] = heap[i]
    <2>1. heap' = Append(heap, t) /\ heap \in Seq(Tuples)
      BY <1>5 DEF Apply, QInv, HeapOK
    <2>2. stmt.Columns \in Seq(STRING)
      BY DEF StatementOK
    <2>3. TupleOK(t, table, Last)
      BY <1>3, <1>4, <2>2, TupleInserted DEF Inserts
    <2>4. PICK h : h = Append(heap, t) /\ t \in Tuples
      BY <2>3 DEF TupleOK
    <2>5. /\ Len(heap) \in Nat /\ Len(h) = Len(heap) + 1 /\ h[Len(heap) + 1] = t
          /\ \A i \in 1 .. Len(heap) : h[i] = heap[i]
      BY <2>1, <2>4
    <2>6. h = heap'
      BY <2>1, <2>4
    <2> QED
      BY <2>5, <2>6, Zenon
  <1>7. t.xmin = XID /\ t.xmax = 0 /\ t.want = want /\ t.inOrder = (places = Everywhere)
    BY <1>4 DEF NewTuple
  <1>8. places = Everywhere
    <2>1. Len(heap) + 1 \in 1 .. Len(h)
      BY <1>6
    <2>2. h[Len(heap) + 1].inOrder
      BY <1>6, <2>1 DEF AllInOrder
    <2> QED
      BY <1>6, <1>7, <2>2
  <1>9. Rewrites(heap', {}) /\ Len(heap') = Len(heap) + 1
    <2>1. ASSUME NEW i \in Len(heap) + 1 .. Len(h) PROVE h[i].xmin = XID /\ h[i].xmax = 0
      <3>1. i = Len(heap) + 1
        BY <1>6
      <3> QED
        BY <1>6, <1>7, <3>1
    <2> QED
      BY <1>6, <2>1 DEF Rewrites, Marked
  <1>10. /\ CommittedXIDs' = CommittedXIDs \cup {XID}
         /\ XID # 0 /\ XID \notin CommittedXIDs
         /\ \A i \in 1 .. Len(heap) : heap[i].xmin # XID /\ heap[i].xmax # XID
    BY <1>5, Autocommitted
  <1>11. /\ DOMAIN SQLRows' = (DOMAIN SQLRows \ {}) \cup (Len(heap) + 1 .. Len(heap) + 1)
         /\ \A i \in DOMAIN SQLRows \ {} : SQLRows'[i] = SQLRows[i]
         /\ \A i \in Len(heap) + 1 .. Len(heap) + 1 :
                SQLRows'[i] = [k \in 1 .. Len(table) |->
                                    StoredValue(heap'[i].want[k], table[k].TypeOID)]
    <2>1. table' = table
      BY <1>5 DEF Apply
    <2> QED
      BY <1>6, <1>9, <1>10, <2>1, RowsAfter
  <1>12. Len(heap) + 1 .. Len(heap) + 1 = {Len(heap) + 1}
    BY <1>6
  <1>13. /\ Len(places) = Len(table) /\ columns = table
         /\ \A k \in 1 .. Len(table) : want[k] = stmt.Values[k]
    BY <1>3, <1>8, InsertsInOrder DEF Inserts
  <1>14. SQLRows'[Len(heap) + 1] = inserted
    <2>1. SQLRows'[Len(heap) + 1] = [k \in 1 .. Len(table) |-> StoredValue(want[k], table[k].TypeOID)]
      BY <1>6, <1>7, <1>11, <1>12
    <2> QED
      BY <1>13, <2>1
  <1>15. ASSUME NEW i \in 1 .. Len(table), table[i].NotNull PROVE inserted[i] # SQLNull
    <2>1. /\ values[i] = evalLiteral(stmt.Values[i], table[i]) /\ ~IsErr(values[i])
          /\ ~(IsNil(values[i]) /\ table[i].NotNull) /\ ExprOK(stmt.Values[i])
      BY <1>3, <1>13 DEF Inserts, Inserting
    <2>2. table[i] \in Columns
      BY DEF QInv
    <2>3. StoredValue(stmt.Values[i], table[i].TypeOID) = SQLNull => IsNil(values[i])
      BY <2>1, <2>2, LiteralDenoted
    <2> QED
      BY <1>15, <2>1, <2>3
  <1>16. answer'[1].n = 1
    <2>1. answer'[1] = CommandComplete("INSERT", 1)
      BY <1>1, <1>5, NoRowsAnswered DEF Apply
    <2> QED
      BY <2>1 DEF CommandComplete
  <1> QED
    BY <1>6, <1>11, <1>12, <1>14, <1>15, <1>16 DEF Leaves

\* What an UPDATE that succeeds returns: the file with the tuples at P marked and
\* a new version of each appended.
Updates(s, r, P) ==
    LET N == Len(heap)
        c == Cardinality(P)
    IN  /\ r.table = table /\ r.draws = TRUE /\ r.end = Committed
        /\ r.rows = <<>> /\ r.tag = "UPDATE" /\ r.n = c
        /\ Len(r.heap) = N + c
        /\ \A i \in 1 .. N : r.heap[i] = Marking(P)[i]
        /\ \A k \in 1 .. c :
            /\ r.heap[N + k].xmin = XID /\ r.heap[N + k].xmax = 0
            /\ r.heap[N + k].want = SetWanted(heap[Nth(P, k)].want, s.SetClauses)

\* UPDATE fails or does this.
LEMMA UpdateTakes ==
    ASSUME QInv, NEW s, NEW scan, NEW P, P = scan.found, P \subseteq 1 .. Len(heap),
           Cardinality(P) \in Nat, NEW r, r = executeUpdate(s, scan), r.ok
    PROVE  Updates(s, r, P)
  <1>1. PICK N \in Nat, c \in Nat : N = Len(heap) /\ c = Cardinality(P)
    BY DEF QInv, HeapOK
  <1>2. PICK clauses : clauses = s.SetClauses
    OBVIOUS
  <1> DEFINE bad == \E k \in 1 .. Len(clauses) :
                        LET at == Positions(clauses[k].Column, table)
                        IN  \/ at = {}
                            \/ IsErr(evalLiteral(clauses[k].Value, table[First(at)]))
             new(i) == NewTuple(XID, SetValues(Decoded(i), clauses), table, heap[i].inOrder,
                                SetWanted(heap[i].want, clauses))
             failed == [Unchanged EXCEPT !.heap = Marking({First(P)}), !.draws = TRUE,
                                         !.end = Aborted]
  <1>3. PICK m, v : m = Marking(P) /\ v = [k \in 1 .. c |-> new(Nth(P, k))]
    OBVIOUS
  <1>4. r = IF bad /\ P # {} THEN failed
            ELSE [Unchanged EXCEPT !.ok = ~scan.fails, !.draws = TRUE,
                    !.end = IF scan.fails THEN InProgress ELSE Committed,
                    !.heap = m \o v, !.tag = "UPDATE", !.n = c]
    <2>1. r = IF bad /\ P # {} THEN failed
              ELSE [Unchanged EXCEPT !.ok = ~scan.fails, !.draws = TRUE,
                    !.end = IF scan.fails THEN InProgress ELSE Committed,
                    !.heap = Marking(P) \o [k \in 1 .. Cardinality(P) |-> new(Nth(P, k))],
                    !.tag = "UPDATE", !.n = Cardinality(P)]
      BY <1>2, Zenon DEF executeUpdate, NewTuple
    <2> QED
      BY <1>1, <1>3, <2>1
  <1>5. failed.ok = FALSE
    BY DEF Unchanged
  <1> HIDE DEF bad, failed
  <1>6. r = [Unchanged EXCEPT !.ok = ~scan.fails, !.draws = TRUE,
                    !.end = IF scan.fails THEN InProgress ELSE Committed,
                    !.heap = m \o v, !.tag = "UPDATE", !.n = c]
    BY <1>4, <1>5
  <1>7. /\ r.ok = (~scan.fails) /\ r.heap = m \o v /\ r.table = table /\ r.draws = TRUE
        /\ r.end = IF scan.fails THEN InProgress ELSE Committed
        /\ r.rows = <<>> /\ r.tag = "UPDATE" /\ r.n = c
    BY <1>6 DEF Unchanged
  <1>8. r.end = Committed
    BY <1>7
  <1>9. PICK S : S = {m[i] : i \in 1 .. N} \cup {v[k] : k \in 1 .. c}
    OBVIOUS
  <1>10. m \in Seq(S) /\ Len(m) = N
    <2>1. m = [i \in 1 .. N |-> IF i \in P THEN [heap[i] EXCEPT !.xmax = XID] ELSE heap[i]]
      BY <1>1, <1>3 DEF Marking
    <2>2. m = [i \in 1 .. N |-> m[i]]
      BY <2>1, Zenon
    <2>3. m \in [1 .. N -> S]
      BY <1>9, <2>2
    <2> QED
      BY <2>3
  <1>11. v \in Seq(S) /\ Len(v) = c
    <2>1. v = [k \in 1 .. c |-> v[k]]
      BY <1>3, Zenon
    <2>2. v \in [1 .. c -> S]
      BY <1>9, <2>1
    <2> QED
      BY <2>2
  <1>12. Joined(r.heap, m, v)
    BY <1>7, <1>10, <1>11, Joining
  <1>13. ASSUME NEW k \in 1 .. c
         PROVE  /\ r.heap[N + k].xmin = XID /\ r.heap[N + k].xmax = 0
                /\ r.heap[N + k].want = SetWanted(heap[Nth(P, k)].want, clauses)
    <2>1. r.heap[N + k] = v[k]
      BY <1>10, <1>11, <1>12 DEF Joined
    <2>2. v[k] = new(Nth(P, k))
      BY <1>3
    <2> QED
      BY <2>1, <2>2 DEF NewTuple
  <1>14. Len(r.heap) = N + c /\ \A i \in 1 .. N : r.heap[i] = m[i]
    BY <1>10, <1>11, <1>12 DEF Joined
  <1> HIDE DEF new
  <1> QED
    BY <1>1, <1>2, <1>3, <1>7, <1>8, <1>13, <1>14 DEF Updates

\* What the columns of a new version were given is what SQL says they are set to.
LEMMA SetRow ==
    ASSUME NEW i, NEW clauses
    PROVE  [k \in 1 .. Len(table) |->
                StoredValue(SetWanted(heap[i].want, clauses)[k], table[k].TypeOID)]
              = SQLSet(SQLRow(heap[i]), clauses)
  <1>1. PICK row, set, wanted : /\ row = SQLRow(heap[i]) /\ set = SQLSet(row, clauses)
                                /\ wanted = SetWanted(heap[i].want, clauses)
    OBVIOUS
  <1>2. ASSUME NEW k \in 1 .. Len(table)
        PROVE  StoredValue(wanted[k], table[k].TypeOID) = set[k]
    <2>1. row[k] = StoredValue(heap[i].want[k], table[k].TypeOID)
      BY <1>1 DEF SQLRow
    <2>2. wanted[k] = IF SetBy(clauses, k) = {} THEN heap[i].want[k]
                      ELSE clauses[Max(SetBy(clauses, k))].Value
      BY <1>1 DEF SetWanted
    <2>3. set[k] = IF SetBy(clauses, k) = {} THEN row[k]
                   ELSE StoredValue(clauses[Max(SetBy(clauses, k))].Value, table[k].TypeOID)
      BY <1>1 DEF SQLSet
    <2> QED
      BY <2>1, <2>2, <2>3
  <1>3. set = [k \in 1 .. Len(table) |-> set[k]]
    BY <1>1, Zenon DEF SQLSet
  <1> QED
    BY <1>1, <1>2, <1>3

\* UPDATE replaces the rows SQL selects by what they are set to, and counts them.
LEMMA UpdateActs ==
    ASSUME QInv, QInv', ReadAsWritten, IsStatement("UPDATE"), connTxn.State = "Idle",
           AllInOrder', Judged, ~Errored',
           NEW r, r = executeUpdate(stmt, Scan(stmt.Where)), Apply(r)
    PROVE  /\ Leaves(DOMAIN SQLRows \ Selected,
                     Len(heap) + 1 .. Len(heap) + Cardinality(Selected))
           /\ \A i \in Selected :
                SQLRows'[Len(heap) + Rank(Selected, i)] = SQLSet(SQLRows[i], stmt.SetClauses)
           /\ answer'[1].n = Cardinality(Selected)
  <1>1. PICK scan : scan = Scan(stmt.Where)
    OBVIOUS
  <1>2. PICK P : P = scan.found /\ P \subseteq 1 .. Len(heap) /\ Cardinality(P) \in Nat
    BY <1>1, ScanFinds
  <1>3. r.ok /\ FinishExecution(r)
    BY RefusedErrs DEF Apply
  <1>4. Updates(stmt, r, P)
    BY <1>1, <1>2, <1>3, UpdateTakes
  <1>h. PICK h : h = heap' /\ h = r.heap
    BY DEF Apply
  <1>5. PICK N \in Nat, c \in Nat : N = Len(heap) /\ c = Cardinality(P) /\ h = heap' /\ h = r.heap
    BY <1>2, <1>h DEF QInv, HeapOK
  <1>6. /\ Len(h) = N + c
        /\ \A i \in 1 .. N : h[i] = Marking(P)[i]
        /\ \A k \in 1 .. c :
            /\ h[N + k].xmin = XID /\ h[N + k].xmax = 0
            /\ h[N + k].want = SetWanted(heap[Nth(P, k)].want, stmt.SetClauses)
    BY <1>4, <1>5 DEF Updates
  <1>7. Rewrites(heap', P)
    <2>1. Marked(Marking(P), P)
      BY <1>2, FileMarked
    <2>2. Marked(h, P)
      BY <1>5, <1>6, <2>1 DEF Marked
    <2>3. ASSUME NEW i \in N + 1 .. Len(h) PROVE h[i].xmin = XID /\ h[i].xmax = 0
      <3>1. PICK k \in 1 .. c : i = N + k
        <4>1. i - N \in 1 .. c /\ i = N + (i - N)
          BY <1>6
        <4> QED
          BY <4>1
      <3> QED
        BY <1>6, <3>1
    <2> QED
      BY <1>2, <1>5, <1>6, <2>2, <2>3 DEF Rewrites
  <1>8. AllInOrder
    BY <1>7, InOrderBefore
  <1>9. P = Selected /\ DOMAIN SQLRows = {j \in 1 .. N : Seen(heap[j])} /\ \A i \in P : Seen(heap[i])
    BY <1>1, <1>2, <1>5, <1>8, ScanSelects DEF IsStatement
  <1>10. r.table = table /\ r.draws = TRUE /\ r.end = Committed
    BY <1>4 DEF Updates
  <1>11. /\ CommittedXIDs' = CommittedXIDs \cup {XID}
         /\ XID # 0 /\ XID \notin CommittedXIDs
         /\ \A i \in 1 .. Len(heap) : heap[i].xmin # XID /\ heap[i].xmax # XID
    BY <1>10, Autocommitted
  <1>12. /\ DOMAIN SQLRows' = (DOMAIN SQLRows \ P) \cup (N + 1 .. N + c)
         /\ \A i \in DOMAIN SQLRows \ P : SQLRows'[i] = SQLRows[i]
         /\ \A i \in N + 1 .. N + c :
                SQLRows'[i] = [k \in 1 .. Len(table) |->
                                    StoredValue(heap'[i].want[k], table[k].TypeOID)]
    <2>1. table' = table
      BY <1>10 DEF Apply
    <2>2. Len(heap') = N + c
      BY <1>5, <1>6
    <2>3. /\ DOMAIN SQLRows' = (DOMAIN SQLRows \ P) \cup (Len(heap) + 1 .. Len(heap'))
          /\ \A i \in DOMAIN SQLRows \ P : SQLRows'[i] = SQLRows[i]
          /\ \A i \in Len(heap) + 1 .. Len(heap') :
                SQLRows'[i] = [k \in 1 .. Len(table) |->
                                    StoredValue(heap'[i].want[k], table[k].TypeOID)]
      BY <1>7, <1>11, <2>1, RowsAfter
    <2> QED
      BY <1>5, <2>2, <2>3
  <1>13. ASSUME NEW i \in P
         PROVE  SQLRows'[N + Rank(P, i)] = SQLSet(SQLRows[i], stmt.SetClauses)
    <2>1. PICK k \in 1 .. c : k = Rank(P, i) /\ Nth(P, k) = i
      BY <1>2, <1>5, RankPlace
    <2>2. N + k \in N + 1 .. N + c
      OBVIOUS
    <2>3. h[N + k].want = SetWanted(heap[i].want, stmt.SetClauses)
      BY <1>6, <2>1
    <2>4. SQLRows'[N + k] = [j \in 1 .. Len(table) |->
                StoredValue(SetWanted(heap[i].want, stmt.SetClauses)[j], table[j].TypeOID)]
      <3>1. heap'[N + k].want = SetWanted(heap[i].want, stmt.SetClauses)
        BY <1>5, <2>3
      <3> QED
        BY <1>12, <2>2, <3>1
    <2>5. SQLRows[i] = SQLRow(heap[i])
      <3>1. i \in DOMAIN SQLRows
        BY <1>2, <1>5, <1>9
      <3> QED
        BY <3>1 DEF SQLRows
    <2> QED
      BY <2>1, <2>4, <2>5, SetRow
  <1>14. answer'[1].n = c
    <2>1. r.rows = <<>> /\ r.tag = "UPDATE" /\ r.n = c
      BY <1>4, <1>5 DEF Updates
    <2>2. answer'[1] = CommandComplete("UPDATE", c)
      BY <1>3, <2>1, NoRowsAnswered
    <2> QED
      BY <2>2 DEF CommandComplete
  <1> QED
    BY <1>5, <1>9, <1>12, <1>13, <1>14 DEF Leaves

\* Every step that succeeds outside a transaction does as SQL says.
LEMMA StepActs ==
    QInv /\ QInv' /\ ReadAsWritten /\ [QNext]_qvars => [ActsAsAsked]_qvars
  <1> SUFFICES ASSUME QInv, QInv', ReadAsWritten, QNext,
                      query # <<>>, answer = <<>>, parsed.ok, table # <<>>, table' = table,
                      ~Errored', connTxn.State = "Idle", AllInOrder', Judged
               PROVE  AsAsked
    BY DEF ActsAsAsked
  <1>1. ASSUME stmt.stmt \notin {"INSERT", "DELETE", "UPDATE", "SELECT"} PROVE AsAsked
    BY <1>1, Zenon DEF AsAsked
  <1>2. ASSUME \E q \in Queries : ReceiveQuery(q) PROVE FALSE
    BY <1>2 DEF ReceiveQuery
  <1>3. ASSUME UnsupportedMessage \/ ClientReads \/ ParseError \/ RejectFailed PROVE FALSE
    BY <1>3 DEF UnsupportedMessage, ClientReads, ParseError, RejectFailed
  <1>4. ASSUME BeginStatement \/ CommitStatement \/ RollbackStatement PROVE AsAsked
    <2>1. stmt.stmt \in {"BEGIN", "COMMIT", "ROLLBACK"}
      BY <1>4 DEF BeginStatement, CommitStatement, RollbackStatement, HandlingStatement
    <2> QED
      BY <1>1, <2>1
  <1>5. ASSUME ExecuteStatement PROVE AsAsked
    <2>1. PICK r : r = Execute(stmt) /\ Apply(r)
      BY <1>5 DEF ExecuteStatement
    <2>2. UNCHANGED <<query, parsed>>
      BY <1>5 DEF ExecuteStatement, HandlingStatement, Handling
    <2>3. CASE stmt.stmt = "INSERT"
      <3>1. StatementOK(stmt)
        BY DEF QInv, stmt
      <3>2. r = executeInsert(stmt)
        BY <2>1, <2>3 DEF Execute
      <3>3. PICK inserted : inserted = [i \in 1 .. Len(table) |->
                                            StoredValue(stmt.Values[i], table[i].TypeOID)]
        OBVIOUS
      <3>4. /\ Leaves(DOMAIN SQLRows, {Len(heap) + 1}) /\ answer'[1].n = 1
            /\ SQLRows'[Len(heap) + 1] = inserted
            /\ \A i \in 1 .. Len(table) : table[i].NotNull => inserted[i] # SQLNull
        BY <2>1, <2>3, <3>1, <3>2, <3>3, InsertActs
      <3> QED
        BY <2>3, <3>3, <3>4 DEF AsAsked
    <2>4. CASE stmt.stmt = "DELETE"
      <3>1. r = executeDelete(stmt, Scan(stmt.Where)) /\ IsStatement("DELETE")
        BY <2>1, <2>4 DEF Execute, IsStatement
      <3>2. /\ Leaves(DOMAIN SQLRows \ Selected, {})
            /\ answer'[1].n = Cardinality(Selected)
        BY <2>1, <3>1, DeleteActs
      <3> QED
        BY <2>4, <3>2 DEF AsAsked
    <2>5. CASE stmt.stmt = "UPDATE"
      <3>1. r = executeUpdate(stmt, Scan(stmt.Where)) /\ IsStatement("UPDATE")
        BY <2>1, <2>5 DEF Execute, IsStatement
      <3>2. /\ Leaves(DOMAIN SQLRows \ Selected,
                      Len(heap) + 1 .. Len(heap) + Cardinality(Selected))
            /\ \A i \in Selected :
                SQLRows'[Len(heap) + Rank(Selected, i)] = SQLSet(SQLRows[i], stmt.SetClauses)
            /\ answer'[1].n = Cardinality(Selected)
        BY <2>1, <3>1, UpdateActs
      <3> QED
        BY <2>5, <3>2 DEF AsAsked
    <2>6. CASE stmt.stmt = "SELECT"
      <3>1. r = executeSelect(stmt, Scan(stmt.Where))
        BY <2>1, <2>6 DEF Execute
      <3>2. r.heap = heap /\ r.table = table /\ r.draws = FALSE
        BY <3>1, SelectKeeps
      <3>3. Quiet
        BY <2>1, <2>2, <3>2 DEF Quiet, Apply
      <3>4. SQLRows' = SQLRows
        BY <3>3, QuietStep
      <3> QED
        BY <2>6, <3>4 DEF AsAsked
    <2> QED
      BY <1>1, <2>3, <2>4, <2>5, <2>6
  <1>6. ASSUME InsertTupleFails PROVE FALSE
    <2>1. PICK r : r.ok = FALSE /\ Apply(r)
      BY <1>6, NotStoredFails
    <2> QED
      BY <2>1, RefusedErrs DEF Apply
  <1> QED
    BY <1>2, <1>3, <1>4, <1>5, <1>6 DEF QNext

\* INSERT, UPDATE and DELETE outside a transaction change the visible rows as SQL
\* says and report their number, for every table and every file, if the parser
\* reads conditions as they are written: the rows a condition is not true of stay
\* as they are, at their places, and no other row comes or goes.
THEOREM StatementsActAsAsked == QSpec /\ []ReadAsWritten => EffectsAsAsked
  BY QueryInvariant, StepActs, PTL DEF QSpec, EffectsAsAsked
=============================================================================
