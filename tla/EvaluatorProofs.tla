-------------------------- MODULE EvaluatorProofs ---------------------------
(***************************************************************************)
(* The evaluator of conditions agrees with SQL.  evalExpr has only true    *)
(* and false, compares numbers as float64 and stops as soon as it can; SQL *)
(* has a third truth value and mathematical numbers.  Wherever SQL has a   *)
(* verdict on a row, for conditions of any height and rows of any table,   *)
(* evalExpr is true exactly if the verdict is, and raises no error.        *)
(***************************************************************************)
EXTENDS Evaluator, SQLMeaning, CodecProofs

\* The Go value v stands for the SQL value x.  Nothing is said if there is none.
Denotes(v, x) ==
    CASE x.sort = "none"   -> TRUE
      [] x.sort = "null"   -> v = Nil
      [] x.sort = "bool"   -> x.v \in BOOLEAN /\ v = Bool(x.v)
      [] x.sort = "string" -> x.v \in Seq(Bytes) /\ v = GoString(x.v)
      [] x.sort = "oid"    -> v.kind = "uint32"
      [] x.sort = "number" ->
            \/ v.kind \in {"int16", "int32", "int64"} /\ v.val \in Int /\ x.v = 2 * v.val
            \/ v.kind = "float64" /\ v.val \in Int /\ x.v = v.val
      [] OTHER             -> FALSE

\* The result v of the evaluator agrees with the verdict t of SQL, if there is one.
Agrees(v, t) ==
    /\ t = "T" => ~IsErr(v) /\ IsTrue(v)
    /\ t \in {"F", "U"} => ~IsErr(v) /\ ~IsTrue(v)

-----------------------------------------------------------------------------
(***************************************************************************)
(* Numbers as float64.                                                     *)
(***************************************************************************)

\* The powers of two beyond the mantissa.
LEMMA BeyondMantissa ==
    /\ TwoTo[0] = 1 /\ TwoTo[1] = 2
    /\ TwoTo[MantissaBits] \in Nat /\ TwoTo[MantissaBits] = 2 * TwoTo[MantissaBits - 1]
    /\ TwoTo[MantissaBits - 1] \in Nat \ {0}
    /\ TwoTo[MantissaBits + 0] = TwoTo[MantissaBits]
    /\ TwoTo[MantissaBits + 1] = 2 * TwoTo[MantissaBits]
    /\ \A k \in 0 .. 8 * BitsPerByte : TwoTo[MantissaBits + k] \in Nat
    /\ \A k \in 1 .. 8 * BitsPerByte : TwoTo[MantissaBits + k - 1] >= TwoTo[MantissaBits]
    /\ \A k \in 2 .. 8 * BitsPerByte : TwoTo[MantissaBits + k - 1] >= 2 * TwoTo[MantissaBits]
  <1> DEFINE M == MantissaBits
             N == 8 * BitsPerByte
             S == {k \in 0 .. N : TwoTo[M + k] >= TwoTo[M]}
  <1>0. M \in Nat \ {0} /\ N \in Nat /\ N >= 8 /\ Exponent = M + N
    BY WidthAssumption DEF Exponent
  <1> HIDE DEF M, N
  <1>1. \A k \in 0 .. M + N : TwoTo[k] \in Nat \ {0}
    BY <1>0, TwoToDef
  <1>2. ASSUME NEW k \in 1 .. M + N PROVE TwoTo[k] = 2 * TwoTo[k - 1]
    <2>1. k \in 0 .. M + N /\ k # 0
      BY <1>0
    <2> QED
      BY <1>0, <2>1, TwoToDef
  <1>3. TwoTo[0] = 1
    <2>1. 0 \in 0 .. M + N
      BY <1>0
    <2> QED
      BY <1>0, <2>1, TwoToDef
  <1>4. TwoTo[1] = 2
    <2>1. 1 \in 1 .. M + N /\ 1 - 1 = 0
      BY <1>0
    <2> QED
      BY <1>2, <1>3, <2>1
  <1>5. TwoTo[M] \in Nat /\ TwoTo[M] = 2 * TwoTo[M - 1] /\ TwoTo[M - 1] \in Nat \ {0}
    <2>1. M \in 1 .. M + N /\ M \in 0 .. M + N /\ M - 1 \in 0 .. M + N
      BY <1>0
    <2> QED
      BY <2>1, <1>1, <1>2
  <1>6. M + 0 = M /\ TwoTo[M + 1] = 2 * TwoTo[M]
    <2>1. M + 1 \in 1 .. M + N /\ (M + 1) - 1 = M /\ M + 0 = M
      BY <1>0
    <2> QED
      BY <2>1, <1>2
  <1>7. 0 \in S
    BY <1>0, <1>5, <1>6
  <1>8. ASSUME NEW k \in 0 .. N - 1, k \in S PROVE k + 1 \in S
    <2>1. M + (k + 1) \in 1 .. M + N /\ (M + (k + 1)) - 1 = M + k /\ M + k \in 0 .. M + N
      BY <1>0
    <2>2. TwoTo[M + (k + 1)] = 2 * TwoTo[M + k] /\ TwoTo[M + k] \in Nat
      BY <2>1, <1>1, <1>2
    <2> QED
      BY <1>0, <1>5, <1>8, <2>2
  <1>9. 0 .. N \subseteq S
    <2> HIDE DEF S
    <2> QED
      BY <1>0, <1>7, <1>8, UpTo
  <1>10. \A k \in 0 .. N : TwoTo[M + k] >= TwoTo[M] /\ TwoTo[M + k] \in Nat
    <2>1. ASSUME NEW k \in 0 .. N PROVE M + k \in 0 .. M + N
      BY <1>0
    <2> QED
      BY <1>1, <1>9, <2>1
  <1>11. ASSUME NEW k \in 1 .. N PROVE TwoTo[M + k - 1] >= TwoTo[M]
    <2>1. k - 1 \in 0 .. N /\ M + k - 1 = M + (k - 1)
      BY <1>0
    <2> QED
      BY <1>10, <2>1
  <1>12. ASSUME NEW k \in 2 .. N PROVE TwoTo[M + k - 1] >= 2 * TwoTo[M]
    <2>1. k - 2 \in 0 .. N /\ M + k - 1 \in 1 .. M + N /\ (M + k - 1) - 1 = M + (k - 2)
      BY <1>0
    <2>2. TwoTo[M + k - 1] = 2 * TwoTo[M + (k - 2)]
      BY <1>2, <2>1
    <2> QED
      BY <1>10, <1>5, <2>1, <2>2
  <1> QED
    BY <1>3, <1>4, <1>5, <1>6, <1>10, <1>11, <1>12 DEF M, N

\* A number whose significant bits fit the mantissa is not rounded.
LEMMA NotRounded ==
    ASSUME NEW m \in Nat, m <= TwoTo[MantissaBits]
    PROVE  Rounded(m, Ulp(m)) = m
  <1> DEFINE M == MantissaBits
             N == 8 * BitsPerByte
             Fits(k) == m < TwoTo[M + k] /\ (k = 0 \/ m >= TwoTo[M + k - 1])
  <1>0. M \in Nat /\ N \in Nat /\ 1 \in 0 .. N /\ 0 \in 0 .. N
    BY WidthAssumption
  <1>1. Ulp(m) = TwoTo[CHOOSE k \in 0 .. N : Fits(k)]
    BY DEF Ulp
  <1>2. CASE m < TwoTo[M]
    <2>1. Fits(0)
      BY <1>2, BeyondMantissa
    <2>2. ASSUME NEW k \in 0 .. N, Fits(k) PROVE k = 0
      <3>1. CASE k # 0
        <4>1. k \in 1 .. N
          BY <1>0, <3>1
        <4>2. TwoTo[M + k - 1] >= TwoTo[M] /\ TwoTo[M] \in Nat
          BY <4>1, BeyondMantissa
        <4>3. m >= TwoTo[M + k - 1]
          BY <2>2, <3>1
        <4>4. TwoTo[M + k - 1] \in Nat
          <5>1. k - 1 \in 0 .. N /\ M + k - 1 = M + (k - 1)
            BY <4>1, <1>0
          <5> QED
            BY <5>1, BeyondMantissa
        <4> QED
          BY <1>2, <4>2, <4>3, <4>4
      <3> QED
        BY <3>1
    <2>3. (CHOOSE k \in 0 .. N : Fits(k)) = 0
      <3> HIDE DEF Fits, N
      <3> QED
        BY <1>0, <2>1, <2>2
    <2>4. Ulp(m) = 1
      BY <1>1, <2>3, BeyondMantissa
    <2>5. m % 1 = 0 /\ m \div 1 = m
      OBVIOUS
    <2> QED
      BY <2>4, <2>5 DEF Rounded
  <1>3. CASE m = TwoTo[M]
    <2>1. Fits(1)
      <3>1. M + 1 - 1 = M
        BY <1>0
      <3> QED
        BY <1>3, <3>1, BeyondMantissa
    <2>2. ASSUME NEW k \in 0 .. N, Fits(k) PROVE k = 1
      <3>1. CASE k = 0
        BY <1>3, <2>2, <3>1, BeyondMantissa
      <3>2. CASE k # 0 /\ k # 1
        <4>1. k \in 2 .. N
          BY <1>0, <3>2
        <4>2. TwoTo[M + k - 1] >= 2 * TwoTo[M] /\ TwoTo[M] \in Nat /\ TwoTo[M] > 0
          BY <4>1, BeyondMantissa
        <4>3. m >= TwoTo[M + k - 1]
          BY <2>2, <3>2
        <4>4. TwoTo[M + k - 1] \in Nat
          <5>1. k - 1 \in 0 .. N /\ M + k - 1 = M + (k - 1)
            BY <4>1, <1>0
          <5> QED
            BY <5>1, BeyondMantissa
        <4> QED
          BY <1>3, <4>2, <4>3, <4>4
      <3> QED
        BY <3>1, <3>2
    <2>3. (CHOOSE k \in 0 .. N : Fits(k)) = 1
      <3> HIDE DEF Fits, N
      <3> QED
        BY <1>0, <2>1, <2>2
    <2>4. Ulp(m) = 2
      BY <1>1, <2>3, BeyondMantissa
    <2>5. PICK h \in Nat : m = 2 * h
      BY <1>3, BeyondMantissa
    <2>6. m % 2 = 0 /\ m \div 2 = h
      BY <2>5
    <2> QED
      BY <2>4, <2>5, <2>6 DEF Rounded
  <1> QED
    BY <1>2, <1>3, BeyondMantissa

\* float64 keeps the numbers on which SQL's comparisons are claimed.
LEMMA ExactFloat ==
    ASSUME NEW n \in Int, Exact(2 * n)
    PROVE  RoundToFloat(n) = 2 * n
  <1>1. TwoTo[MantissaBits] \in Nat
    BY BeyondMantissa
  <1>2. -TwoTo[MantissaBits] <= n /\ n <= TwoTo[MantissaBits]
    BY <1>1 DEF Exact
  <1>3. CASE n < 0
    <2>1. -n \in Nat /\ -n <= TwoTo[MantissaBits]
      BY <1>1, <1>2, <1>3
    <2>2. Rounded(-n, Ulp(-n)) = -n
      BY <2>1, NotRounded
    <2> QED
      BY <1>3, <2>2 DEF RoundToFloat
  <1>4. CASE ~(n < 0)
    <2>1. Rounded(n, Ulp(n)) = n
      BY <1>2, <1>4, NotRounded
    <2> QED
      BY <1>4, <2>1 DEF RoundToFloat
  <1> QED
    BY <1>3, <1>4
-----------------------------------------------------------------------------
(***************************************************************************)
(* Strings.                                                                *)
(***************************************************************************)

\* l comes before r because of what follows the first n bytes, which they share.
Before(l, r, n) ==
    /\ n \in Nat /\ n <= Len(l) /\ n < Len(r)
    /\ \A j \in 1 .. n : l[j] = r[j]
    /\ n < Len(l) => l[n + 1] < r[n + 1]

\* Equal beginnings, byte by byte.
LEMMA SameStart ==
    ASSUME NEW l \in Seq(Bytes), NEW r \in Seq(Bytes), NEW n \in Nat,
           n <= Len(l), n <= Len(r)
    PROVE  SubSeq(l, 1, n) = SubSeq(r, 1, n) <=> \A j \in 1 .. n : l[j] = r[j]
  <1>1. SubSeq(l, 1, n) = [j \in 1 .. n |-> l[j]] /\ SubSeq(r, 1, n) = [j \in 1 .. n |-> r[j]]
    OBVIOUS
  <1> QED
    BY <1>1

\* The order the evaluator uses on strings.
LEMMA LessBefore ==
    ASSUME NEW l \in Seq(Bytes), NEW r \in Seq(Bytes)
    PROVE  StringLess(l, r) <=> \E n \in Nat : Before(l, r, n)
  <1>0. Len(l) \in Nat /\ Len(r) \in Nat /\ l = SubSeq(l, 1, Len(l))
    OBVIOUS
  <1>1. ASSUME StringLess(l, r) PROVE \E n \in Nat : Before(l, r, n)
    <2>1. CASE Len(l) < Len(r) /\ l = SubSeq(r, 1, Len(l))
      <3>1. \A j \in 1 .. Len(l) : l[j] = r[j]
        BY <1>0, <2>1, SameStart
      <3>2. Before(l, r, Len(l))
        BY <1>0, <2>1, <3>1 DEF Before
      <3> QED
        BY <1>0, <3>2
    <2>2. CASE \E i \in 1 .. Len(l) :
                    i <= Len(r) /\ SubSeq(l, 1, i - 1) = SubSeq(r, 1, i - 1) /\ l[i] < r[i]
      <3>1. PICK i \in 1 .. Len(l) :
                    i <= Len(r) /\ SubSeq(l, 1, i - 1) = SubSeq(r, 1, i - 1) /\ l[i] < r[i]
        BY <2>2
      <3>2. i - 1 \in Nat /\ i - 1 <= Len(l) /\ i - 1 < Len(r) /\ (i - 1) + 1 = i
        BY <1>0, <3>1
      <3>3. \A j \in 1 .. i - 1 : l[j] = r[j]
        BY <3>1, <3>2, SameStart
      <3>4. Before(l, r, i - 1)
        BY <3>1, <3>2, <3>3 DEF Before
      <3> QED
        BY <3>2, <3>4
    <2> QED
      BY <1>1, <2>1, <2>2 DEF StringLess
  <1>2. ASSUME NEW n \in Nat, Before(l, r, n) PROVE StringLess(l, r)
    <2>1. SubSeq(l, 1, n) = SubSeq(r, 1, n)
      BY <1>0, <1>2, SameStart DEF Before
    <2>2. CASE n = Len(l)
      BY <1>0, <1>2, <2>1, <2>2 DEF StringLess, Before
    <2>3. CASE n < Len(l)
      <3>1. n + 1 \in 1 .. Len(l) /\ n + 1 <= Len(r) /\ (n + 1) - 1 = n
        BY <1>0, <1>2, <2>3 DEF Before
      <3>2. l[n + 1] < r[n + 1]
        BY <1>2, <2>3 DEF Before
      <3> QED
        BY <2>1, <3>1, <3>2 DEF StringLess
    <2>4. n = Len(l) \/ n < Len(l)
      <3>1. n <= Len(l)
        BY <1>2 DEF Before
      <3>2. Len(l) \in Nat
        OBVIOUS
      <3> QED
        BY <3>1, <3>2
    <2> QED
      BY <2>2, <2>3, <2>4
  <1> QED
    BY <1>1, <1>2

\* The order of SQL on strings.
LEMMA PrecedesBefore ==
    ASSUME NEW l \in Seq(Bytes), NEW r \in Seq(Bytes)
    PROVE  Precedes(SQLValue("string", l), SQLValue("string", r))
                <=> \E n \in Nat : Before(l, r, n)
  <1> DEFINE Follows(n) ==
                /\ n <= Len(r) /\ SubSeq(l, 1, n) = SubSeq(r, 1, n)
                /\ IF n = Len(l) THEN n < Len(r) ELSE n < Len(r) /\ l[n + 1] < r[n + 1]
  <1>0. Len(l) \in Nat /\ Len(r) \in Nat
    OBVIOUS
  <1>1. Precedes(SQLValue("string", l), SQLValue("string", r))
            <=> \E n \in 0 .. Len(l) : Follows(n)
    BY DEF Precedes, SQLValue
  <1>2. ASSUME NEW n \in 0 .. Len(l) PROVE Follows(n) <=> Before(l, r, n)
    <2>1. CASE n <= Len(r)
      <3>1. SubSeq(l, 1, n) = SubSeq(r, 1, n) <=> \A j \in 1 .. n : l[j] = r[j]
        BY <1>0, <2>1, SameStart
      <3>2. n < Len(l) <=> n # Len(l)
        BY <1>0
      <3> QED
        BY <1>0, <2>1, <3>1, <3>2 DEF Before
    <2>2. CASE ~(n <= Len(r))
      BY <1>0, <2>2 DEF Before
    <2> QED
      BY <2>1, <2>2
  <1>3. \A n \in Nat : Before(l, r, n) => n \in 0 .. Len(l)
    BY <1>0 DEF Before
  <1> HIDE DEF Follows
  <1> QED
    BY <1>0, <1>1, <1>2, <1>3

\* Strings that differ come one before the other, and never both.
LEMMA OneFirst ==
    ASSUME NEW l \in Seq(Bytes), NEW r \in Seq(Bytes)
    PROVE  /\ l = r \/ (\E n \in Nat : Before(l, r, n)) \/ (\E n \in Nat : Before(r, l, n))
           /\ \A n, m \in Nat : ~(Before(l, r, n) /\ Before(r, l, m))
           /\ l = r => \A n \in Nat : ~Before(l, r, n)
  <1>0. /\ Len(l) \in Nat /\ Len(r) \in Nat
        /\ \A j \in 1 .. Len(l) : l[j] \in Int
        /\ \A j \in 1 .. Len(r) : r[j] \in Int
    <2>1. Bytes \subseteq Int
      BY ByteValuesType DEF Bytes
    <2>2. (\A j \in 1 .. Len(l) : l[j] \in Bytes) /\ (\A j \in 1 .. Len(r) : r[j] \in Bytes)
      OBVIOUS
    <2>3. Len(l) \in Nat /\ Len(r) \in Nat
      OBVIOUS
    <2> QED
      BY <2>1, <2>2, <2>3
  <1>1. l = r \/ (\E n \in Nat : Before(l, r, n)) \/ (\E n \in Nat : Before(r, l, n))
    <2> DEFINE T == {n \in Nat : /\ n <= Len(l) /\ n <= Len(r)
                                 /\ n = Len(l) \/ n = Len(r) \/ l[n + 1] # r[n + 1]}
    <2>1. T \subseteq Nat /\ T # {}
      <3>1. (IF Len(l) <= Len(r) THEN Len(l) ELSE Len(r)) \in T
        BY <1>0
      <3> QED
        BY <3>1
    <2>2. PICK d \in T : \A m \in T : d <= m
      <3> HIDE DEF T
      <3> QED
        BY <2>1, NatMin
    <2>3. ASSUME NEW j \in 1 .. d PROVE l[j] = r[j]
      <3>1. j - 1 \in Nat /\ j - 1 < d /\ j - 1 <= Len(l) /\ j - 1 <= Len(r) /\ (j - 1) + 1 = j
        BY <1>0, <2>2
      <3>2. j - 1 \notin T
        <4>1. d \in Nat /\ ~(d <= j - 1)
          BY <2>2, <3>1
        <4> HIDE DEF T
        <4> QED
          BY <2>2, <4>1
      <3> QED
        BY <3>1, <3>2
    <2>4. d \in Nat /\ d <= Len(l) /\ d <= Len(r)
          /\ (d = Len(l) \/ d = Len(r) \/ l[d + 1] # r[d + 1])
      BY <2>2
    <2> HIDE DEF T
    <2>5. CASE d = Len(l) /\ d = Len(r)
      <3>1. SubSeq(l, 1, d) = SubSeq(r, 1, d)
        BY <2>3, <2>4, SameStart
      <3>2. l = SubSeq(l, 1, Len(l)) /\ r = SubSeq(r, 1, Len(r))
        OBVIOUS
      <3> QED
        BY <2>5, <3>1, <3>2
    <2>6. CASE d < Len(r) /\ (d = Len(l) \/ l[d + 1] < r[d + 1])
      <3>1. Before(l, r, d)
        BY <1>0, <2>3, <2>4, <2>6 DEF Before
      <3> QED
        BY <2>4, <3>1
    <2>7. CASE d < Len(l) /\ (d = Len(r) \/ r[d + 1] < l[d + 1])
      <3>1. Before(r, l, d)
        BY <1>0, <2>3, <2>4, <2>7 DEF Before
      <3> QED
        BY <2>4, <3>1
    <2>8. CASE d < Len(l) /\ d < Len(r)
      <3>1. d + 1 \in 1 .. Len(l) /\ d + 1 \in 1 .. Len(r) /\ l[d + 1] # r[d + 1]
        BY <1>0, <2>4, <2>8
      <3>2. l[d + 1] < r[d + 1] \/ r[d + 1] < l[d + 1]
        BY <1>0, <3>1
      <3> QED
        BY <2>6, <2>7, <2>8, <3>2
    <2> QED
      BY <1>0, <2>4, <2>5, <2>6, <2>7, <2>8
  <1>2. ASSUME NEW n \in Nat, NEW m \in Nat, Before(l, r, n), Before(r, l, m) PROVE FALSE
    <2>1. CASE n < m
      <3>1. n + 1 \in 1 .. m /\ n < Len(l) /\ n + 1 \in 1 .. Len(l)
        BY <1>0, <1>2, <2>1 DEF Before
      <3> QED
        BY <1>0, <1>2, <3>1 DEF Before
    <2>2. CASE m < n
      <3>1. m + 1 \in 1 .. n /\ m < Len(r) /\ m + 1 \in 1 .. Len(r)
        BY <1>0, <1>2, <2>2 DEF Before
      <3> QED
        BY <1>0, <1>2, <3>1 DEF Before
    <2>3. CASE n = m
      <3>1. n < Len(l) /\ n < Len(r) /\ n + 1 \in 1 .. Len(l) /\ n + 1 \in 1 .. Len(r)
        BY <1>0, <1>2, <2>3 DEF Before
      <3>2. l[n + 1] < r[n + 1] /\ r[n + 1] < l[n + 1]
        BY <1>2, <2>3, <3>1 DEF Before
      <3> QED
        BY <1>0, <3>1, <3>2
    <2> QED
      BY <2>1, <2>2, <2>3
  <1> QED
    BY <1>1, <1>2

-----------------------------------------------------------------------------
(***************************************************************************)
(* The operations of a condition.                                          *)
(***************************************************************************)
IsSQL(x) == x = SQLValue(x.sort, x.v)

\* The truth of a Go bool.
LEMMA TrueBool ==
    ASSUME NEW b \in BOOLEAN
    PROVE  ~IsErr(Bool(b)) /\ ~IsNil(Bool(b)) /\ (IsTrue(Bool(b)) <=> b)
  BY DEF IsErr, IsNil, IsTrue, Bool

\* A bool agrees with the verdict that is made of the same truth.
LEMMA SameTruth ==
    ASSUME NEW b \in BOOLEAN, NEW c \in BOOLEAN, b <=> c
    PROVE  Agrees(Bool(b), Truth(c))
  <1>1. ~IsErr(Bool(b)) /\ (IsTrue(Bool(b)) <=> b)
    BY TrueBool
  <1>2. Truth(c) = IF c THEN "T" ELSE "F"
    BY DEF Truth
  <1>3. CASE c
    BY <1>1, <1>2, <1>3 DEF Agrees
  <1>4. CASE ~c
    BY <1>1, <1>2, <1>4 DEF Agrees
  <1> QED
    BY <1>3, <1>4

\* A value that stands for something is no error, and nil only for NULL.
LEMMA DenotesNoError ==
    ASSUME NEW v, NEW x, Denotes(v, x), x.sort # "none"
    PROVE  ~IsErr(v) /\ (IsNil(v) <=> x.sort = "null")
  BY DEF Denotes, IsErr, IsNil, Nil, Bool, GoString

\* A number as the evaluator compares it.
LEMMA NumberDenoted ==
    ASSUME NEW v, NEW x, Denotes(v, x), x.sort = "number", Exact(x.v)
    PROVE  IsNumber(v) /\ toFloat64(v) = x.v /\ x.v \in Int
  <1>1. \/ v.kind \in {"int16", "int32", "int64"} /\ v.val \in Int /\ x.v = 2 * v.val
        \/ v.kind = "float64" /\ v.val \in Int /\ x.v = v.val
    BY DEF Denotes
  <1>2. CASE v.kind \in {"int16", "int32", "int64"} /\ v.val \in Int /\ x.v = 2 * v.val
    <2>1. RoundToFloat(v.val) = x.v
      BY <1>2, ExactFloat
    <2>2. v.kind # "float64"
      BY <1>2
    <2> QED
      BY <1>2, <2>1, <2>2 DEF IsNumber, toFloat64
  <1>3. CASE v.kind = "float64" /\ v.val \in Int /\ x.v = v.val
    BY <1>3 DEF IsNumber, toFloat64
  <1> QED
    BY <1>1, <1>2, <1>3

\* Numbers, strings and bools compare as in SQL.
LEMMA NumbersCompare ==
    ASSUME NEW l, NEW r, NEW x, NEW y, NEW op \in Comparisons,
           Denotes(l, x), Denotes(r, y), x.sort = "number", y.sort = "number",
           Exact(x.v), Exact(y.v)
    PROVE  Agrees(compareValues(l, r, op), Compare3(x, op, y))
  <1>1. /\ IsNumber(l) /\ toFloat64(l) = x.v /\ x.v \in Int
        /\ IsNumber(r) /\ toFloat64(r) = y.v /\ y.v \in Int
    BY NumberDenoted
  <1>2. ~IsNil(l) /\ ~IsNil(r) /\ l.kind # "string" /\ l.kind # "bool"
    BY <1>1, DenotesNoError DEF IsNumber
  <1>3. compareValues(l, r, op) = Bool(compareFloat(x.v, y.v, op))
    BY <1>1, <1>2 DEF compareValues
  <1> DEFINE b == compareFloat(x.v, y.v, op)
             c == CASE op \in {"=", "!=", "<>"} -> (x.v = y.v) = (op = "=")
                    [] op = "<"  -> x.v < y.v
                    [] op = ">"  -> y.v < x.v
                    [] op = "<=" -> x.v = y.v \/ x.v < y.v
                    [] op = ">=" -> x.v = y.v \/ y.v < x.v
  <1>4. op \in {"=", "!=", "<>", "<", ">", "<=", ">="}
    BY DEF Comparisons
  <1>5. b \in BOOLEAN /\ c \in BOOLEAN /\ (b <=> c)
    <2>1. CASE op = "="
      BY <1>1, <2>1 DEF compareFloat
    <2>2. CASE op \in {"!=", "<>"}
      BY <1>1, <2>2 DEF compareFloat
    <2>3. CASE op = "<"
      BY <1>1, <2>3 DEF compareFloat
    <2>4. CASE op = ">"
      BY <1>1, <2>4 DEF compareFloat
    <2>5. CASE op = "<="
      BY <1>1, <2>5 DEF compareFloat
    <2>6. CASE op = ">="
      BY <1>1, <2>6 DEF compareFloat
    <2> QED
      BY <1>4, <2>1, <2>2, <2>3, <2>4, <2>5, <2>6
  <1>6. Compare3(x, op, y) = Truth(c)
    BY <1>4 DEF Compare3, Precedes
  <1> HIDE DEF b, c
  <1>7. Agrees(Bool(b), Truth(c))
    BY <1>5, SameTruth
  <1> QED
    BY <1>3, <1>6, <1>7 DEF b

\* Strings compare as in SQL.
LEMMA StringsCompare ==
    ASSUME NEW l, NEW r, NEW x, NEW y, NEW op \in Comparisons,
           Denotes(l, x), Denotes(r, y), IsSQL(x), IsSQL(y),
           x.sort = "string", y.sort = "string"
    PROVE  Agrees(compareValues(l, r, op), Compare3(x, op, y))
  <1>1. x.v \in Seq(Bytes) /\ y.v \in Seq(Bytes) /\ l = GoString(x.v) /\ r = GoString(y.v)
    BY DEF Denotes
  <1>2. compareValues(l, r, op) = Bool(compareString(x.v, y.v, op))
    BY <1>1 DEF compareValues, IsNil, IsNumber, GoString
  <1>3. x = SQLValue("string", x.v) /\ y = SQLValue("string", y.v)
    BY DEF IsSQL
  <1>4. (Precedes(x, y) <=> StringLess(x.v, y.v)) /\ (Precedes(y, x) <=> StringLess(y.v, x.v))
    <2>1. StringLess(x.v, y.v) <=> \E n \in Nat : Before(x.v, y.v, n)
      BY <1>1, LessBefore
    <2>2. StringLess(y.v, x.v) <=> \E n \in Nat : Before(y.v, x.v, n)
      BY <1>1, LessBefore
    <2>3. Precedes(SQLValue("string", x.v), SQLValue("string", y.v))
            <=> \E n \in Nat : Before(x.v, y.v, n)
      BY <1>1, PrecedesBefore
    <2>4. Precedes(SQLValue("string", y.v), SQLValue("string", x.v))
            <=> \E n \in Nat : Before(y.v, x.v, n)
      BY <1>1, PrecedesBefore
    <2> QED
      BY <1>3, <2>1, <2>2, <2>3, <2>4, Zenon
  <1>5. /\ x.v = y.v \/ StringLess(x.v, y.v) \/ StringLess(y.v, x.v)
        /\ ~(StringLess(x.v, y.v) /\ StringLess(y.v, x.v))
        /\ x.v = y.v => ~StringLess(x.v, y.v) /\ ~StringLess(y.v, x.v)
    <2>1. StringLess(x.v, y.v) <=> \E n \in Nat : Before(x.v, y.v, n)
      BY <1>1, LessBefore
    <2>2. StringLess(y.v, x.v) <=> \E n \in Nat : Before(y.v, x.v, n)
      BY <1>1, LessBefore
    <2>3. /\ x.v = y.v \/ (\E n \in Nat : Before(x.v, y.v, n))
                      \/ (\E n \in Nat : Before(y.v, x.v, n))
          /\ \A n, m \in Nat : ~(Before(x.v, y.v, n) /\ Before(y.v, x.v, m))
          /\ x.v = y.v => \A n \in Nat : ~Before(x.v, y.v, n)
      BY <1>1, OneFirst
    <2>4. y.v = x.v => \A n \in Nat : ~Before(y.v, x.v, n)
      BY <1>1, OneFirst
    <2> QED
      BY <2>1, <2>2, <2>3, <2>4
  <1> DEFINE b == compareString(x.v, y.v, op)
             c == CASE op \in {"=", "!=", "<>"} -> (x.v = y.v) = (op = "=")
                    [] op = "<"  -> Precedes(x, y)
                    [] op = ">"  -> Precedes(y, x)
                    [] op = "<=" -> x.v = y.v \/ Precedes(x, y)
                    [] op = ">=" -> x.v = y.v \/ Precedes(y, x)
  <1>7. op \in {"=", "!=", "<>", "<", ">", "<=", ">="}
    BY DEF Comparisons
  <1>6. StringLess(x.v, y.v) \in BOOLEAN /\ StringLess(y.v, x.v) \in BOOLEAN
        /\ Precedes(x, y) \in BOOLEAN /\ Precedes(y, x) \in BOOLEAN
    BY DEF StringLess, Precedes
  <1>8. b \in BOOLEAN /\ c \in BOOLEAN /\ (b <=> c)
    <2>1. CASE op = "="
      BY <2>1 DEF compareString
    <2>2. CASE op \in {"!=", "<>"}
      BY <2>2 DEF compareString
    <2>3. CASE op = "<"
      BY <1>4, <1>6, <2>3 DEF compareString
    <2>4. CASE op = ">"
      BY <1>4, <1>6, <2>4 DEF compareString
    <2>5. CASE op = "<="
      BY <1>4, <1>5, <1>6, <2>5 DEF compareString
    <2>6. CASE op = ">="
      BY <1>4, <1>5, <1>6, <2>6 DEF compareString
    <2> QED
      BY <1>7, <2>1, <2>2, <2>3, <2>4, <2>5, <2>6
  <1>9. Compare3(x, op, y) = Truth(c)
    BY <1>7 DEF Compare3
  <1> HIDE DEF b, c
  <1>10. Agrees(Bool(b), Truth(c))
    BY <1>8, SameTruth
  <1> QED
    BY <1>2, <1>9, <1>10 DEF b

\* Bools are equal or not, as in SQL.
LEMMA BoolsCompare ==
    ASSUME NEW l, NEW r, NEW x, NEW y, NEW op \in Comparisons,
           Denotes(l, x), Denotes(r, y), x.sort = "bool", y.sort = "bool"
    PROVE  Agrees(compareValues(l, r, op), Compare3(x, op, y))
  <1>1. x.v \in BOOLEAN /\ y.v \in BOOLEAN /\ l = Bool(x.v) /\ r = Bool(y.v)
    BY DEF Denotes
  <1>2. compareValues(l, r, op) = compareBool(x.v, y.v, op)
    BY <1>1 DEF compareValues, IsNil, IsNumber, Bool
  <1>3. CASE op \in {"=", "!=", "<>"}
    <2> DEFINE b == IF op = "=" THEN x.v = y.v ELSE x.v # y.v
               c == (x.v = y.v) = (op = "=")
    <2>1. compareBool(x.v, y.v, op) = Bool(b)
      BY <1>3 DEF compareBool
    <2>2. Compare3(x, op, y) = Truth(c)
      BY <1>3 DEF Compare3
    <2>3. b \in BOOLEAN /\ c \in BOOLEAN /\ (b <=> c)
      BY <1>1
    <2> HIDE DEF b, c
    <2>4. Agrees(Bool(b), Truth(c))
      BY <2>3, SameTruth
    <2> QED
      BY <1>2, <2>1, <2>2, <2>4
  <1>4. CASE op \notin {"=", "!=", "<>"}
    <2>1. Compare3(x, op, y) = "X"
      BY <1>4 DEF Compare3
    <2> QED
      BY <2>1 DEF Agrees
  <1> QED
    BY <1>3, <1>4

\* No verdict asks for nothing.
LEMMA NoVerdict == \A v : Agrees(v, "X")
  BY DEF Agrees

\* A comparison agrees with SQL, whatever its operands.
LEMMA ComparisonAgrees ==
    ASSUME NEW l, NEW r, NEW x, NEW y, NEW op \in Comparisons,
           Denotes(l, x), Denotes(r, y), IsSQL(x), IsSQL(y)
    PROVE  Agrees(Operate(op, l, r), Compare3(x, op, y))
  <1>1. CASE "none" \in {x.sort, y.sort}
    <2>1. Compare3(x, op, y) = "X"
      BY <1>1 DEF Compare3
    <2> QED
      BY <2>1, NoVerdict
  <1>2. CASE "none" \notin {x.sort, y.sort}
    <2>1. /\ ~IsErr(l) /\ (IsNil(l) <=> x.sort = "null")
          /\ ~IsErr(r) /\ (IsNil(r) <=> y.sort = "null")
      BY <1>2, DenotesNoError
    <2>2. op \notin {"AND", "OR"}
      BY DEF Comparisons
    <2>3. Operate(op, l, r) = compareValues(l, r, op)
      BY <2>1, <2>2 DEF Operate
    <2>4. CASE "null" \in {x.sort, y.sort}
      <3>1. compareValues(l, r, op) = Bool(FALSE)
        <4>1. l.kind = "nil" \/ r.kind = "nil"
          BY <2>1, <2>4 DEF IsNil
        <4> QED
          BY <4>1 DEF compareValues, IsNil, IsNumber
      <3>2. Compare3(x, op, y) = "U"
        BY <1>2, <2>4 DEF Compare3
      <3> QED
        BY <2>3, <3>1, <3>2, TrueBool DEF Agrees
    <2>5. CASE "null" \notin {x.sort, y.sort} /\ (x.sort # y.sort \/ x.sort = "oid")
      <3>1. Compare3(x, op, y) = "X"
        BY <1>2, <2>5 DEF Compare3
      <3> QED
        BY <3>1, NoVerdict
    <2>6. CASE x.sort = "number" /\ y.sort = "number"
      <3>1. CASE Exact(x.v) /\ Exact(y.v)
        BY <2>3, <2>6, <3>1, NumbersCompare
      <3>2. CASE ~(Exact(x.v) /\ Exact(y.v))
        <4>1. Compare3(x, op, y) = "X"
          BY <2>6, <3>2 DEF Compare3
        <4> QED
          BY <4>1, NoVerdict
      <3> QED
        BY <3>1, <3>2
    <2>7. CASE x.sort = "string" /\ y.sort = "string"
      BY <2>3, <2>7, StringsCompare
    <2>8. CASE x.sort = "bool" /\ y.sort = "bool"
      BY <2>3, <2>8, BoolsCompare
    <2>9. x.sort \in {"null", "bool", "string", "oid", "number"}
      BY <1>2 DEF Denotes
    <2> QED
      BY <2>4, <2>5, <2>6, <2>7, <2>8, <2>9
  <1> QED
    BY <1>1, <1>2

\* The evaluator's two truth values are enough for AND and OR: unknown, taken for
\* false, makes neither of them true.
LEMMA ConnectivesAgree ==
    ASSUME NEW l, NEW r, NEW a \in TruthValues, NEW b \in TruthValues,
           Agrees(l, a), Agrees(r, b)
    PROVE  /\ Agrees(Operate("AND", l, r), And3(a, b)) /\ And3(a, b) \in TruthValues
           /\ Agrees(Operate("OR", l, r), Or3(a, b)) /\ Or3(a, b) \in TruthValues
  <1>1. CASE "X" \in {a, b}
    <2>1. And3(a, b) = "X" /\ Or3(a, b) = "X"
      BY <1>1 DEF And3, Or3
    <2> QED
      BY <2>1, NoVerdict DEF TruthValues
  <1>2. CASE a = "T" /\ b \in {"T", "F", "U"}
    <2>1. ~IsErr(l) /\ IsTrue(l)
      BY <1>2 DEF Agrees
    <2>2. Operate("AND", l, r) = r /\ Operate("OR", l, r) = Bool(TRUE)
      BY <2>1 DEF Operate
    <2>3. And3(a, b) = b /\ Or3(a, b) = "T"
      BY <1>2 DEF And3, Or3
    <2> QED
      BY <2>2, <2>3, TrueBool DEF Agrees, TruthValues
  <1>3. CASE a \in {"F", "U"} /\ b \in {"T", "F", "U"}
    <2>1. ~IsErr(l) /\ ~IsTrue(l)
      BY <1>3 DEF Agrees
    <2>2. IsTrue(l) = FALSE
      BY <2>1 DEF IsTrue
    <2>3. Operate("AND", l, r) = Bool(FALSE) /\ Operate("OR", l, r) = r
      BY <2>1, <2>2 DEF Operate
    <2>4. And3(a, b) \in {"F", "U"}
      BY <1>3 DEF And3
    <2>5. Or3(a, b) \in {"T", "F", "U"} /\ (Or3(a, b) = "T" <=> b = "T")
      BY <1>3 DEF Or3
    <2>6. Agrees(Bool(FALSE), And3(a, b))
      BY <2>4, TrueBool DEF Agrees
    <2>7. Agrees(r, Or3(a, b))
      BY <1>3, <2>5 DEF Agrees
    <2> QED
      BY <2>3, <2>4, <2>5, <2>6, <2>7 DEF TruthValues
  <1> QED
    BY <1>1, <1>2, <1>3 DEF TruthValues

\* IS NULL and IS NOT NULL agree with SQL.
LEMMA NullTestAgrees ==
    ASSUME NEW v, NEW x, NEW not \in BOOLEAN, Denotes(v, x)
    PROVE  Agrees(NullTestOf(v, not), NullTest3(x, not)) /\ NullTest3(x, not) \in TruthValues
  <1>1. CASE x.sort = "none"
    <2>1. NullTest3(x, not) = "X"
      BY <1>1 DEF NullTest3
    <2> QED
      BY <2>1, NoVerdict DEF TruthValues
  <1>2. CASE x.sort # "none"
    <2> DEFINE b == IsNil(v) # not
               c == (x.sort = "null") # not
    <2>1. ~IsErr(v) /\ (IsNil(v) <=> x.sort = "null")
      BY <1>2, DenotesNoError
    <2>2. NullTestOf(v, not) = Bool(b) /\ NullTest3(x, not) = Truth(c)
      BY <1>2, <2>1 DEF NullTestOf, NullTest3
    <2>3. b \in BOOLEAN /\ c \in BOOLEAN /\ (b <=> c)
      <3>1. IsNil(v) \in BOOLEAN
        BY DEF IsNil
      <3> QED
        BY <2>1, <3>1
    <2> HIDE DEF b, c
    <2> QED
      BY <2>2, <2>3, SameTruth DEF Truth, TruthValues
  <1> QED
    BY <1>1, <1>2

\* A value alone agrees with SQL: it is true if it is the bool true.
LEMMA BareAgrees ==
    ASSUME NEW v, NEW x, Denotes(v, x)
    PROVE  Agrees(v, Bare3(x)) /\ Bare3(x) \in TruthValues
  <1>1. CASE x.sort = "null"
    <2>1. v = Nil /\ Bare3(x) = "U"
      BY <1>1 DEF Denotes, Bare3
    <2>2. ~IsErr(v) /\ ~IsTrue(v)
      BY <2>1 DEF IsErr, IsTrue, Nil
    <2> QED
      BY <2>1, <2>2 DEF Agrees, TruthValues
  <1>2. CASE x.sort = "bool"
    <2>1. x.v \in BOOLEAN /\ v = Bool(x.v) /\ Bare3(x) = Truth(x.v)
      BY <1>2 DEF Denotes, Bare3
    <2> QED
      BY <2>1, SameTruth DEF Truth, TruthValues
  <1>3. CASE x.sort \notin {"null", "bool"}
    <2>1. Bare3(x) = "X"
      BY <1>3 DEF Bare3
    <2> QED
      BY <2>1, NoVerdict DEF TruthValues
  <1> QED
    BY <1>1, <1>2, <1>3

\* The verdict of a comparison is a truth value.
LEMMA ComparisonType ==
    ASSUME NEW x, NEW op, NEW y
    PROVE  Compare3(x, op, y) \in TruthValues
  BY DEF Compare3, Truth, TruthValues

-----------------------------------------------------------------------------
(***************************************************************************)
(* Trees, and the two recursions over their height.                        *)
(***************************************************************************)
\* The trees the operators make of those of a set, and the set itself.
Larger(S) ==
    S \cup [node : {"IsNullExpr"}, Expr : S, Not : BOOLEAN]
      \cup [node : {"BinaryExpr"}, Left : S, Op : Operators, Right : S]

\* The trees of each height are what the recursive definition says.
LEMMA ExprsDef ==
    /\ Exprs[0] = Atoms
    /\ \A n \in 1 .. MaxHeight : Exprs[n] = Larger(Exprs[n - 1])
  <1> DEFINE N == MaxHeight
             P(g, m) == g = [n \in 0 .. m |-> IF n = 0 THEN Atoms ELSE Larger(g[n - 1])]
             S == {m \in 0 .. N : \E g : P(g, m)}
  <1>0. N \in Nat
    BY HeightAssumption
  <1>1. 0 \in S
    <2> DEFINE g == [n \in 0 .. 0 |-> Atoms]
    <2>1. g = [n \in 0 .. 0 |-> IF n = 0 THEN Atoms ELSE Larger(g[n - 1])]
      OBVIOUS
    <2> HIDE DEF g
    <2> QED
      BY <1>0, <2>1
  <1>2. ASSUME NEW m \in 0 .. N - 1, m \in S PROVE m + 1 \in S
    <2>1. PICK g : P(g, m)
      BY <1>2
    <2> DEFINE h == [n \in 0 .. m + 1 |-> IF n = m + 1 THEN Larger(g[m]) ELSE g[n]]
    <2>2. m \in Nat /\ m + 1 \in 0 .. N
      BY <1>0
    <2>3. \A n \in 0 .. m : g[n] = IF n = 0 THEN Atoms ELSE Larger(g[n - 1])
      BY <2>1, Zenon
    <2>4. ASSUME NEW n \in 0 .. m + 1
          PROVE  h[n] = IF n = 0 THEN Atoms ELSE Larger(h[n - 1])
      <3>1. CASE n = m + 1
        BY <2>2, <3>1
      <3>2. CASE n # m + 1
        <4>1. n \in 0 .. m /\ (n # 0 => n - 1 \in 0 .. m)
          BY <2>2, <3>2
        <4>2. h[n] = g[n] /\ (n # 0 => h[n - 1] = g[n - 1])
          BY <2>2, <4>1
        <4> QED
          BY <2>3, <4>1, <4>2
      <3> QED
        BY <3>1, <3>2
    <2>5. P(h, m + 1)
      <3>1. h = [n \in 0 .. m + 1 |-> h[n]]
        OBVIOUS
      <3> HIDE DEF h
      <3> QED
        BY <2>4, <3>1
    <2> HIDE DEF h, P
    <2> QED
      BY <2>2, <2>5
  <1> HIDE DEF S
  <1>3. N \in S
    <2>1. 0 .. N \subseteq S
      <3> HIDE DEF N
      <3> QED
        BY <1>0, <1>1, <1>2, UpTo
    <2> QED
      BY <1>0, <2>1
  <1>4. PICK g : P(g, N)
    BY <1>3 DEF S
  <1>5. P(Exprs, N)
    BY <1>4 DEF Exprs, Larger
  <1>6. \A n \in 0 .. N : Exprs[n] = IF n = 0 THEN Atoms ELSE Larger(Exprs[n - 1])
    BY <1>5, Zenon
  <1>7. 0 \in 0 .. N /\ \A n \in 1 .. N : n \in 0 .. N /\ n # 0
    BY <1>0
  <1> QED
    BY <1>6, <1>7

\* A tree is a literal, a column, a null test or a binary expression; the parts
\* of the last two are trees of the height below.
LEMMA Shape ==
    ASSUME NEW n \in 0 .. MaxHeight, NEW e \in Exprs[n]
    PROVE  \/ e \in Atoms
           \/ /\ n > 0 /\ e.node = "IsNullExpr" /\ e.Not \in BOOLEAN
              /\ e.Expr \in Exprs[n - 1]
           \/ /\ n > 0 /\ e.node = "BinaryExpr" /\ e.Op \in Operators
              /\ e.Left \in Exprs[n - 1] /\ e.Right \in Exprs[n - 1]
  <1> DEFINE Tree(m, t) ==
                \/ t \in Atoms
                \/ /\ m > 0 /\ t.node = "IsNullExpr" /\ t.Not \in BOOLEAN
                   /\ t.Expr \in Exprs[m - 1]
                \/ /\ m > 0 /\ t.node = "BinaryExpr" /\ t.Op \in Operators
                   /\ t.Left \in Exprs[m - 1] /\ t.Right \in Exprs[m - 1]
             S == {m \in 0 .. MaxHeight : \A t \in Exprs[m] : Tree(m, t)}
  <1>0. MaxHeight \in Nat
    BY HeightAssumption
  <1>1. 0 \in S
    BY <1>0, ExprsDef
  <1>2. ASSUME NEW m \in 0 .. MaxHeight - 1, m \in S PROVE m + 1 \in S
    <2>1. m + 1 \in 1 .. MaxHeight /\ (m + 1) - 1 = m /\ m + 1 > 0 /\ m \in Nat
      BY <1>0
    <2>2. Exprs[m + 1] = Larger(Exprs[m])
      BY <2>1, ExprsDef
    <2>3. Exprs[m] \subseteq Exprs[m + 1]
      BY <2>2 DEF Larger
    <2>4. ASSUME NEW t \in Exprs[m + 1] PROVE Tree(m + 1, t)
      <3>1. CASE t \in Exprs[m]
        <4>1. Tree(m, t)
          BY <1>2, <3>1
        <4>2. CASE t \in Atoms
          BY <4>2
        <4>3. CASE t \notin Atoms
          <5>1. m > 0 /\ m - 1 \in 0 .. MaxHeight /\ m \in 1 .. MaxHeight
            BY <1>0, <4>1, <4>3
          <5>2. Exprs[m - 1] \subseteq Exprs[m]
            <6>1. Exprs[m] = Larger(Exprs[m - 1])
              BY <5>1, ExprsDef
            <6> QED
              BY <6>1 DEF Larger
          <5> QED
            BY <2>1, <4>1, <4>3, <5>2
        <4> QED
          BY <4>2, <4>3
      <3>2. CASE t \in [node : {"IsNullExpr"}, Expr : Exprs[m], Not : BOOLEAN]
        BY <2>1, <3>2
      <3>3. CASE t \in [node : {"BinaryExpr"}, Left : Exprs[m], Op : Operators, Right : Exprs[m]]
        BY <2>1, <3>3
      <3> QED
        BY <2>2, <3>1, <3>2, <3>3 DEF Larger
    <2> QED
      BY <2>1, <2>4
  <1>3. n \in S
    <2>1. 0 .. MaxHeight \subseteq S
      <3> HIDE DEF S
      <3> QED
        BY <1>0, <1>1, <1>2, UpTo
    <2> QED
      BY <2>1
  <1>4. Tree(n, e)
    BY <1>3
  <1> QED
    BY <1>4

\* A literal or a column is no operator's tree.
LEMMA AtomNodes ==
    ASSUME NEW e \in Atoms
    PROVE  /\ e.node # "IsNullExpr" /\ e.node # "BinaryExpr"
           /\ \/ e.node \in {"NullLiteral", "IntegerLiteral", "FloatLiteral"} /\ e.Value \in Int
              \/ e.node = "BoolLiteral" /\ e.Value \in BOOLEAN
              \/ e.node = "StringLiteral" /\ e.Value \in Seq(Bytes)
              \/ e.node = "ColumnRef"
  BY DEF Atoms

\* evalExpr as the recursion over the height that it is.
LEMMA EvalDef ==
    ASSUME NEW row, NEW columns
    PROVE  \E f : /\ \A n \in 0 .. MaxHeight :
                        f[n] = evalTrees(Exprs[n], f[n - 1], row, columns)
                  /\ \A e : evalExpr(e, row, columns) = f[MaxHeight][e]
  <1> DEFINE N == MaxHeight
             Level(n, parts) == evalTrees(Exprs[n], parts, row, columns)
             P(g, m) == g = [n \in 0 .. m |-> Level(n, g[n - 1])]
             S == {m \in 0 .. N : \E g : P(g, m)}
             f == CHOOSE g : P(g, N)
  <1>0. N \in Nat /\ Exprs[0] = Atoms
    BY HeightAssumption, ExprsDef
  <1>1. ASSUME NEW s, NEW t PROVE Level(0, s) = Level(0, t)
    <2>1. ASSUME NEW e \in Atoms
          PROVE  evalNode(e, s, row, columns) = evalNode(e, t, row, columns)
      BY AtomNodes DEF evalNode
    <2> QED
      BY <1>0, <2>1 DEF evalTrees
  <1>2. ASSUME NEW expr PROVE evalExpr(expr, row, columns) = f[MaxHeight][expr]
    BY DEF evalExpr
  <1> HIDE DEF Level
  <1>3. 0 \in S
    <2> DEFINE g == [n \in 0 .. 0 |-> Level(0, <<>>)]
    <2>1. g = [n \in 0 .. 0 |-> Level(n, g[n - 1])]
      <3>1. \A n \in 0 .. 0 : n = 0
        OBVIOUS
      <3> QED
        BY <1>1, <3>1
    <2> HIDE DEF g
    <2> QED
      BY <1>0, <2>1
  <1>4. ASSUME NEW m \in 0 .. N - 1, m \in S PROVE m + 1 \in S
    <2>1. PICK g : P(g, m)
      BY <1>4
    <2> DEFINE h == [n \in 0 .. m + 1 |-> IF n = m + 1 THEN Level(m + 1, g[m]) ELSE g[n]]
    <2>2. m \in Nat /\ m + 1 \in 0 .. N
      BY <1>0
    <2>3. \A n \in 0 .. m : g[n] = Level(n, g[n - 1])
      BY <2>1, Zenon
    <2>4. ASSUME NEW n \in 0 .. m + 1 PROVE h[n] = Level(n, h[n - 1])
      <3>1. CASE n = m + 1
        BY <2>2, <3>1
      <3>2. CASE n # m + 1 /\ n # 0
        <4>1. n \in 0 .. m /\ n - 1 \in 0 .. m
          BY <2>2, <3>2
        <4>2. h[n] = g[n] /\ h[n - 1] = g[n - 1]
          BY <2>2, <4>1
        <4> QED
          BY <2>3, <4>1, <4>2
      <3>3. CASE n = 0
        <4>1. h[0] = g[0] /\ 0 \in 0 .. m
          BY <2>2
        <4>2. g[0] = Level(0, g[0 - 1])
          BY <2>3, <4>1
        <4> QED
          BY <1>1, <3>3, <4>1, <4>2
      <3> QED
        BY <3>1, <3>2, <3>3
    <2>5. P(h, m + 1)
      <3>1. h = [n \in 0 .. m + 1 |-> h[n]]
        OBVIOUS
      <3> HIDE DEF h
      <3> QED
        BY <2>4, <3>1
    <2> HIDE DEF h, P
    <2> QED
      BY <2>2, <2>5
  <1> HIDE DEF S
  <1>5. N \in S
    <2>1. 0 .. N \subseteq S
      <3> HIDE DEF N
      <3> QED
        BY <1>0, <1>3, <1>4, UpTo
    <2> QED
      BY <1>0, <2>1
  <1>6. PICK g : P(g, N)
    BY <1>5 DEF S
  <1>7. P(f, N)
    BY <1>6
  <1> HIDE DEF f
  <1>8. \A n \in 0 .. N : f[n] = Level(n, f[n - 1])
    BY <1>7, Zenon
  <1> QED
    BY <1>2, <1>8 DEF Level

\* The meaning of a condition as the same recursion.
LEMMA MeansDef ==
    ASSUME NEW row, NEW columns
    PROVE  \E f : /\ \A n \in 0 .. MaxHeight :
                        f[n] = MeansTrees(Exprs[n], f[n - 1], row, columns)
                  /\ \A e : e # NoWhere => Means(e, row, columns) = f[MaxHeight][e]
  <1> DEFINE N == MaxHeight
             Level(n, parts) == MeansTrees(Exprs[n], parts, row, columns)
             P(g, m) == g = [n \in 0 .. m |-> Level(n, g[n - 1])]
             S == {m \in 0 .. N : \E g : P(g, m)}
             f == CHOOSE g : P(g, N)
  <1>0. N \in Nat /\ Exprs[0] = Atoms
    BY HeightAssumption, ExprsDef
  <1>1. ASSUME NEW s, NEW t PROVE Level(0, s) = Level(0, t)
    <2>1. ASSUME NEW e \in Atoms
          PROVE  MeansNode(e, s, row, columns) = MeansNode(e, t, row, columns)
      BY AtomNodes DEF MeansNode
    <2> QED
      BY <1>0, <2>1 DEF MeansTrees
  <1>2. ASSUME NEW expr PROVE expr # NoWhere => Means(expr, row, columns) = f[MaxHeight][expr]
    BY DEF Means
  <1> HIDE DEF Level
  <1>3. 0 \in S
    <2> DEFINE g == [n \in 0 .. 0 |-> Level(0, <<>>)]
    <2>1. g = [n \in 0 .. 0 |-> Level(n, g[n - 1])]
      <3>1. \A n \in 0 .. 0 : n = 0
        OBVIOUS
      <3> QED
        BY <1>1, <3>1
    <2> HIDE DEF g
    <2> QED
      BY <1>0, <2>1
  <1>4. ASSUME NEW m \in 0 .. N - 1, m \in S PROVE m + 1 \in S
    <2>1. PICK g : P(g, m)
      BY <1>4
    <2> DEFINE h == [n \in 0 .. m + 1 |-> IF n = m + 1 THEN Level(m + 1, g[m]) ELSE g[n]]
    <2>2. m \in Nat /\ m + 1 \in 0 .. N
      BY <1>0
    <2>3. \A n \in 0 .. m : g[n] = Level(n, g[n - 1])
      BY <2>1, Zenon
    <2>4. ASSUME NEW n \in 0 .. m + 1 PROVE h[n] = Level(n, h[n - 1])
      <3>1. CASE n = m + 1
        BY <2>2, <3>1
      <3>2. CASE n # m + 1 /\ n # 0
        <4>1. n \in 0 .. m /\ n - 1 \in 0 .. m
          BY <2>2, <3>2
        <4>2. h[n] = g[n] /\ h[n - 1] = g[n - 1]
          BY <2>2, <4>1
        <4> QED
          BY <2>3, <4>1, <4>2
      <3>3. CASE n = 0
        <4>1. h[0] = g[0] /\ 0 \in 0 .. m
          BY <2>2
        <4>2. g[0] = Level(0, g[0 - 1])
          BY <2>3, <4>1
        <4> QED
          BY <1>1, <3>3, <4>1, <4>2
      <3> QED
        BY <3>1, <3>2, <3>3
    <2>5. P(h, m + 1)
      <3>1. h = [n \in 0 .. m + 1 |-> h[n]]
        OBVIOUS
      <3> HIDE DEF h
      <3> QED
        BY <2>4, <3>1
    <2> HIDE DEF h, P
    <2> QED
      BY <2>2, <2>5
  <1> HIDE DEF S
  <1>5. N \in S
    <2>1. 0 .. N \subseteq S
      <3> HIDE DEF N
      <3> QED
        BY <1>0, <1>3, <1>4, UpTo
    <2> QED
      BY <1>0, <2>1
  <1>6. PICK g : P(g, N)
    BY <1>5 DEF S
  <1>7. P(f, N)
    BY <1>6
  <1> HIDE DEF f
  <1>8. \A n \in 0 .. N : f[n] = Level(n, f[n - 1])
    BY <1>7, Zenon
  <1> QED
    BY <1>2, <1>8 DEF Level

-----------------------------------------------------------------------------
(***************************************************************************)
(* The evaluator and SQL.                                                  *)
(***************************************************************************)
\* A row of Go values stands for a row of SQL values, column by column.
RowDenotes(row, sql, columns) ==
    /\ Len(columns) \in Nat
    /\ \A i \in 1 .. Len(columns) : Denotes(row[i], sql[i]) /\ IsSQL(sql[i])

\* A column is found at the same place by both.
LEMMA ColumnDenotes ==
    ASSUME NEW row, NEW sql, NEW columns, RowDenotes(row, sql, columns), NEW name
    PROVE  /\ Denotes(ColumnValue(name, row, columns), Named(name, sql, columns))
           /\ IsSQL(Named(name, sql, columns))
  <1> DEFINE at == {i \in 1 .. Len(columns) : columns[i].Name = name}
  <1>1. CASE at = {}
    <2>1. Named(name, sql, columns) = NoValue
      BY <1>1 DEF Named
    <2> QED
      BY <2>1 DEF Denotes, IsSQL, NoValue, SQLValue
  <1>2. CASE at # {}
    <2> DEFINE m == CHOOSE i \in at : \A j \in at : i <= j
    <2>1. ColumnValue(name, row, columns) = row[m]
      BY <1>2 DEF ColumnValue, Positions, First
    <2>2. Named(name, sql, columns) = sql[m]
      BY <1>2 DEF Named, Min
    <2>3. m \in at
      <3>1. at \subseteq Nat
        BY DEF RowDenotes
      <3>2. \E i \in at : \A j \in at : i <= j
        <4> HIDE DEF at
        <4> QED
          BY <1>2, <3>1, NatMin
      <3> HIDE DEF at
      <3> QED
        BY <3>2
    <2> HIDE DEF m
    <2> QED
      BY <2>1, <2>2, <2>3 DEF RowDenotes
  <1> QED
    BY <1>1, <1>2

\* What an operand evaluates to stands for its SQL value.
LEMMA OperandDenotes ==
    ASSUME NEW row, NEW sql, NEW columns, RowDenotes(row, sql, columns), NEW parts,
           NEW n \in 0 .. MaxHeight, NEW e \in Exprs[n]
    PROVE  /\ Denotes(evalNode(e, parts, row, columns), OperandOf(e, sql, columns))
           /\ IsSQL(OperandOf(e, sql, columns))
  <1>1. CASE e \notin Atoms
    <2>1. e.node \in {"IsNullExpr", "BinaryExpr"}
      BY <1>1, Shape
    <2>2. OperandOf(e, sql, columns) = NoValue
      BY <2>1 DEF OperandOf
    <2> QED
      BY <2>2 DEF Denotes, IsSQL, NoValue, SQLValue
  <1>2. CASE e \in Atoms
    <2>1. CASE e.node = "NullLiteral"
      <3>1. evalNode(e, parts, row, columns) = Nil /\ OperandOf(e, sql, columns) = SQLNull
        BY <2>1 DEF evalNode, OperandOf
      <3> QED
        BY <3>1 DEF Denotes, IsSQL, SQLNull, SQLValue
    <2>2. CASE e.node = "IntegerLiteral" /\ e.Value \in Int
      <3>1. /\ evalNode(e, parts, row, columns) = Int64(e.Value)
            /\ OperandOf(e, sql, columns) = NumberValue(2 * e.Value)
        BY <2>2 DEF evalNode, OperandOf
      <3> QED
        BY <2>2, <3>1 DEF Denotes, IsSQL, NumberValue, NoValue, SQLValue, Int64
    <2>3. CASE e.node = "FloatLiteral" /\ e.Value \in Int
      <3>1. /\ evalNode(e, parts, row, columns) = Float64(e.Value)
            /\ OperandOf(e, sql, columns) = NumberValue(e.Value)
        BY <2>3 DEF evalNode, OperandOf
      <3> QED
        BY <2>3, <3>1 DEF Denotes, IsSQL, NumberValue, NoValue, SQLValue, Float64
    <2>4. CASE e.node = "BoolLiteral" /\ e.Value \in BOOLEAN
      <3>1. /\ evalNode(e, parts, row, columns) = Bool(e.Value)
            /\ OperandOf(e, sql, columns) = SQLValue("bool", e.Value)
        BY <2>4 DEF evalNode, OperandOf
      <3> QED
        BY <2>4, <3>1 DEF Denotes, IsSQL, SQLValue
    <2>5. CASE e.node = "StringLiteral" /\ e.Value \in Seq(Bytes)
      <3>1. /\ evalNode(e, parts, row, columns) = GoString(e.Value)
            /\ OperandOf(e, sql, columns) = SQLValue("string", e.Value)
        BY <2>5 DEF evalNode, OperandOf
      <3> QED
        BY <2>5, <3>1 DEF Denotes, IsSQL, SQLValue
    <2>6. CASE e.node = "ColumnRef"
      <3>1. /\ evalNode(e, parts, row, columns) = ColumnValue(e.Name, row, columns)
            /\ OperandOf(e, sql, columns) = Named(e.Name, sql, columns)
        BY <2>6 DEF evalNode, OperandOf
      <3> QED
        BY <3>1, ColumnDenotes
    <2> QED
      BY <1>2, <2>1, <2>2, <2>3, <2>4, <2>5, <2>6, AtomNodes
  <1> QED
    BY <1>1, <1>2

\* The evaluator agrees with SQL on every condition and every row: where
\* three-valued logic has a verdict, evalExpr raises no error and is true exactly
\* if the verdict is true, although it compares numbers as float64, has no
\* unknown and does not look at the right side of an AND or OR it has decided.
THEOREM EvaluatorAgrees ==
    ASSUME NEW row, NEW sql, NEW columns, RowDenotes(row, sql, columns),
           NEW e \in Conditions
    PROVE  /\ Means(e, sql, columns) \in TruthValues
           /\ Agrees(evalExpr(e, row, columns), Means(e, sql, columns))
  <1>0. MaxHeight \in Nat
    BY HeightAssumption
  <1>1. PICK f : /\ \A n \in 0 .. MaxHeight :
                        f[n] = evalTrees(Exprs[n], f[n - 1], row, columns)
                 /\ \A t : evalExpr(t, row, columns) = f[MaxHeight][t]
    BY EvalDef
  <1>2. PICK g : /\ \A n \in 0 .. MaxHeight :
                        g[n] = MeansTrees(Exprs[n], g[n - 1], sql, columns)
                 /\ \A t : t # NoWhere => Means(t, sql, columns) = g[MaxHeight][t]
    BY MeansDef
  <1>3. ASSUME NEW n \in 0 .. MaxHeight, NEW t \in Exprs[n]
        PROVE  /\ f[n][t] = evalNode(t, f[n - 1], row, columns)
               /\ g[n][t] = MeansNode(t, g[n - 1], sql, columns)
    <2>1. /\ f[n] = evalTrees(Exprs[n], f[n - 1], row, columns)
          /\ g[n] = MeansTrees(Exprs[n], g[n - 1], sql, columns)
      BY <1>1, <1>2
    <2> QED
      BY <2>1 DEF evalTrees, MeansTrees
  <1>4. ASSUME NEW n \in 0 .. MaxHeight, NEW t \in Exprs[n]
        PROVE  Denotes(f[n][t], OperandOf(t, sql, columns)) /\ IsSQL(OperandOf(t, sql, columns))
    BY <1>3, OperandDenotes
  <1> DEFINE Good(v, x) == Agrees(v, x) /\ x \in TruthValues
             S == {n \in 0 .. MaxHeight : \A t \in Exprs[n] : Good(f[n][t], g[n][t])}
  <1>5. ASSUME NEW n \in 0 .. MaxHeight, NEW t \in Exprs[n], t \in Atoms
        PROVE  Good(f[n][t], g[n][t])
    <2>1. t.node # "IsNullExpr" /\ t.node # "BinaryExpr"
      BY <1>5, AtomNodes
    <2>2. g[n][t] = Bare3(OperandOf(t, sql, columns))
      BY <1>3, <2>1 DEF MeansNode
    <2> QED
      BY <1>4, <2>2, BareAgrees
  <1>6. 0 \in S
    <2>1. 0 \in 0 .. MaxHeight /\ Exprs[0] = Atoms
      BY <1>0, ExprsDef
    <2> HIDE DEF Good
    <2> QED
      BY <1>5, <2>1
  <1>7. ASSUME NEW m \in 0 .. MaxHeight - 1, m \in S PROVE m + 1 \in S
    <2>1. m + 1 \in 0 .. MaxHeight /\ (m + 1) - 1 = m /\ m \in 0 .. MaxHeight
      BY <1>0
    <2>2. ASSUME NEW t \in Exprs[m + 1] PROVE Good(f[m + 1][t], g[m + 1][t])
      <3>1. /\ f[m + 1][t] = evalNode(t, f[m], row, columns)
            /\ g[m + 1][t] = MeansNode(t, g[m], sql, columns)
        BY <1>3, <2>1
      <3>2. CASE t \in Atoms
        BY <1>5, <2>1, <3>2
      <3>3. CASE t.node = "IsNullExpr" /\ t.Not \in BOOLEAN /\ t.Expr \in Exprs[m]
        <4>1. f[m + 1][t] = NullTestOf(f[m][t.Expr], t.Not)
          BY <3>1, <3>3 DEF evalNode
        <4>2. g[m + 1][t] = NullTest3(OperandOf(t.Expr, sql, columns), t.Not)
          BY <3>1, <3>3 DEF MeansNode
        <4> QED
          BY <1>4, <2>1, <3>3, <4>1, <4>2, NullTestAgrees
      <3>4. CASE t.node = "BinaryExpr" /\ t.Op \in Comparisons
                 /\ t.Left \in Exprs[m] /\ t.Right \in Exprs[m]
        <4>1. f[m + 1][t] = Operate(t.Op, f[m][t.Left], f[m][t.Right])
          BY <3>1, <3>4 DEF evalNode
        <4>2. t.Op \notin {"AND", "OR"}
          BY <3>4 DEF Comparisons
        <4>3. g[m + 1][t] = Compare3(OperandOf(t.Left, sql, columns), t.Op,
                                     OperandOf(t.Right, sql, columns))
          BY <3>1, <3>4, <4>2 DEF MeansNode
        <4>4. /\ Denotes(f[m][t.Left], OperandOf(t.Left, sql, columns))
              /\ Denotes(f[m][t.Right], OperandOf(t.Right, sql, columns))
              /\ IsSQL(OperandOf(t.Left, sql, columns)) /\ IsSQL(OperandOf(t.Right, sql, columns))
          BY <1>4, <2>1, <3>4
        <4> QED
          BY <3>4, <4>1, <4>3, <4>4, ComparisonAgrees, ComparisonType
      <3>5. CASE t.node = "BinaryExpr" /\ t.Op \in {"AND", "OR"}
                 /\ t.Left \in Exprs[m] /\ t.Right \in Exprs[m]
        <4>1. f[m + 1][t] = Operate(t.Op, f[m][t.Left], f[m][t.Right])
          BY <3>1, <3>5 DEF evalNode
        <4>2. g[m + 1][t] = IF t.Op = "AND" THEN And3(g[m][t.Left], g[m][t.Right])
                                            ELSE Or3(g[m][t.Left], g[m][t.Right])
          <5>1. t.Op \notin Comparisons
            BY <3>5 DEF Comparisons
          <5> QED
            BY <3>1, <3>5, <5>1 DEF MeansNode
        <4>3. Good(f[m][t.Left], g[m][t.Left]) /\ Good(f[m][t.Right], g[m][t.Right])
          BY <1>7, <3>5
        <4> DEFINE l == f[m][t.Left]
                   r == f[m][t.Right]
                   a == g[m][t.Left]
                   b == g[m][t.Right]
        <4>4. /\ Good(Operate("AND", l, r), And3(a, b))
              /\ Good(Operate("OR", l, r), Or3(a, b))
          <5> HIDE DEF l, r, a, b
          <5> QED
            BY <4>3, ConnectivesAgree DEF l, r, a, b
        <4> HIDE DEF Good
        <4> QED
          BY <3>5, <4>1, <4>2, <4>4
      <3> QED
        BY <2>1, <3>2, <3>3, <3>4, <3>5, Shape DEF Operators
    <2> HIDE DEF Good
    <2> QED
      BY <2>1, <2>2
  <1>8. MaxHeight \in S
    <2>1. 0 .. MaxHeight \subseteq S
      <3> HIDE DEF S
      <3> QED
        BY <1>0, <1>6, <1>7, UpTo
    <2> QED
      BY <1>0, <2>1
  <1>9. e # NoWhere
    <2>1. e.node # "nil"
      <3>1. e \in Exprs[MaxHeight] /\ MaxHeight \in 0 .. MaxHeight
        BY <1>0 DEF Conditions
      <3> QED
        BY <3>1, Shape, AtomNodes
    <2> QED
      BY <2>1 DEF NoWhere
  <1> QED
    BY <1>1, <1>2, <1>8, <1>9 DEF Conditions
=============================================================================
