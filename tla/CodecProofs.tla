----------------------------- MODULE CodecProofs ----------------------------
(***************************************************************************)
(* The tuple codec is inverse to itself: whatever values a tuple of any    *)
(* table is encoded from, decoding it with the same columns returns them,  *)
(* for every width of a byte.                                              *)
(*                                                                         *)
(* The functions of TupleCodec are recursive on the number of columns,     *)
(* bytes or bits, so the proofs are by induction.  The induction           *)
(* principles of the library take a predicate as a parameter, which the    *)
(* provers cannot instantiate; here they are stated for sets.              *)
(***************************************************************************)
EXTENDS TupleCodec, NaturalsInduction, WellFoundedInduction, SequenceTheorems, TLAPS

-----------------------------------------------------------------------------
(***************************************************************************)
(* Induction and recursion.                                                *)
(***************************************************************************)

\* A set of numbers that is not empty has a least element.
LEMMA NatMin ==
    ASSUME NEW T, T \subseteq Nat, T # {}
    PROVE  \E n \in T : \A m \in T : n <= m
  <1>1. IsWellFoundedOn(OpToRel(<, Nat), Nat)
    BY NatLessThanWellFounded
  <1>2. \E x \in T : \A y \in T : ~(<<y, x>> \in OpToRel(<, Nat))
    BY <1>1, WFMin
  <1>3. OpToRel(<, Nat) = {ss \in Nat \X Nat : ss[1] < ss[2]}
    BY Zenon DEF OpToRel
  <1>4. \E x \in T : \A y \in T : ~(<<y, x>> \in {ss \in Nat \X Nat : ss[1] < ss[2]})
    BY <1>2, <1>3, Zenon
  <1>5. PICK x \in T : \A y \in T : ~(<<y, x>> \in {ss \in Nat \X Nat : ss[1] < ss[2]})
    BY <1>4
  <1>6. ASSUME NEW y \in T PROVE x <= y
    <2>1. x \in Nat /\ y \in Nat
      OBVIOUS
    <2>2. y < x => <<y, x>> \in {ss \in Nat \X Nat : ss[1] < ss[2]}
      BY <2>1
    <2> QED
      BY <1>5, <2>1, <2>2
  <1> QED
    BY <1>6

\* Induction up to a bound, over a set instead of a predicate.
LEMMA UpTo ==
    ASSUME NEW N \in Nat, NEW S, 0 \in S, \A n \in 0 .. N - 1 : n \in S => n + 1 \in S
    PROVE  0 .. N \subseteq S
  <1> SUFFICES ASSUME (0 .. N) \ S # {} PROVE FALSE
    OBVIOUS
  <1>0. (0 .. N) \ S \subseteq Nat
    OBVIOUS
  <1>1. PICK n \in (0 .. N) \ S : \A m \in (0 .. N) \ S : n <= m
    BY <1>0, NatMin
  <1>2. n # 0 /\ n - 1 \in 0 .. N - 1
    BY <1>1
  <1>3. n - 1 \in S
    BY <1>1, <1>2
  <1> QED
    BY <1>1, <1>2, <1>3

\* g is defined by recursion: from v0, each value by F from the one before.
Recurs(g, N, V, v0, F) ==
    /\ g \in [0 .. N -> V]
    /\ g[0] = v0
    /\ \A n \in 1 .. N : g[n] = F[n][g[n - 1]]

\* Functions defined by recursion up to a bound exist.
LEMMA Recursion ==
    ASSUME NEW N \in Nat, NEW V, NEW v0 \in V, NEW F \in [1 .. N -> [V -> V]]
    PROVE  \E g : Recurs(g, N, V, v0, F)
  <1> DEFINE S == {m \in 0 .. N : \E g \in [0 .. m -> V] :
                        g[0] = v0 /\ \A n \in 1 .. m : g[n] = F[n][g[n - 1]]}
  <1>1. 0 \in S
    <2> DEFINE g == [n \in 0 .. 0 |-> v0]
    <2>1. g \in [0 .. 0 -> V] /\ g[0] = v0 /\ \A n \in 1 .. 0 : g[n] = F[n][g[n - 1]]
      OBVIOUS
    <2> HIDE DEF g
    <2> QED
      BY <2>1
  <1>2. ASSUME NEW m \in 0 .. N - 1, m \in S PROVE m + 1 \in S
    <2>1. PICK g \in [0 .. m -> V] : g[0] = v0 /\ \A n \in 1 .. m : g[n] = F[n][g[n - 1]]
      BY <1>2
    <2> DEFINE h == [n \in 0 .. m + 1 |-> IF n = m + 1 THEN F[m + 1][g[m]] ELSE g[n]]
    <2>2. m + 1 \in 1 .. N /\ g[m] \in V
      BY <2>1
    <2>3. F[m + 1][g[m]] \in V
      BY <2>2
    <2>4. h \in [0 .. m + 1 -> V]
      BY <2>3
    <2>5. h[0] = v0
      BY <2>1
    <2>6. ASSUME NEW n \in 1 .. m + 1 PROVE h[n] = F[n][h[n - 1]]
      <3>1. CASE n = m + 1
        BY <3>1
      <3>2. CASE n # m + 1
        BY <3>2, <2>1
      <3> QED
        BY <3>1, <3>2
    <2> HIDE DEF h
    <2> QED
      BY <2>4, <2>5, <2>6
  <1> HIDE DEF S
  <1>3. 0 .. N \subseteq S
    BY <1>1, <1>2, UpTo
  <1>4. N \in S
    BY <1>3
  <1> QED
    BY <1>4 DEF S, Recurs

\* What every step of a recursion keeps, all its values have.
LEMMA Stays ==
    ASSUME NEW N \in Nat, NEW V, NEW f, f[0] \in V,
           \A n \in 1 .. N : f[n - 1] \in V => f[n] \in V
    PROVE  \A n \in 0 .. N : f[n] \in V
  <1> DEFINE S == {n \in 0 .. N : f[n] \in V}
  <1>1. 0 \in S
    OBVIOUS
  <1>2. ASSUME NEW n \in 0 .. N - 1, n \in S PROVE n + 1 \in S
    <2>1. n + 1 \in 1 .. N /\ (n + 1) - 1 = n /\ n + 1 \in 0 .. N
      OBVIOUS
    <2>2. f[n] \in V
      BY <1>2
    <2> QED
      BY <2>1, <2>2
  <1> HIDE DEF S
  <1>3. 0 .. N \subseteq S
    BY <1>1, <1>2, UpTo
  <1> QED
    BY <1>3 DEF S

-----------------------------------------------------------------------------
(***************************************************************************)
(* Powers.                                                                 *)
(***************************************************************************)

\* The largest exponent.
Exponent == MantissaBits + 8 * BitsPerByte

\* The powers of two are what their recursive definition says.
LEMMA TwoToDef ==
    /\ TwoTo = [k \in 0 .. Exponent |-> IF k = 0 THEN 1 ELSE 2 * TwoTo[k - 1]]
    /\ TwoTo \in [0 .. Exponent -> Nat \ {0}]
  <1> DEFINE V == Nat \ {0}
             P(g) == g = [k \in 0 .. Exponent |-> IF k = 0 THEN 1 ELSE 2 * g[k - 1]]
             F == [n \in 1 .. Exponent |-> [v \in V |-> 2 * v]]
  <1>0. Exponent \in Nat
    BY WidthAssumption DEF Exponent
  <1>1. 1 \in V /\ F \in [1 .. Exponent -> [V -> V]]
    OBVIOUS
  <1>2. PICK g : Recurs(g, Exponent, V, 1, F)
    <2> HIDE DEF F, V
    <2> QED
      BY <1>0, <1>1, Recursion
  <1>3. ASSUME NEW n \in 1 .. Exponent PROVE g[n] = 2 * g[n - 1]
    <2>1. g[n] = F[n][g[n - 1]] /\ g[n - 1] \in V
      BY <1>2, <1>0 DEF Recurs
    <2> QED
      BY <2>1
  <1>4. P(g)
    BY <1>2, <1>3, <1>0 DEF Recurs
  <1>5. P(TwoTo)
    BY <1>4 DEF TwoTo, Exponent
  <1>6. \A k \in 0 .. Exponent : TwoTo[k] \in V
    <2>1. TwoTo[0] \in V
      BY <1>5, <1>0
    <2>2. \A n \in 1 .. Exponent : TwoTo[n - 1] \in V => TwoTo[n] \in V
      BY <1>5, <1>0
    <2> HIDE DEF V
    <2> QED
      BY <2>1, <2>2, <1>0, Stays
  <1> QED
    BY <1>5, <1>6

\* A byte has at least two values.
LEMMA ByteValuesType == ByteValues \in Nat /\ ByteValues >= 2
  <1>1. BitsPerByte \in 1 .. BitsPerByte /\ BitsPerByte \in 0 .. BitsPerByte
        /\ BitsPerByte - 1 \in 0 .. BitsPerByte /\ 0 .. BitsPerByte \subseteq 0 .. Exponent
    BY WidthAssumption DEF Exponent
  <1>2. TwoTo[BitsPerByte] = 2 * TwoTo[BitsPerByte - 1] /\ TwoTo[BitsPerByte - 1] \in Nat \ {0}
    BY <1>1, TwoToDef
  <1> QED
    BY <1>2 DEF ByteValues

\* The number of values of n bytes, likewise.
LEMMA ValuesOfDef ==
    /\ ValuesOf = [n \in 0 .. 8 |-> IF n = 0 THEN 1 ELSE ByteValues * ValuesOf[n - 1]]
    /\ ValuesOf \in [0 .. 8 -> Nat \ {0}]
  <1> DEFINE V == Nat \ {0}
             P(g) == g = [n \in 0 .. 8 |-> IF n = 0 THEN 1 ELSE ByteValues * g[n - 1]]
             F == [n \in 1 .. 8 |-> [v \in V |-> ByteValues * v]]
  <1>0. \A v \in V : ByteValues * v \in V
    BY ByteValuesType
  <1>1. 1 \in V /\ 8 \in Nat /\ F \in [1 .. 8 -> [V -> V]]
    BY <1>0
  <1>2. PICK g : Recurs(g, 8, V, 1, F)
    <2> HIDE DEF F, V
    <2> QED
      BY <1>1, Recursion
  <1>3. ASSUME NEW n \in 1 .. 8 PROVE g[n] = ByteValues * g[n - 1]
    <2>1. g[n] = F[n][g[n - 1]] /\ g[n - 1] \in V
      BY <1>2 DEF Recurs
    <2> QED
      BY <2>1
  <1>4. P(g)
    BY <1>2, <1>3 DEF Recurs
  <1>5. P(ValuesOf)
    BY <1>4 DEF ValuesOf
  <1>6. \A n \in 0 .. 8 : ValuesOf[n] \in V
    <2>1. ValuesOf[0] \in V
      BY <1>5
    <2>2. \A n \in 1 .. 8 : ValuesOf[n - 1] \in V => ValuesOf[n] \in V
      BY <1>5, <1>0
    <2> HIDE DEF V
    <2> QED
      BY <2>1, <2>2, <1>1, Stays
  <1> QED
    BY <1>5, <1>6

-----------------------------------------------------------------------------
(***************************************************************************)
(* Quotients and digits.                                                   *)
(***************************************************************************)

\* A quotient and a remainder in range are the quotient and the remainder.
LEMMA Quotient ==
    ASSUME NEW m \in Nat \ {0}, NEW q \in Int, NEW r \in 0 .. m - 1, NEW u, u = q * m + r
    PROVE  u \div m = q /\ u % m = r
  <1>1. u \in Int
    OBVIOUS
  <1>2. u = m * (u \div m) + (u % m) /\ (u % m) \in 0 .. m - 1 /\ (u \div m) \in Int
    BY <1>1
  <1> DEFINE p == u \div m
             s == u % m
  <1>3. p \in Int /\ s \in 0 .. m - 1 /\ m * p + s = m * q + r
    BY <1>2
  <1> HIDE DEF p, s
  <1>4. m * (p - q) = r - s
    BY <1>3
  <1>5. p = q
    <2>1. CASE p > q
      <3>1. p - q >= 1 /\ p - q \in Int
        BY <2>1, <1>3
      <3>2. m * (p - q) >= m
        BY <3>1
      <3> QED
        BY <3>2, <1>4, <1>3
    <2>2. CASE p < q
      <3>1. q - p >= 1 /\ q - p \in Int
        BY <2>2, <1>3
      <3>2. m * (q - p) >= m
        BY <3>1
      <3>3. m * (q - p) = s - r
        BY <1>4, <1>3
      <3> QED
        BY <3>2, <3>3, <1>3
    <2> QED
      BY <2>1, <2>2, <1>3
  <1>6. s = r
    BY <1>3, <1>5
  <1> QED
    BY <1>5, <1>6 DEF p, s

\* One more digit of u in base b, after the digits above m.
LEMMA NextDigit ==
    ASSUME NEW u \in Nat, NEW b \in Nat \ {0}, NEW m \in Nat \ {0}
    PROVE  (u \div (b * m)) * b + ((u \div m) % b) = u \div m
  <1>1. PICK q \in Nat, r \in 0 .. m - 1 : u = q * m + r /\ q = u \div m
    <2>1. u = m * (u \div m) + (u % m) /\ (u % m) \in 0 .. m - 1 /\ (u \div m) \in Nat
      OBVIOUS
    <2> QED
      BY <2>1
  <1>2. PICK p \in Nat, s \in 0 .. b - 1 : q = p * b + s /\ s = q % b
    <2>1. q = b * (q \div b) + (q % b) /\ (q % b) \in 0 .. b - 1 /\ (q \div b) \in Nat
      OBVIOUS
    <2>2. q = (q \div b) * b + (q % b)
      BY <2>1
    <2> QED
      BY <2>1, <2>2
  <1>3. b * m \in Nat \ {0} /\ s * m + r \in Nat
    OBVIOUS
  <1>4. s * m + r < b * m
    <2>1. s * m <= (b - 1) * m
      OBVIOUS
    <2>2. (b - 1) * m = b * m - m
      OBVIOUS
    <2> QED
      BY <2>1, <2>2
  <1>5. u = p * (b * m) + (s * m + r)
    <2>1. (p * b) * m = p * (b * m) /\ (p * b + s) * m = (p * b) * m + s * m
      OBVIOUS
    <2>2. u = (p * b + s) * m + r
      BY <1>1, <1>2
    <2> QED
      BY <2>1, <2>2
  <1>6. u \div (b * m) = p
    <2> PICK c : c = b * m
      OBVIOUS
    <2> PICK t : t = s * m + r
      OBVIOUS
    <2>1. c \in Nat \ {0} /\ t \in 0 .. c - 1 /\ u = p * c + t
      BY <1>3, <1>4, <1>5
    <2>2. u \div c = p
      BY <2>1, Quotient
    <2> QED
      BY <2>2
  <1> QED
    BY <1>1, <1>2, <1>6

-----------------------------------------------------------------------------
(***************************************************************************)
(* Big-endian numbers.                                                     *)
(***************************************************************************)

\* An unsigned integer of a size is below its number of values.
LEMMA UnsignedType ==
    ASSUME NEW n \in Int, NEW size \in 0 .. 8
    PROVE  Unsigned(n, size) \in 0 .. ValuesOf[size] - 1
  <1>1. PICK m : m = ValuesOf[size] /\ m \in Nat \ {0}
    BY ValuesOfDef
  <1>2. n % m \in 0 .. m - 1
    BY <1>1
  <1> QED
    BY <1>1, <1>2 DEF Unsigned

\* The bytes of a number are bytes.
LEMMA BigEndianType ==
    ASSUME NEW n \in Int, NEW size \in 1 .. 8
    PROVE  BigEndian(n, size) \in Seq(Bytes) /\ Len(BigEndian(n, size)) = size
  <1>1. ASSUME NEW i \in 1 .. size
        PROVE  (Unsigned(n, size) \div ValuesOf[size - i]) % ByteValues \in Bytes
    <2>1. PICK u : u = Unsigned(n, size) /\ u \in Nat
      <3>1. size \in 0 .. 8
        OBVIOUS
      <3>2. PICK m : m = ValuesOf[size] /\ m \in Nat
        BY <3>1, ValuesOfDef
      <3>3. Unsigned(n, size) \in 0 .. m - 1
        BY <3>1, <3>2, UnsignedType
      <3> QED
        BY <3>2, <3>3
    <2>2. PICK m : m = ValuesOf[size - i] /\ m \in Nat \ {0}
      BY ValuesOfDef
    <2>3. (u \div m) \in Int
      BY <2>1, <2>2
    <2>4. (u \div m) % ByteValues \in 0 .. ByteValues - 1
      BY <2>3, ByteValuesType
    <2> QED
      BY <2>1, <2>2, <2>4 DEF Bytes
  <1> QED
    BY <1>1 DEF BigEndian

\* What FromBigEndian computes, byte by byte.
LEMMA FromBigEndianDef ==
    ASSUME NEW bytes \in Seq(Bytes)
    PROVE  \E f \in [0 .. Len(bytes) -> Nat] :
              /\ f[0] = 0
              /\ \A n \in 1 .. Len(bytes) : f[n] = f[n - 1] * ByteValues + bytes[n]
              /\ FromBigEndian(bytes) = f[Len(bytes)]
  <1> DEFINE N == Len(bytes)
             P(g) == g = [n \in 0 .. N |-> IF n = 0 THEN 0 ELSE g[n - 1] * ByteValues + bytes[n]]
             F == [n \in 1 .. N |-> [v \in Nat |-> v * ByteValues + bytes[n]]]
             f == CHOOSE g : P(g)
  <1>0. N \in Nat /\ 0 \in Nat /\ \A n \in 1 .. N : bytes[n] \in Nat
    BY ByteValuesType DEF Bytes
  <1>1. \A n \in 1 .. N, v \in Nat : v * ByteValues + bytes[n] \in Nat
    BY <1>0, ByteValuesType
  <1>2. F \in [1 .. N -> [Nat -> Nat]]
    BY <1>1
  <1>3. PICK g : Recurs(g, N, Nat, 0, F)
    <2> HIDE DEF F, N
    <2> QED
      BY <1>0, <1>2, Recursion
  <1>4. ASSUME NEW n \in 1 .. N PROVE g[n] = g[n - 1] * ByteValues + bytes[n]
    <2>1. g[n] = F[n][g[n - 1]] /\ g[n - 1] \in Nat
      <3> HIDE DEF F, N
      <3> QED
        BY <1>3, <1>0 DEF Recurs
    <2> QED
      BY <2>1
  <1>5. P(g)
    BY <1>3, <1>4, <1>0 DEF Recurs
  <1>6. P(f)
    BY <1>5
  <1>7. FromBigEndian(bytes) = f[N]
    BY DEF FromBigEndian
  <1> HIDE DEF f, F
  <1>8. f[0] = 0 /\ \A n \in 1 .. N : f[n] = f[n - 1] * ByteValues + bytes[n]
    BY <1>6, <1>0
  <1>9. \A n \in 0 .. N : f[n] \in Nat
    <2>1. \A n \in 1 .. N : f[n - 1] \in Nat => f[n] \in Nat
      BY <1>8, <1>1
    <2> HIDE DEF N
    <2> QED
      BY <2>1, <1>8, <1>0, Stays
  <1>10. f \in [0 .. N -> Nat]
    BY <1>6, <1>9
  <1> QED
    BY <1>7, <1>8, <1>10

\* Reading the bytes of a number gives the number, as an unsigned one.
LEMMA BigEndianInverse ==
    ASSUME NEW n \in Int, NEW size \in 1 .. 8
    PROVE  FromBigEndian(BigEndian(n, size)) = Unsigned(n, size)
  <1>1. PICK u : u = Unsigned(n, size)
    OBVIOUS
  <1>0. size \in 0 .. 8 /\ size \in Nat
    OBVIOUS
  <1>2. PICK M : M = ValuesOf[size] /\ M \in Nat \ {0} /\ u \in 0 .. M - 1
    BY <1>0, <1>1, UnsignedType, ValuesOfDef
  <1>3. PICK bytes : bytes = BigEndian(n, size)
    OBVIOUS
  <1>4. bytes \in Seq(Bytes) /\ Len(bytes) = size
    BY <1>3, BigEndianType
  <1>5. PICK f \in [0 .. size -> Nat] :
              /\ f[0] = 0
              /\ \A i \in 1 .. size : f[i] = f[i - 1] * ByteValues + bytes[i]
              /\ FromBigEndian(bytes) = f[size]
    BY <1>4, FromBigEndianDef
  <1> DEFINE S == {i \in 0 .. size : f[i] = u \div ValuesOf[size - i]}
  <1>6. 0 \in S
    <2>1. u \div M = 0
      <3>1. u = 0 * M + u
        BY <1>2
      <3> QED
        BY <3>1, <1>2, Quotient
    <2>2. size - 0 = size /\ 0 \in 0 .. size
      OBVIOUS
    <2> QED
      BY <2>1, <2>2, <1>2, <1>5
  <1>7. ASSUME NEW i \in 0 .. size - 1, i \in S PROVE i + 1 \in S
    <2> PICK k : k = size - i
      OBVIOUS
    <2>0. k = size - i /\ k \in 1 .. 8 /\ k \in 0 .. 8 /\ k - 1 = size - (i + 1) /\ k - 1 \in 0 .. 8 /\ k # 0
      OBVIOUS
    <2>1. PICK m : m = ValuesOf[k - 1] /\ m \in Nat \ {0}
      BY <2>0, ValuesOfDef
    <2>2. ValuesOf[k] = ByteValues * m
      BY <2>0, <2>1, ValuesOfDef
    <2>3. f[i + 1] = f[i] * ByteValues + bytes[i + 1]
      BY <1>5
    <2>4. bytes[i + 1] = (u \div m) % ByteValues
      BY <1>1, <1>3, <2>0, <2>1 DEF BigEndian
    <2>5. f[i] = u \div (ByteValues * m)
      BY <1>7, <2>0, <2>2
    <2>6. f[i + 1] = u \div m
      <3>1. u \in Nat /\ ByteValues \in Nat \ {0}
        BY <1>2, ByteValuesType
      <3>2. (u \div (ByteValues * m)) * ByteValues + ((u \div m) % ByteValues) = u \div m
        BY <3>1, <2>1, NextDigit
      <3> QED
        BY <3>2, <2>3, <2>4, <2>5
    <2> QED
      BY <2>6, <2>1, <2>0
  <1> HIDE DEF S
  <1>8. 0 .. size \subseteq S
    BY <1>0, <1>6, <1>7, UpTo
  <1>9. f[size] = u \div ValuesOf[0]
    BY <1>8 DEF S
  <1>10. u \div ValuesOf[0] = u
    BY ValuesOfDef, <1>2
  <1> QED
    BY <1>1, <1>3, <1>5, <1>9, <1>10

-----------------------------------------------------------------------------
(***************************************************************************)
(* Values of the types.                                                    *)
(***************************************************************************)

\* The integers an integer type holds.
InRange(n, oid) ==
    /\ n \in Int
    /\ IF oid = "oid" THEN 0 <= n /\ n < ValuesOf[SizeOf[oid]]
       ELSE -ValuesOf[SizeOf[oid]] <= 2 * n /\ 2 * n < ValuesOf[SizeOf[oid]]

\* The sizes of the integer types.
LEMMA IntegerSizes ==
    ASSUME NEW oid \in IntegerTypes
    PROVE  SizeOf[oid] \in 1 .. 8 /\ SizeOf[oid] \in 0 .. 8
  BY DEF IntegerTypes, SizeOf

\* A type is bool, an integer type, or of variable length.
LEMMA TypeCases ==
    ASSUME NEW oid \in TypeOIDs
    PROVE  \/ oid = "bool" /\ SizeOf[oid] = 1
           \/ oid \in IntegerTypes /\ oid # "bool" /\ SizeOf[oid] > 0
           \/ oid \notin IntegerTypes /\ oid # "bool" /\ SizeOf[oid] = -1
  BY DEF TypeOIDs, IntegerTypes, SizeOf

\* Narrowing a number gives one of the column's type.
LEMMA NarrowInRange ==
    ASSUME NEW n \in Int, NEW oid \in IntegerTypes
    PROVE  InRange(Narrow(n, oid), oid)
  <1>1. PICK size : size = SizeOf[oid] /\ size \in 0 .. 8
    BY IntegerSizes
  <1>2. PICK m : m = ValuesOf[size] /\ m \in Nat \ {0}
    BY <1>1, ValuesOfDef
  <1>3. PICK u : u = Unsigned(n, size) /\ u \in 0 .. m - 1
    BY <1>1, <1>2, UnsignedType
  <1>4. CASE oid = "oid"
    BY <1>1, <1>2, <1>3, <1>4 DEF InRange, Narrow
  <1>5. CASE oid # "oid"
    <2>1. Narrow(n, oid) = IF 2 * u >= m THEN u - m ELSE u
      BY <1>1, <1>2, <1>3, <1>5 DEF Narrow, Signed
    <2>2. PICK k : k = Narrow(n, oid) /\ k \in Int /\ -m <= 2 * k /\ 2 * k < m
      BY <2>1, <1>2, <1>3
    <2> QED
      BY <2>2, <1>1, <1>2, <1>5 DEF InRange
  <1> QED
    BY <1>4, <1>5

\* A number of the column's type survives the way through its unsigned form.
LEMMA NarrowUnsigned ==
    ASSUME NEW oid \in IntegerTypes, NEW v, InRange(v, oid)
    PROVE  Narrow(Unsigned(v, SizeOf[oid]), oid) = v
  <1>1. PICK size : size = SizeOf[oid] /\ size \in 0 .. 8
    BY IntegerSizes
  <1>2. PICK m : m = ValuesOf[size] /\ m \in Nat \ {0}
    BY <1>1, ValuesOfDef
  <1>3. \A k \in 0 .. m - 1 : k % m = k
    BY <1>2
  <1>4. PICK u : u = Unsigned(v, size)
    OBVIOUS
  <1>5. v \in Int
    BY DEF InRange
  <1>6. u \in 0 .. m - 1 /\ Unsigned(u, size) = u
    BY <1>1, <1>2, <1>3, <1>4, <1>5, UnsignedType DEF Unsigned
  <1>7. CASE oid = "oid"
    <2>1. v \in 0 .. m - 1
      BY <1>1, <1>2, <1>7 DEF InRange
    <2>2. u = v
      BY <2>1, <1>2, <1>3, <1>4 DEF Unsigned
    <2> QED
      BY <2>2, <1>1, <1>4, <1>6, <1>7 DEF Narrow
  <1>8. CASE oid # "oid"
    <2>1. -m <= 2 * v /\ 2 * v < m
      BY <1>1, <1>2, <1>8 DEF InRange
    <2>2. Narrow(u, oid) = IF 2 * u >= m THEN u - m ELSE u
      BY <1>1, <1>2, <1>6, <1>8 DEF Narrow, Signed
    <2>3. CASE v >= 0
      <3>1. v \in 0 .. m - 1
        BY <2>1, <2>3, <1>5, <1>2
      <3>2. u = v
        BY <3>1, <1>2, <1>3, <1>4 DEF Unsigned
      <3> QED
        BY <3>2, <2>1, <2>2, <1>1, <1>4, <1>5, <1>2
    <2>4. CASE v < 0
      <3>1. v + m \in 0 .. m - 1
        BY <2>1, <2>4, <1>5, <1>2
      <3>2. u = v + m
        <4>1. PICK r : r = v + m
          OBVIOUS
        <4>2. v = (-1) * m + r
          BY <4>1, <1>5, <1>2
        <4>3. v % m = r
          BY <4>1, <4>2, <3>1, <1>2, Quotient
        <4> QED
          BY <4>1, <4>3, <1>2, <1>4 DEF Unsigned
      <3> QED
        BY <3>2, <2>1, <2>2, <1>1, <1>4, <1>5, <1>2
    <2> QED
      BY <2>3, <2>4, <1>5
  <1> QED
    BY <1>7, <1>8

-----------------------------------------------------------------------------
(***************************************************************************)
(* One value.                                                              *)
(***************************************************************************)

\* What evalLiteral and DecodeTuple make for a column of a type.
ValueOK(v, oid) ==
    \/ v = Nil
    \/ oid = "bool" /\ v.val \in BOOLEAN /\ v = Bool(v.val)
    \/ /\ oid \in IntegerTypes
       /\ v = [kind |-> KindOf[oid], val |-> v.val]
       /\ InRange(v.val, oid)
    \/ /\ oid \in TypeOIDs /\ oid \notin IntegerTypes /\ oid # "bool"
       /\ v.kind \in {"string", "[]byte"}
       /\ v.val \in Seq(Bytes) /\ Len(v.val) < ValuesOf[LengthSize]

\* What is read where v was written: a byte slice comes back as a string.
AsRead(v, oid) == IF v # Nil /\ SizeOf[oid] < 0 THEN GoString(v.val) ELSE v

\* The first part of a concatenation, and the rest.
LEMMA Front ==
    ASSUME NEW S, NEW s \in Seq(S), NEW t \in Seq(S)
    PROVE  /\ SubSeq(s \o t, 1, Len(s)) = s
           /\ Drop(s \o t, Len(s)) = t
  <1>1. SubSeq(s \o t, 1, Len(s)) = s
    <2>1. /\ SubSeq(s \o t, 1, Len(s)) \in Seq(S)
          /\ Len(SubSeq(s \o t, 1, Len(s))) = Len(s)
          /\ \A i \in 1 .. Len(s) : SubSeq(s \o t, 1, Len(s))[i] = s[i]
      OBVIOUS
    <2> QED
      BY <2>1
  <1>2. Drop(s \o t, Len(s)) = t
    <2>1. /\ Drop(s \o t, Len(s)) \in Seq(S)
          /\ Len(Drop(s \o t, Len(s))) = Len(t)
          /\ \A i \in 1 .. Len(t) : Drop(s \o t, Len(s))[i] = t[i]
      BY DEF Drop
    <2> QED
      BY <2>1
  <1> QED
    BY <1>1, <1>2

\* decodeFixed reads back what encodeFixed has written, whatever follows.
LEMMA FixedInverse ==
    ASSUME NEW oid \in TypeOIDs, SizeOf[oid] > 0, NEW v, v # Nil, ValueOK(v, oid),
           NEW rest \in Seq(Bytes)
    PROVE  /\ encodeFixed(v, oid) \in Seq(Bytes)
           /\ decodeFixed(encodeFixed(v, oid) \o rest, oid)
                = [value |-> v, n |-> Len(encodeFixed(v, oid))]
  <1> PICK enc : enc = encodeFixed(v, oid)
    OBVIOUS
  <1>1. CASE oid = "bool"
    <2>1. v.val \in BOOLEAN /\ v = Bool(v.val)
      BY <1>1 DEF ValueOK, IntegerTypes
    <2>2. enc = <<IF v.val THEN 1 ELSE 0>>
      BY <1>1 DEF encodeFixed
    <2>3. enc \in Seq(Bytes) /\ Len(enc) = 1 /\ (enc[1] # 0 <=> v.val)
      BY <2>2, ByteValuesType DEF Bytes
    <2>4. SubSeq(enc \o rest, 1, 1) = enc /\ Len(enc \o rest) >= 1
      <3>1. SubSeq(enc \o rest, 1, Len(enc)) = enc
        BY <2>3, Front
      <3>0. enc \in Seq(Bytes)
        BY <2>3
      <3>2. Len(enc \o rest) = Len(enc) + Len(rest)
        BY <3>0, ConcatProperties, Zenon
      <3> QED
        BY <3>1, <3>2, <2>3
    <2>5. (enc[1] # 0) = v.val
      BY <2>3, <2>1
    <2>6. decodeFixed(enc \o rest, oid) = [value |-> Bool(enc[1] # 0), n |-> 1]
      BY <2>4, <1>1 DEF decodeFixed, SizeOf
    <2> QED
      BY <2>1, <2>3, <2>5, <2>6
  <1>2. CASE oid \in IntegerTypes
    <2>1. v = [kind |-> KindOf[oid], val |-> v.val] /\ InRange(v.val, oid) /\ oid # "bool"
      BY <1>2 DEF ValueOK, IntegerTypes
    <2>2. PICK size : size = SizeOf[oid] /\ size \in 1 .. 8
      BY <1>2, IntegerSizes
    <2>3. enc = BigEndian(v.val, size) /\ v.val \in Int
      BY <2>1, <2>2 DEF encodeFixed, InRange
    <2>4. enc \in Seq(Bytes) /\ Len(enc) = size
      BY <2>2, <2>3, BigEndianType
    <2>5. SubSeq(enc \o rest, 1, size) = enc /\ Len(enc \o rest) >= size
      BY <2>2, <2>4, Front
    <2>6. Narrow(FromBigEndian(enc), oid) = v.val
      BY <1>2, <2>1, <2>2, <2>3, BigEndianInverse, NarrowUnsigned
    <2>7. decodeFixed(enc \o rest, oid)
            = [value |-> [kind |-> KindOf[oid], val |-> Narrow(FromBigEndian(enc), oid)],
               n |-> size]
      <3>1. ~(Len(enc \o rest) < size)
        BY <2>2, <2>4
      <3> QED
        BY <2>1, <2>2, <2>5, <3>1 DEF decodeFixed
    <2> QED
      BY <2>1, <2>4, <2>6, <2>7
  <1> QED
    BY <1>1, <1>2, TypeCases

\* How the bytes of a tuple are grouped does not matter.
LEMMA BytesAssociative ==
    ASSUME NEW s \in Seq(Bytes), NEW t \in Seq(Bytes), NEW u \in Seq(Bytes)
    PROVE  (s \o t) \o u = s \o (t \o u) /\ t \o u \in Seq(Bytes)
  <1>1. PICK S : S = Bytes
    OBVIOUS
  <1>2. s \in Seq(S) /\ t \in Seq(S) /\ u \in Seq(S)
    BY <1>1
  <1>3. (s \o t) \o u = s \o (t \o u)
    BY <1>2, ConcatAssociative
  <1>4. t \o u \in Seq(Bytes)
    BY ConcatProperties
  <1> QED
    BY <1>3, <1>4

\* decodeVariable reads back what encodeVariable has written, whatever follows.
LEMMA VariableInverse ==
    ASSUME NEW v, v.val \in Seq(Bytes), Len(v.val) < ValuesOf[LengthSize],
           NEW rest \in Seq(Bytes)
    PROVE  /\ encodeVariable(v) \in Seq(Bytes)
           /\ decodeVariable(encodeVariable(v) \o rest)
                = [value |-> GoString(v.val), n |-> Len(encodeVariable(v))]
  <1>1. PICK bytes \in Seq(Bytes) : bytes = v.val
    OBVIOUS
  <1>2. PICK size : size = LengthSize /\ size = 4 /\ size \in 1 .. 8 /\ size \in 0 .. 8
    BY DEF LengthSize
  <1>3. PICK length \in Nat : length = Len(bytes)
    OBVIOUS
  <1>4. PICK head : head = BigEndian(length, size)
    OBVIOUS
  <1>5. head \in Seq(Bytes) /\ Len(head) = size
    BY <1>2, <1>4, BigEndianType
  <1>6. encodeVariable(v) = head \o bytes
    BY <1>1, <1>2, <1>3, <1>4 DEF encodeVariable
  <1>7. FromBigEndian(head) = length
    <2>1. PICK m : m = ValuesOf[size] /\ m \in Nat \ {0}
      BY <1>2, ValuesOfDef
    <2>2. length < m
      BY <2>1, <1>1, <1>2, <1>3
    <2>3. length % m = length
      <3>1. length = 0 * m + length /\ length \in 0 .. m - 1
        BY <2>1, <2>2
      <3> QED
        BY <3>1, <2>1, Quotient
    <2>4. Unsigned(length, size) = length
      BY <2>1, <2>3 DEF Unsigned
    <2> QED
      BY <2>4, <1>2, <1>4, BigEndianInverse
  <1>8. PICK data \in Seq(Bytes) : data = bytes \o rest
    BY ConcatProperties
  <1>9. (head \o bytes) \o rest = head \o data
    BY <1>5, <1>8, BytesAssociative
  <1>10. SubSeq(head \o data, 1, size) = head
    BY <1>5, Front
  <1>12. Len(data) = length + Len(rest) /\ Len(head \o data) = size + (length + Len(rest))
    <2>1. Len(bytes \o rest) = Len(bytes) + Len(rest)
      BY ConcatProperties, Zenon
    <2>2. Len(head \o data) = Len(head) + Len(data)
      BY <1>5, ConcatProperties, Zenon
    <2> QED
      BY <2>1, <2>2, <1>3, <1>5, <1>8
  <1>11. SubSeq(head \o data, size + 1, size + length) = bytes
    <2>1. ASSUME NEW i \in 1 .. length
          PROVE  (head \o data)[size + i] = bytes[i]
      <3>1. Len(rest) \in Nat /\ i <= length + Len(rest) /\ i \in 1 .. length + Len(rest)
        BY <1>3
      <3>2. size + i \in 1 .. size + (length + Len(rest)) /\ ~(size + i <= size)
            /\ (size + i) - size = i
        BY <3>1, <1>2
      <3>3. (head \o data)[size + i] = data[i]
        BY <3>2, <1>5, <1>12, ConcatProperties
      <3>4. data[i] = bytes[i]
        BY <3>1, <1>3, <1>8, ConcatProperties
      <3> QED
        BY <3>3, <3>4
    <2>3. PICK w, lo, hi : w = head \o data /\ lo = size + 1 /\ hi = size + length
      OBVIOUS
    <2>2. lo \in Int /\ hi \in Int
      BY <2>3, <1>2
    <2>4. ASSUME NEW j \in lo .. hi PROVE w[j] \in Bytes
      <3>1. PICK i \in 1 .. length : j = size + i
        BY <2>3, <1>2, <1>3
      <3>2. bytes[i] \in Bytes
        BY <1>3
      <3> QED
        BY <2>1, <2>3, <3>1, <3>2
    <2>5. PICK s : s = SubSeq(w, lo, hi)
      OBVIOUS
    <2>6. /\ s \in Seq(Bytes)
          /\ Len(s) = IF lo <= hi THEN hi - lo + 1 ELSE 0
          /\ \A i \in 1 .. hi - lo + 1 : s[i] = w[lo + i - 1]
      BY <2>2, <2>4, <2>5, SubSeqProperties
    <2>7. Len(s) = length /\ hi - lo + 1 = length
      BY <2>3, <2>6, <1>2
    <2>8. ASSUME NEW i \in 1 .. length PROVE s[i] = bytes[i]
      <3>1. lo + i - 1 = size + i
        BY <2>3, <1>2
      <3> QED
        BY <2>1, <2>3, <2>6, <2>7, <3>1
    <2> QED
      BY <2>3, <2>5, <2>6, <2>7, <2>8, <1>3, SeqEqual
  <1>13. decodeVariable(head \o data) = [value |-> GoString(bytes), n |-> size + length]
    <2>1. ~(Len(head \o data) < size \/ Len(head \o data) < size + length)
      BY <1>12, <1>2, <1>3
    <2> QED
      BY <2>1, <1>2, <1>7, <1>10, <1>11 DEF decodeVariable
  <1>14. head \o bytes \in Seq(Bytes) /\ Len(head \o bytes) = size + length
    BY <1>3, <1>5, ConcatProperties
  <1> QED
    BY <1>1, <1>6, <1>9, <1>13, <1>14

\* One value is read back from where it was written, whatever follows it.
LEMMA ValueInverse ==
    ASSUME NEW oid \in TypeOIDs, NEW v, v # Nil, ValueOK(v, oid), NEW rest \in Seq(Bytes)
    PROVE  /\ encodeValue(v, oid) \in Seq(Bytes)
           /\ decodeValue(encodeValue(v, oid) \o rest, oid)
                = [value |-> AsRead(v, oid), n |-> Len(encodeValue(v, oid))]
  <1>1. CASE SizeOf[oid] > 0
    <2>1. ~(SizeOf[oid] < 0)
      <3>1. SizeOf[oid] \in Int
        BY TypeCases, IntegerSizes
      <3> QED
        BY <1>1, <3>1
    <2> QED
      BY <1>1, <2>1, FixedInverse DEF encodeValue, decodeValue, AsRead
  <1>2. CASE ~(SizeOf[oid] > 0)
    <2>1. SizeOf[oid] < 0 /\ oid \notin IntegerTypes /\ oid # "bool"
      BY <1>2, TypeCases
    <2>2. v.val \in Seq(Bytes) /\ Len(v.val) < ValuesOf[LengthSize]
      BY <2>1 DEF ValueOK
    <2> QED
      BY <1>2, <2>1, <2>2, VariableInverse DEF encodeValue, decodeValue, AsRead
  <1> QED
    BY <1>1, <1>2

-----------------------------------------------------------------------------
(***************************************************************************)
(* The null bitmap.                                                        *)
(***************************************************************************)

\* Whether bit k of byte j of the bitmap is to be set.
NullAt(values, j, k) ==
    /\ (j - 1) * BitsPerByte + k + 1 <= Len(values)
    /\ IsNil(values[(j - 1) * BitsPerByte + k + 1])

\* f is the byte for column group j, with its bits added one after the other.
Adds(f, values, j) ==
    /\ f \in [0 .. BitsPerByte -> Nat]
    /\ f[0] = 0
    /\ \A k \in 1 .. BitsPerByte :
            f[k] = f[k - 1] + (IF NullAt(values, j, k - 1) THEN TwoTo[k - 1] ELSE 0)

\* The powers of two.
LEMMA TwoToStep ==
    /\ TwoTo[0] = 1
    /\ \A k \in 0 .. BitsPerByte : TwoTo[k] \in Nat \ {0}
    /\ \A k \in 1 .. BitsPerByte : TwoTo[k - 1] \in Nat \ {0} /\ TwoTo[k] = 2 * TwoTo[k - 1]
  <1>0. BitsPerByte \in Nat /\ 0 .. BitsPerByte \subseteq 0 .. Exponent /\ 0 \in 0 .. Exponent
    BY WidthAssumption DEF Exponent
  <1>1. TwoTo[0] = 1 /\ \A k \in 0 .. BitsPerByte : TwoTo[k] \in Nat \ {0}
    BY <1>0, TwoToDef
  <1>2. ASSUME NEW k \in 1 .. BitsPerByte
        PROVE  TwoTo[k - 1] \in Nat \ {0} /\ TwoTo[k] = 2 * TwoTo[k - 1]
    <2>1. k \in 0 .. BitsPerByte /\ k # 0 /\ k - 1 \in 0 .. BitsPerByte /\ k \in 0 .. Exponent
      BY <1>0
    <2> QED
      BY <2>1, <1>1, TwoToDef
  <1> QED
    BY <1>1, <1>2

\* NullByte as the recursion over its bits that it is.
LEMMA NullByteDef ==
    ASSUME NEW values, NEW j
    PROVE  \E f : Adds(f, values, j) /\ NullByte(values, j) = f[BitsPerByte]
  <1> DEFINE N == BitsPerByte
             Bit(k) == IF NullAt(values, j, k - 1) THEN TwoTo[k - 1] ELSE 0
             P(g) == g = [k \in 0 .. N |-> IF k = 0 THEN 0 ELSE g[k - 1] + Bit(k)]
             F == [k \in 1 .. N |-> [v \in Nat |-> v + Bit(k)]]
             f == CHOOSE g : P(g)
  <1>0. N \in Nat /\ 0 \in Nat
    BY WidthAssumption
  <1>1. \A k \in 1 .. N : Bit(k) \in Nat
    BY TwoToStep
  <1> HIDE DEF Bit
  <1>2. F \in [1 .. N -> [Nat -> Nat]]
    BY <1>1
  <1>3. PICK g : Recurs(g, N, Nat, 0, F)
    <2> HIDE DEF F, N
    <2> QED
      BY <1>0, <1>2, Recursion
  <1>4. ASSUME NEW k \in 1 .. N PROVE g[k] = g[k - 1] + Bit(k)
    <2>1. g[k] = F[k][g[k - 1]] /\ g[k - 1] \in Nat
      <3> HIDE DEF F, N
      <3> QED
        BY <1>3, <1>0 DEF Recurs
    <2> QED
      BY <2>1
  <1>5. P(g)
    BY <1>3, <1>4, <1>0 DEF Recurs
  <1>6. P(f)
    BY <1>5
  <1>7. NullByte(values, j) = f[N]
    BY DEF NullByte, Bit, NullAt
  <1> HIDE DEF f, F
  <1>8. f[0] = 0 /\ \A k \in 1 .. N : f[k] = f[k - 1] + Bit(k)
    BY <1>6, <1>0
  <1>9. \A k \in 0 .. N : f[k] \in Nat
    <2>1. \A k \in 1 .. N : f[k - 1] \in Nat => f[k] \in Nat
      BY <1>8, <1>1
    <2> HIDE DEF N
    <2> QED
      BY <2>1, <1>8, <1>0, Stays
  <1>10. f \in [0 .. N -> Nat]
    BY <1>6, <1>9
  <1> QED
    BY <1>7, <1>8, <1>10 DEF Adds, Bit

\* The bits below k add up to less than bit k.
LEMMA LowBits ==
    ASSUME NEW values, NEW j, NEW f, Adds(f, values, j)
    PROVE  \A k \in 0 .. BitsPerByte : f[k] < TwoTo[k]
  <1> DEFINE S == {k \in 0 .. BitsPerByte : f[k] < TwoTo[k]}
  <1>0. BitsPerByte \in Nat
    BY WidthAssumption
  <1>1. 0 \in S
    BY <1>0, TwoToStep DEF Adds
  <1>2. ASSUME NEW k \in 0 .. BitsPerByte - 1, k \in S PROVE k + 1 \in S
    <2>1. k + 1 \in 1 .. BitsPerByte /\ (k + 1) - 1 = k /\ k + 1 \in 0 .. BitsPerByte
      BY <1>0
    <2>2. f[k] \in Nat /\ f[k] < TwoTo[k] /\ TwoTo[k] \in Nat /\ TwoTo[k + 1] = 2 * TwoTo[k]
      BY <1>0, <1>2, <2>1, TwoToStep DEF Adds
    <2>3. f[k + 1] = f[k] + (IF NullAt(values, j, k) THEN TwoTo[k] ELSE 0)
      BY <2>1 DEF Adds
    <2> QED
      BY <2>1, <2>2, <2>3
  <1> HIDE DEF S
  <1>3. 0 .. BitsPerByte \subseteq S
    BY <1>0, <1>1, <1>2, UpTo
  <1> QED
    BY <1>3 DEF S

\* A higher power of two is a multiple of twice a lower one.
LEMMA TwoToMultiple ==
    ASSUME NEW k \in 0 .. BitsPerByte - 1, NEW n \in k + 1 .. BitsPerByte
    PROVE  \E c \in Nat : TwoTo[n] = c * (2 * TwoTo[k])
  <1>0. BitsPerByte \in Nat
    BY WidthAssumption
  <1> DEFINE M == BitsPerByte - (k + 1)
             S == {d \in 0 .. M : \E c \in Nat : TwoTo[k + 1 + d] = c * (2 * TwoTo[k])}
  <1>1. M \in Nat
    BY <1>0
  <1>2. 0 \in S
    <2>1. k + 1 \in 1 .. BitsPerByte /\ (k + 1) - 1 = k /\ k + 1 + 0 = k + 1
      BY <1>0
    <2>2. TwoTo[k + 1] = 2 * TwoTo[k] /\ TwoTo[k] \in Nat
      BY <2>1, TwoToStep
    <2>3. TwoTo[k + 1 + 0] = 1 * (2 * TwoTo[k])
      BY <2>1, <2>2
    <2> QED
      BY <2>3, <1>1
  <1>3. ASSUME NEW d \in 0 .. M - 1, d \in S PROVE d + 1 \in S
    <2>1. PICK c \in Nat : TwoTo[k + 1 + d] = c * (2 * TwoTo[k])
      BY <1>3
    <2>2. k + 1 + (d + 1) \in 1 .. BitsPerByte /\ (k + 1 + (d + 1)) - 1 = k + 1 + d
      BY <1>0
    <2>3. TwoTo[k + 1 + (d + 1)] = 2 * TwoTo[k + 1 + d] /\ TwoTo[k] \in Nat
      BY <2>2, <1>0, TwoToStep
    <2>4. PICK t \in Nat : t = 2 * TwoTo[k]
      BY <2>3
    <2>5. TwoTo[k + 1 + (d + 1)] = (2 * c) * t
      BY <2>1, <2>3, <2>4
    <2>6. 2 * c \in Nat /\ d + 1 \in 0 .. M
      BY <1>1
    <2> QED
      BY <2>4, <2>5, <2>6
  <1>4. 0 .. M \subseteq S
    <2> HIDE DEF S, M
    <2> QED
      BY <1>1, <1>2, <1>3, UpTo
  <1>5. n - (k + 1) \in 0 .. M /\ k + 1 + (n - (k + 1)) = n
    BY <1>0
  <1> QED
    BY <1>4, <1>5

\* Adding a multiple of 2m does not change the bit above the bits below m.
LEMMA BitKept ==
    ASSUME NEW m \in Nat \ {0}, NEW u \in Nat, NEW c \in Nat
    PROVE  ((u + c * (2 * m)) \div m) % 2 = (u \div m) % 2
  <1>1. PICK q \in Nat, r \in 0 .. m - 1 : u = q * m + r /\ q = u \div m
    <2>1. u = m * (u \div m) + (u % m) /\ (u % m) \in 0 .. m - 1 /\ (u \div m) \in Nat
      OBVIOUS
    <2> QED
      BY <2>1
  <1>2. PICK w : w = u + c * (2 * m)
    OBVIOUS
  <1>3. w = (q + 2 * c) * m + r
    <2>1. PICK a \in Int, b \in Int : a = q * m /\ b = c * (2 * m)
      OBVIOUS
    <2>2. (q + 2 * c) * m = q * m + (2 * c) * m /\ (2 * c) * m = c * (2 * m)
      OBVIOUS
    <2>3. (q + 2 * c) * m = a + b
      BY <2>1, <2>2
    <2>4. u = a + r /\ w = u + b
      BY <2>1, <1>1, <1>2
    <2> QED
      BY <2>3, <2>4
  <1>4. w \div m = q + 2 * c
    <2>1. PICK p : p = q + 2 * c
      OBVIOUS
    <2>2. p \in Int /\ w = p * m + r
      BY <1>3, <2>1
    <2>3. w \div m = p
      BY <2>2, Quotient
    <2> QED
      BY <2>1, <2>3
  <1>5. (q + 2 * c) % 2 = q % 2
    OBVIOUS
  <1> QED
    BY <1>1, <1>2, <1>4, <1>5

\* Bit k of the byte is what was added for it.
LEMMA BitInverse ==
    ASSUME NEW values, NEW j, NEW k \in 0 .. BitsPerByte - 1
    PROVE  ((NullByte(values, j) \div TwoTo[k]) % 2 = 1) <=> NullAt(values, j, k)
  <1>0. BitsPerByte \in Nat
    BY WidthAssumption
  <1>1. PICK f : Adds(f, values, j) /\ NullByte(values, j) = f[BitsPerByte]
    BY NullByteDef
  <1>2. PICK t \in Nat \ {0} : t = TwoTo[k]
    <2>1. k \in 0 .. BitsPerByte
      BY <1>0
    <2> QED
      BY <2>1, TwoToStep
  <1>3. PICK x \in {0, 1} : x = IF NullAt(values, j, k) THEN 1 ELSE 0
    OBVIOUS
  <1> DEFINE M == BitsPerByte - (k + 1)
             S == {d \in 0 .. M : (f[k + 1 + d] \div t) % 2 = x}
  <1>4. M \in Nat
    BY <1>0
  <1>5. 0 \in S
    <2>1. k \in 0 .. BitsPerByte /\ k + 1 \in 1 .. BitsPerByte /\ (k + 1) - 1 = k
          /\ k + 1 + 0 = k + 1
      BY <1>0
    <2>2. PICK r \in 0 .. t - 1 : r = f[k]
      <3>1. f[k] \in Nat /\ f[k] < TwoTo[k]
        BY <1>1, <2>1, LowBits DEF Adds
      <3> QED
        BY <3>1, <1>2
    <2>3. f[k + 1] = x * t + r
      <3>1. f[k + 1] = f[k] + (IF NullAt(values, j, k) THEN TwoTo[k] ELSE 0)
        BY <1>1, <2>1 DEF Adds
      <3> QED
        BY <3>1, <1>2, <1>3, <2>2
    <2>4. f[k + 1] \div t = x
      <3>1. PICK u : u = f[k + 1]
        OBVIOUS
      <3>2. u = x * t + r /\ x \in Int
        BY <3>1, <2>3
      <3>3. u \div t = x
        BY <3>2, Quotient
      <3> QED
        BY <3>1, <3>3
    <2>5. x % 2 = x
      BY <1>3
    <2> QED
      BY <2>1, <2>4, <2>5, <1>4
  <1>6. ASSUME NEW d \in 0 .. M - 1, d \in S PROVE d + 1 \in S
    <2>1. PICK n : n = k + 1 + d
      OBVIOUS
    <2>2. /\ n \in k + 1 .. BitsPerByte /\ n \in 0 .. BitsPerByte
          /\ n + 1 \in 1 .. BitsPerByte /\ (n + 1) - 1 = n
          /\ k + 1 + (d + 1) = n + 1 /\ d + 1 \in 0 .. M
      BY <1>0, <2>1
    <2>3. PICK c \in Nat : TwoTo[n] = c * (2 * t)
      BY <1>2, <2>2, TwoToMultiple
    <2>4. PICK u \in Nat : u = f[n]
      BY <1>1, <2>2 DEF Adds
    <2>5. f[n + 1] = u + (IF NullAt(values, j, n) THEN c * (2 * t) ELSE 0)
      BY <1>1, <2>2, <2>3, <2>4 DEF Adds
    <2>6. (f[n + 1] \div t) % 2 = (u \div t) % 2
      <3>1. CASE NullAt(values, j, n)
        BY <3>1, <2>5, BitKept
      <3>2. CASE ~NullAt(values, j, n)
        BY <3>2, <2>5
      <3> QED
        BY <3>1, <3>2
    <2>7. (u \div t) % 2 = x
      BY <1>6, <2>1, <2>4
    <2> QED
      BY <2>2, <2>6, <2>7
  <1>7. 0 .. M \subseteq S
    <2> HIDE DEF S, M
    <2> QED
      BY <1>4, <1>5, <1>6, UpTo
  <1>8. M \in 0 .. M /\ k + 1 + M = BitsPerByte
    BY <1>0
  <1>9. (f[BitsPerByte] \div t) % 2 = x
    BY <1>7, <1>8
  <1> QED
    BY <1>1, <1>2, <1>3, <1>9

\* The bits of a byte of the bitmap do not carry over.
LEMMA ByteType ==
    ASSUME NEW values, NEW j
    PROVE  NullByte(values, j) \in Bytes
  <1>1. PICK f : Adds(f, values, j) /\ NullByte(values, j) = f[BitsPerByte]
    BY NullByteDef
  <1>2. BitsPerByte \in 0 .. BitsPerByte
    BY WidthAssumption
  <1>3. f[BitsPerByte] \in Nat /\ f[BitsPerByte] < TwoTo[BitsPerByte]
    BY <1>1, <1>2, LowBits DEF Adds
  <1>4. TwoTo[BitsPerByte] = ByteValues
    BY DEF ByteValues
  <1> QED
    BY <1>1, <1>3, <1>4, ByteValuesType DEF Bytes

\* The null bitmap is as long as EncodeTuple and DecodeTuple take it to be.
LEMMA BitmapType ==
    ASSUME NEW values, Len(values) \in Nat
    PROVE  /\ NullBitmap(values) \in Seq(Bytes)
           /\ Len(NullBitmap(values)) = BitmapLen(Len(values))
           /\ BitmapLen(Len(values)) \in Nat
  <1>1. PICK n : n = BitmapLen(Len(values)) /\ n \in Nat
    BY WidthAssumption DEF BitmapLen
  <1>2. \A j \in 1 .. n : NullByte(values, j) \in Bytes
    BY ByteType
  <1> QED
    BY <1>1, <1>2 DEF NullBitmap

\* Byte and bit of column i.
LEMMA BitmapPlace ==
    ASSUME NEW N \in Nat, NEW i \in 1 .. N, NEW b \in Nat \ {0}
    PROVE  /\ (i - 1) \div b + 1 \in 1 .. ((N + b - 1) \div b)
           /\ (i - 1) % b \in 0 .. b - 1
           /\ (((i - 1) \div b + 1) - 1) * b + ((i - 1) % b) + 1 = i
  <1>1. PICK q \in Nat, r \in 0 .. b - 1 : i - 1 = b * q + r /\ q = (i - 1) \div b /\ r = (i - 1) % b
    <2>1. i - 1 \in Nat
      OBVIOUS
    <2>2. PICK a \in Nat : a = i - 1
      BY <2>1
    <2>3. a = b * (a \div b) + (a % b) /\ (a % b) \in 0 .. b - 1 /\ (a \div b) \in Nat
      OBVIOUS
    <2> QED
      BY <2>2, <2>3
  <1>2. PICK p \in Nat, s \in 0 .. b - 1 : N + b - 1 = b * p + s /\ p = (N + b - 1) \div b
    <2>1. PICK a \in Nat : a = N + b - 1
      OBVIOUS
    <2>2. a = b * (a \div b) + (a % b) /\ (a % b) \in 0 .. b - 1 /\ (a \div b) \in Nat
      OBVIOUS
    <2> QED
      BY <2>1, <2>2
  <1>3. q + 1 <= p
    <2>1. b * q + b <= b * p + s
      BY <1>1, <1>2
    <2>2. SUFFICES ASSUME p <= q PROVE FALSE
      OBVIOUS
    <2>3. b * p <= b * q
      BY <2>2
    <2> QED
      BY <2>1, <2>3
  <1> QED
    BY <1>1, <1>2, <1>3

\* A column is read as NULL exactly if it was NULL.
LEMMA NullsInverse ==
    ASSUME NEW values, Len(values) \in Nat, NEW rest \in Seq(Bytes), NEW i \in 1 .. Len(values)
    PROVE  IsNull(NullBitmap(values) \o rest, i) <=> IsNil(values[i])
  <1>1. PICK N \in Nat : N = Len(values)
    OBVIOUS
  <1>2. PICK j : j = (i - 1) \div BitsPerByte + 1
    OBVIOUS
  <1>3. PICK k : k = (i - 1) % BitsPerByte
    OBVIOUS
  <1>4. /\ j \in 1 .. BitmapLen(N)
        /\ k \in 0 .. BitsPerByte - 1
        /\ (j - 1) * BitsPerByte + k + 1 = i
    BY <1>1, <1>2, <1>3, WidthAssumption, BitmapPlace DEF BitmapLen
  <1>5. PICK map \in Seq(Bytes) : map = NullBitmap(values) /\ Len(map) = BitmapLen(N)
    BY <1>1, BitmapType
  <1>6. (map \o rest)[j] = map[j]
    <2>1. Len(map) \in Nat /\ Len(rest) \in Nat /\ j \in 1 .. Len(map)
      BY <1>4, <1>5
    <2>2. j \in 1 .. Len(map) + Len(rest) /\ j <= Len(map)
      BY <2>1
    <2> QED
      BY <2>2, ConcatProperties
  <1>7. map[j] = NullByte(values, j)
    BY <1>1, <1>4, <1>5 DEF NullBitmap
  <1>8. IsNull(map \o rest, i) <=> (NullByte(values, j) \div TwoTo[k]) % 2 = 1
    BY <1>2, <1>3, <1>6, <1>7 DEF IsNull
  <1>9. NullAt(values, j, k) <=> IsNil(values[i])
    BY <1>1, <1>4 DEF NullAt
  <1> QED
    BY <1>4, <1>5, <1>8, <1>9, BitInverse

-----------------------------------------------------------------------------
(***************************************************************************)
(* A whole tuple.                                                          *)
(***************************************************************************)

\* The values of a row, column by column.
RowOK(values, columns) ==
    /\ columns \in Seq(Columns)
    /\ Len(values) = Len(columns)
    /\ \A i \in 1 .. Len(columns) : ValueOK(values[i], columns[i].TypeOID)

\* What a column adds to the tuple.
Field(v, oid) == IF IsNil(v) THEN <<>> ELSE encodeValue(v, oid)

\* f[n] is the tuple after n columns.
Concats(f, values, columns) ==
    /\ f \in [0 .. Len(columns) -> Seq(Bytes)]
    /\ f[0] = NullBitmap(values)
    /\ \A n \in 1 .. Len(columns) : f[n] = f[n - 1] \o Field(values[n], columns[n].TypeOID)

\* Only NULL has the kind of NULL.
LEMMA NilOnly ==
    ASSUME NEW oid, NEW v, ValueOK(v, oid)
    PROVE  IsNil(v) <=> v = Nil
  <1>1. v = Nil => IsNil(v)
    BY DEF IsNil, Nil
  <1>2. v # Nil => ~IsNil(v)
    <2>1. CASE oid = "bool" /\ v = Bool(v.val)
      BY <2>1 DEF IsNil, Bool
    <2>2. CASE oid \in IntegerTypes /\ v = [kind |-> KindOf[oid], val |-> v.val]
      <3>1. KindOf[oid] # "nil"
        BY <2>2 DEF IntegerTypes, KindOf
      <3>2. v.kind = KindOf[oid]
        BY <2>2
      <3> QED
        BY <3>1, <3>2 DEF IsNil
    <2>3. CASE v.kind \in {"string", "[]byte"}
      BY <2>3 DEF IsNil
    <2> QED
      BY <2>1, <2>2, <2>3 DEF ValueOK
  <1> QED
    BY <1>1, <1>2

\* The type of a column of a table is a registered one.
LEMMA ColumnType ==
    ASSUME NEW columns \in Seq(Columns), NEW i \in 1 .. Len(columns)
    PROVE  columns[i] \in Columns /\ columns[i].TypeOID \in TypeOIDs
  <1>1. columns[i] \in Columns
    OBVIOUS
  <1>2. \A c \in Columns : c.TypeOID \in TypeOIDs
    BY DEF Columns
  <1> QED
    BY <1>1, <1>2

\* A column takes up bytes.
LEMMA FieldType ==
    ASSUME NEW oid \in TypeOIDs, NEW v, ValueOK(v, oid)
    PROVE  Field(v, oid) \in Seq(Bytes)
  <1>1. CASE v = Nil
    BY <1>1 DEF Field, IsNil, Nil
  <1>2. CASE v # Nil
    <2>1. <<>> \in Seq(Bytes)
      OBVIOUS
    <2>2. encodeValue(v, oid) \in Seq(Bytes)
      BY <1>2, <2>1, ValueInverse
    <2> QED
      BY <1>2, <2>2, NilOnly DEF Field
  <1> QED
    BY <1>1, <1>2

\* EncodeTuple as the recursion over the columns that it is.
LEMMA EncodeTupleDef ==
    ASSUME NEW values, NEW columns, RowOK(values, columns)
    PROVE  \E f : Concats(f, values, columns) /\ EncodeTuple(values, columns) = f[Len(columns)]
  <1> DEFINE N == Len(columns)
             Part(n) == IF IsNil(values[n]) THEN <<>> ELSE encodeValue(values[n], columns[n].TypeOID)
             P(g) == g = [n \in 0 .. N |-> IF n = 0 THEN NullBitmap(values) ELSE g[n - 1] \o Part(n)]
             F == [n \in 1 .. N |-> [v \in Seq(Bytes) |-> v \o Part(n)]]
             f == CHOOSE g : P(g)
  <1>0. N \in Nat /\ Len(values) \in Nat
    BY DEF RowOK
  <1>1. NullBitmap(values) \in Seq(Bytes)
    BY <1>0, BitmapType
  <1>2. ASSUME NEW n \in 1 .. N PROVE Part(n) \in Seq(Bytes)
    <2>1. columns[n].TypeOID \in TypeOIDs /\ ValueOK(values[n], columns[n].TypeOID)
      BY ColumnType DEF RowOK
    <2> QED
      BY <2>1, FieldType DEF Field
  <1>3. EncodeTuple(values, columns) = f[N]
    BY DEF EncodeTuple
  <1>4. \A n \in 1 .. N : Part(n) = Field(values[n], columns[n].TypeOID)
    BY DEF Field
  <1> HIDE DEF Part
  <1>5. ASSUME NEW n \in 1 .. N, NEW v \in Seq(Bytes) PROVE v \o Part(n) \in Seq(Bytes)
    BY <1>2, ConcatProperties
  <1>6. F \in [1 .. N -> [Seq(Bytes) -> Seq(Bytes)]]
    BY <1>5
  <1>7. PICK g : Recurs(g, N, Seq(Bytes), NullBitmap(values), F)
    <2> HIDE DEF F, N
    <2> QED
      BY <1>0, <1>1, <1>6, Recursion
  <1>8. ASSUME NEW n \in 1 .. N PROVE g[n] = g[n - 1] \o Part(n)
    <2>1. g[n] = F[n][g[n - 1]] /\ g[n - 1] \in Seq(Bytes)
      <3> HIDE DEF F, N
      <3> QED
        BY <1>7, <1>0 DEF Recurs
    <2> QED
      BY <2>1
  <1>9. P(g)
    BY <1>7, <1>8, <1>0 DEF Recurs
  <1>10. P(f)
    BY <1>9
  <1> HIDE DEF f, F
  <1>11. f[0] = NullBitmap(values) /\ \A n \in 1 .. N : f[n] = f[n - 1] \o Part(n)
    <2> HIDE DEF N
    <2>1. \A n \in 0 .. N : f[n] = IF n = 0 THEN NullBitmap(values) ELSE f[n - 1] \o Part(n)
      BY <1>10, Zenon
    <2>2. 0 \in 0 .. N /\ \A n \in 1 .. N : n \in 0 .. N /\ n # 0
      BY <1>0
    <2> QED
      BY <2>1, <2>2
  <1>12. \A n \in 0 .. N : f[n] \in Seq(Bytes)
    <2>1. \A n \in 1 .. N : f[n - 1] \in Seq(Bytes) => f[n] \in Seq(Bytes)
      BY <1>11, <1>5
    <2> HIDE DEF N
    <2> QED
      BY <2>1, <1>11, <1>1, <1>0, Stays
  <1>13. f \in [0 .. N -> Seq(Bytes)]
    BY <1>10, <1>12
  <1> QED
    BY <1>3, <1>4, <1>11, <1>13 DEF Concats

\* The tuple after n columns is a beginning of the whole tuple.
LEMMA Beginning ==
    ASSUME NEW values, NEW columns, RowOK(values, columns), NEW f, Concats(f, values, columns),
           NEW n \in 0 .. Len(columns)
    PROVE  \E t \in Seq(Bytes) : f[Len(columns)] = f[n] \o t
  <1>0. PICK N \in Nat : N = Len(columns)
    BY DEF RowOK
  <1> DEFINE S == {m \in 0 .. N : \E t \in Seq(Bytes) : f[N] = f[N - m] \o t}
  <1>1. 0 \in S
    <2>1. f[N] \in Seq(Bytes) /\ <<>> \in Seq(Bytes) /\ N - 0 = N /\ 0 \in 0 .. N
      BY <1>0 DEF Concats
    <2>2. f[N] = f[N] \o <<>>
      BY <2>1, ConcatEmptySeq
    <2> QED
      BY <2>1, <2>2
  <1>2. ASSUME NEW m \in 0 .. N - 1, m \in S PROVE m + 1 \in S
    <2>1. PICK t \in Seq(Bytes) : f[N] = f[N - m] \o t
      BY <1>2
    <2>2. PICK k : k = N - m
      OBVIOUS
    <2>3. k \in 1 .. N /\ k - 1 \in 0 .. N /\ k - 1 = N - (m + 1) /\ m + 1 \in 0 .. N
      BY <2>2
    <2>4. PICK p \in Seq(Bytes) : f[k] = f[k - 1] \o p
      <3>1. columns[k].TypeOID \in TypeOIDs /\ ValueOK(values[k], columns[k].TypeOID)
        BY <1>0, <2>3, ColumnType DEF RowOK
      <3>2. Field(values[k], columns[k].TypeOID) \in Seq(Bytes)
        BY <3>1, FieldType
      <3> QED
        BY <1>0, <2>3, <3>2 DEF Concats
    <2>5. PICK s \in Seq(Bytes) : s = f[k - 1]
      BY <1>0, <2>3 DEF Concats
    <2>6. f[N] = s \o (p \o t) /\ p \o t \in Seq(Bytes)
      <3>1. (s \o p) \o t = s \o (p \o t) /\ p \o t \in Seq(Bytes)
        BY BytesAssociative
      <3>2. f[N] = (s \o p) \o t
        BY <2>1, <2>2, <2>4, <2>5, Zenon
      <3> QED
        BY <3>1, <3>2, Zenon
    <2> QED
      BY <2>3, <2>5, <2>6
  <1> HIDE DEF S
  <1>3. 0 .. N \subseteq S
    BY <1>1, <1>2, UpTo
  <1>4. N - n \in 0 .. N /\ N - (N - n) = n
    BY <1>0
  <1> QED
    BY <1>0, <1>3, <1>4 DEF S

\* An encoded tuple is a sequence of bytes.
LEMMA TupleType ==
    ASSUME NEW values, NEW columns, RowOK(values, columns)
    PROVE  EncodeTuple(values, columns) \in Seq(Bytes)
  <1>1. PICK f : Concats(f, values, columns) /\ EncodeTuple(values, columns) = f[Len(columns)]
    BY EncodeTupleDef
  <1>2. Len(columns) \in 0 .. Len(columns)
    BY DEF RowOK
  <1> QED
    BY <1>1, <1>2 DEF Concats

\* The bitmap is where the decoder looks for it.
LEMMA BitmapFirst ==
    ASSUME NEW values, NEW columns, RowOK(values, columns), NEW i \in 1 .. Len(columns)
    PROVE  IsNull(EncodeTuple(values, columns), i) <=> values[i] = Nil
  <1>1. PICK f : Concats(f, values, columns) /\ EncodeTuple(values, columns) = f[Len(columns)]
    BY EncodeTupleDef
  <1>2. 0 \in 0 .. Len(columns) /\ Len(values) \in Nat /\ i \in 1 .. Len(values)
    BY DEF RowOK
  <1>3. PICK t \in Seq(Bytes) : f[Len(columns)] = f[0] \o t
    BY <1>1, <1>2, Beginning
  <1>4. EncodeTuple(values, columns) = NullBitmap(values) \o t
    BY <1>1, <1>3 DEF Concats
  <1>5. IsNil(values[i]) <=> values[i] = Nil
    BY NilOnly DEF RowOK
  <1> QED
    BY <1>2, <1>4, <1>5, NullsInverse

\* Where column n was written, its value is read.
ReadAt(values, columns, f, n) ==
    decodeValue(Drop(f[Len(columns)], Len(f[n - 1])), columns[n].TypeOID)
      = [value |-> AsRead(values[n], columns[n].TypeOID), n |-> Len(f[n]) - Len(f[n - 1])]

\* A value that is not NULL is read back at its offset in the tuple.
LEMMA FieldInverse ==
    ASSUME NEW values, NEW columns, RowOK(values, columns), NEW f, Concats(f, values, columns),
           NEW n \in 1 .. Len(columns), values[n] # Nil
    PROVE  ReadAt(values, columns, f, n)
  <1>1. PICK v : v = values[n]
    OBVIOUS
  <1>2. PICK oid \in TypeOIDs : oid = columns[n].TypeOID
    BY ColumnType DEF RowOK
  <1>3. ValueOK(v, oid) /\ v # Nil
    BY <1>1, <1>2 DEF RowOK
  <1>4. n \in 0 .. Len(columns) /\ n - 1 \in 0 .. Len(columns)
    BY DEF RowOK
  <1>5. PICK t \in Seq(Bytes) : f[Len(columns)] = f[n] \o t
    BY <1>4, Beginning
  <1>6. PICK e \in Seq(Bytes) : e = encodeValue(v, oid)
    BY <1>3, <1>5, ValueInverse
  <1>7. Field(v, oid) = e
    BY <1>3, <1>6, NilOnly DEF Field
  <1>8. PICK s \in Seq(Bytes) : s = f[n - 1]
    BY <1>4 DEF Concats
  <1>9. f[n] = s \o e
    BY <1>1, <1>2, <1>7, <1>8 DEF Concats
  <1>10. f[Len(columns)] = s \o (e \o t) /\ e \o t \in Seq(Bytes)
    <2>1. f[Len(columns)] = (s \o e) \o t
      BY <1>5, <1>9
    <2> QED
      BY <2>1, BytesAssociative
  <1>11. Drop(f[Len(columns)], Len(s)) = e \o t
    BY <1>10, Front
  <1>12. Len(f[n]) - Len(s) = Len(e)
    <2>1. Len(s) \in Nat /\ Len(e) \in Nat
      OBVIOUS
    <2>2. Len(s \o e) = Len(s) + Len(e)
      BY ConcatProperties
    <2> QED
      BY <1>9, <2>1, <2>2
  <1>13. decodeValue(e \o t, oid) = [value |-> AsRead(v, oid), n |-> Len(e)]
    BY <1>3, <1>6, ValueInverse
  <1> QED
    BY <1>1, <1>2, <1>8, <1>11, <1>12, <1>13 DEF ReadAt

\* What DecodeTuple does at one column.
DecodeStep(data, columns, s, i) ==
    IF ~s.ok THEN s
    ELSE LET d == IF IsNull(data, i) THEN [value |-> Nil, n |-> 0]
                  ELSE decodeValue(Drop(data, s.offset), columns[i].TypeOID)
         IN  [ok     |-> ~IsErr(d.value),
              offset |-> s.offset + d.n,
              values |-> Append(s.values, d.value)]

DecodeStart(data, columns) ==
    [ok     |-> Len(data) >= BitmapLen(Len(columns)),
     offset |-> BitmapLen(Len(columns)),
     values |-> <<>>]

\* g[n] is the state of the decoder after n columns.
Decodes(g, data, columns) ==
    /\ g[0] = DecodeStart(data, columns)
    /\ \A n \in 1 .. Len(columns) : g[n] = DecodeStep(data, columns, g[n - 1], n)

\* Whatever function takes the decoder's steps, DecodeTuple's result is its last.
LEMMA DecodeTupleDef ==
    ASSUME NEW data, NEW columns, Len(columns) \in Nat, NEW g, Decodes(g, data, columns)
    PROVE  DecodeTuple(data, columns)
             = [ok |-> g[Len(columns)].ok, values |-> g[Len(columns)].values]
  <1> DEFINE N == Len(columns)
             start == DecodeStart(data, columns)
             Step(s, i) == DecodeStep(data, columns, s, i)
             P(h) == h = [n \in 0 .. N |-> IF n = 0 THEN start ELSE Step(h[n - 1], n)]
             f == CHOOSE h : P(h)
  <1>0. N \in Nat
    OBVIOUS
  <1>1. DecodeTuple(data, columns) = [ok |-> f[N].ok, values |-> f[N].values]
    BY DEF DecodeTuple, DecodeStart, DecodeStep
  <1> HIDE DEF start, Step
  <1>2. g[0] = start /\ \A n \in 1 .. N : g[n] = Step(g[n - 1], n)
    BY DEF start, Step, Decodes
  <1> HIDE DEF N
  <1>3. P([n \in 0 .. N |-> g[n]])
    <2> DEFINE h == [n \in 0 .. N |-> g[n]]
    <2>1. ASSUME NEW n \in 0 .. N PROVE h[n] = IF n = 0 THEN start ELSE Step(h[n - 1], n)
      <3>1. CASE n = 0
        BY <3>1, <1>2
      <3>2. CASE n # 0
        <4>1. n \in 1 .. N /\ n - 1 \in 0 .. N
          BY <3>2, <1>0
        <4>2. h[n] = g[n] /\ h[n - 1] = g[n - 1] /\ g[n] = Step(g[n - 1], n)
          BY <4>1, <1>2
        <4> QED
          BY <3>2, <4>2
      <3> QED
        BY <3>1, <3>2
    <2>2. h = [n \in 0 .. N |-> h[n]]
      OBVIOUS
    <2> HIDE DEF h
    <2>3. P(h)
      BY <2>1, <2>2, Zenon
    <2> QED
      BY <2>3 DEF h
  <1>4. P(f)
    BY <1>3, Zenon
  <1> HIDE DEF f
  <1> DEFINE S == {n \in 0 .. N : f[n] = g[n]}
  <1>5. 0 \in S
    BY <1>0, <1>2, <1>4
  <1>6. ASSUME NEW n \in 0 .. N - 1, n \in S PROVE n + 1 \in S
    <2>1. n + 1 \in 0 .. N /\ n + 1 \in 1 .. N /\ n + 1 # 0 /\ (n + 1) - 1 = n
      BY <1>0
    <2>2. f[n + 1] = Step(f[n], n + 1)
      BY <1>4, <2>1
    <2>3. g[n + 1] = Step(g[n], n + 1)
      BY <1>2, <2>1
    <2> QED
      BY <1>6, <2>1, <2>2, <2>3
  <1> HIDE DEF S
  <1>7. 0 .. N \subseteq S
    BY <1>0, <1>5, <1>6, UpTo
  <1>8. f[N] = g[N]
    BY <1>0, <1>7 DEF S
  <1> QED
    BY <1>1, <1>8 DEF N

\* A value of a type is no error, before and after reading.
LEMMA NotErr ==
    ASSUME NEW oid, NEW v, ValueOK(v, oid)
    PROVE  ~IsErr(v) /\ ~IsErr(AsRead(v, oid))
  <1>1. ~IsErr(v)
    <2>1. CASE v = Nil
      BY <2>1 DEF IsErr, Nil
    <2>2. CASE oid = "bool" /\ v = Bool(v.val)
      BY <2>2 DEF IsErr, Bool
    <2>3. CASE oid \in IntegerTypes /\ v = [kind |-> KindOf[oid], val |-> v.val]
      <3>1. KindOf[oid] # "error"
        BY <2>3 DEF IntegerTypes, KindOf
      <3>2. v.kind = KindOf[oid]
        BY <2>3
      <3> QED
        BY <3>1, <3>2 DEF IsErr
    <2>4. CASE v.kind \in {"string", "[]byte"}
      BY <2>4 DEF IsErr
    <2> QED
      BY <2>1, <2>2, <2>3, <2>4 DEF ValueOK
  <1> QED
    BY <1>1 DEF AsRead, IsErr, GoString

\* What is read from a tuple in which a row was written.
RowRead(values, columns) == [i \in 1 .. Len(columns) |-> AsRead(values[i], columns[i].TypeOID)]

\* EncodeTuple and DecodeTuple are inverse to each other: a row of any table, of
\* values the column types hold, comes back value by value from its tuple, a NULL
\* as NULL and every other value from its own bytes, whatever the width of a byte
\* and the number of columns.  Only a byte slice comes back as a string.
THEOREM CodecRoundTrip ==
    ASSUME NEW values, NEW columns, RowOK(values, columns)
    PROVE  /\ EncodeTuple(values, columns) \in Seq(Bytes)
           /\ DecodeTuple(EncodeTuple(values, columns), columns)
                = [ok |-> TRUE, values |-> RowRead(values, columns)]
  <1>0. EncodeTuple(values, columns) \in Seq(Bytes)
    BY TupleType
  <1>1. PICK f : Concats(f, values, columns) /\ EncodeTuple(values, columns) = f[Len(columns)]
    BY EncodeTupleDef
  <1>2. PICK data \in Seq(Bytes) : data = EncodeTuple(values, columns)
    BY <1>0
  <1>3. PICK N \in Nat : N = Len(columns) /\ N = Len(values)
    BY DEF RowOK
  <1> DEFINE Read(i) == AsRead(values[i], columns[i].TypeOID)
             g == [n \in 0 .. N |-> [ok     |-> TRUE,
                                     offset |-> Len(f[n]),
                                     values |-> [i \in 1 .. n |-> Read(i)]]]
  <1> HIDE DEF Read
  <1>4. g[0] = DecodeStart(data, columns)
    <2>0. 0 \in 0 .. Len(columns)
      BY <1>3
    <2>1. PICK t \in Seq(Bytes) : f[Len(columns)] = f[0] \o t
      BY <1>1, <2>0, Beginning, Zenon
    <2>2. f[0] \in Seq(Bytes) /\ Len(f[0]) = BitmapLen(N) /\ Len(f[0]) \in Nat
      BY <1>1, <1>3, BitmapType DEF Concats
    <2>3. Len(data) = Len(f[0]) + Len(t)
      <3>1. Len(f[0] \o t) = Len(f[0]) + Len(t)
        BY <2>2, ConcatProperties, Zenon
      <3> QED
        BY <1>1, <1>2, <2>1, <3>1, Zenon
    <2>4. Len(data) >= BitmapLen(N)
      BY <2>2, <2>3
    <2>5. [i \in 1 .. 0 |-> Read(i)] = <<>>
      OBVIOUS
    <2>6. g[0] = [ok |-> TRUE, offset |-> Len(f[0]), values |-> [i \in 1 .. 0 |-> Read(i)]]
      BY <1>3
    <2> QED
      BY <1>3, <2>2, <2>4, <2>5, <2>6 DEF DecodeStart
  <1>5. ASSUME NEW n \in 1 .. N PROVE g[n] = DecodeStep(data, columns, g[n - 1], n)
    <2>1. n - 1 \in 0 .. N /\ n \in 0 .. N
      OBVIOUS
    <2>2. PICK s : s = g[n - 1]
      OBVIOUS
    <2>3. /\ s = [ok |-> TRUE, offset |-> Len(f[n - 1]), values |-> [i \in 1 .. n - 1 |-> Read(i)]]
          /\ g[n] = [ok |-> TRUE, offset |-> Len(f[n]), values |-> [i \in 1 .. n |-> Read(i)]]
      BY <2>1, <2>2
    <2> HIDE DEF g
    <2>4. Append([i \in 1 .. n - 1 |-> Read(i)], Read(n)) = [i \in 1 .. n |-> Read(i)]
      OBVIOUS
    <2>5. IsNull(data, n) <=> values[n] = Nil
      BY <1>2, <1>3, BitmapFirst
    <2>6. PICK d : d = IF IsNull(data, n) THEN [value |-> Nil, n |-> 0]
                       ELSE decodeValue(Drop(data, s.offset), columns[n].TypeOID)
      OBVIOUS
    <2>7. d.value = Read(n) /\ s.offset + d.n = Len(f[n])
      <3>0. s.offset = Len(f[n - 1]) /\ Len(f[n]) \in Nat /\ Len(f[n - 1]) \in Nat
        BY <1>1, <1>3, <2>1, <2>3 DEF Concats
      <3>1. CASE values[n] = Nil
        <4>1. Read(n) = Nil
          BY <3>1 DEF Read, AsRead
        <4>2. Field(values[n], columns[n].TypeOID) = <<>>
          BY <3>1 DEF Field, IsNil, Nil
        <4>3. f[n] = f[n - 1] \o <<>> /\ f[n - 1] \in Seq(Bytes)
          BY <1>1, <1>3, <2>1, <4>2 DEF Concats
        <4>4. f[n] = f[n - 1]
          BY <4>3, ConcatEmptySeq, Zenon
        <4>5. d.value = Nil /\ d.n = 0
          BY <2>5, <2>6, <3>1
        <4> QED
          BY <3>0, <4>1, <4>4, <4>5
      <3>2. CASE values[n] # Nil
        <4>1. n \in 1 .. Len(columns)
          BY <1>3
        <4>2. ReadAt(values, columns, f, n)
          BY <1>1, <3>2, <4>1, FieldInverse
        <4>3. d = [value |-> Read(n), n |-> Len(f[n]) - Len(f[n - 1])]
          BY <1>1, <1>2, <2>5, <2>6, <3>0, <3>2, <4>2, Zenon DEF Read, ReadAt
        <4> QED
          BY <3>0, <4>3
      <3> QED
        BY <3>1, <3>2
    <2>8. (~IsErr(Read(n))) = TRUE
      BY <1>3, NotErr DEF Read, RowOK
    <2>9. s.ok /\ s.values = [i \in 1 .. n - 1 |-> Read(i)]
      BY <2>3
    <2>10. DecodeStep(data, columns, s, n)
             = [ok |-> ~IsErr(d.value), offset |-> s.offset + d.n,
                values |-> Append(s.values, d.value)]
      BY <2>6, <2>9, Zenon DEF DecodeStep
    <2> QED
      BY <2>2, <2>3, <2>4, <2>7, <2>8, <2>9, <2>10, Zenon
  <1>6. Decodes(g, data, columns)
    BY <1>3, <1>4, <1>5 DEF Decodes
  <1>7. g[N] = [ok |-> TRUE, offset |-> Len(f[N]), values |-> [i \in 1 .. N |-> Read(i)]]
    OBVIOUS
  <1> HIDE DEF g
  <1>8. DecodeTuple(data, columns) = [ok |-> g[N].ok, values |-> g[N].values]
    BY <1>3, <1>6, DecodeTupleDef
  <1> QED
    BY <1>0, <1>2, <1>3, <1>7, <1>8 DEF Read, RowRead

-----------------------------------------------------------------------------
(***************************************************************************)
(* What is decoded, whatever the bytes.                                    *)
(***************************************************************************)

\* The bytes of a number determine a number that fits into as many bytes.
LEMMA FromBigEndianFits ==
    ASSUME NEW bytes \in Seq(Bytes), Len(bytes) \in 0 .. 8
    PROVE  FromBigEndian(bytes) \in Nat /\ FromBigEndian(bytes) < ValuesOf[Len(bytes)]
  <1>1. PICK N \in 0 .. 8 : N = Len(bytes)
    OBVIOUS
  <1>2. PICK f \in [0 .. N -> Nat] :
              /\ f[0] = 0
              /\ \A n \in 1 .. N : f[n] = f[n - 1] * ByteValues + bytes[n]
              /\ FromBigEndian(bytes) = f[N]
    BY <1>1, FromBigEndianDef
  <1> DEFINE S == {n \in 0 .. N : f[n] < ValuesOf[n]}
  <1>3. 0 \in S
    BY <1>2, ValuesOfDef
  <1>4. ASSUME NEW n \in 0 .. N - 1, n \in S PROVE n + 1 \in S
    <2>1. PICK b : b = ByteValues /\ b \in Nat /\ b >= 2
      BY ByteValuesType
    <2>0. n \in 0 .. 8
      OBVIOUS
    <2>2. PICK v : v = ValuesOf[n] /\ v \in Nat \ {0}
      BY <2>0, ValuesOfDef
    <2>3. ValuesOf[n + 1] = b * v
      <3>1. n + 1 \in 1 .. 8 /\ n + 1 \in 0 .. 8 /\ (n + 1) - 1 = n /\ n + 1 # 0
        OBVIOUS
      <3> QED
        BY <2>1, <2>2, <3>1, ValuesOfDef
    <2>4. PICK d : d = bytes[n + 1] /\ d \in 0 .. b - 1
      <3>1. n + 1 \in 1 .. Len(bytes)
        BY <1>1
      <3> QED
        BY <2>1, <3>1 DEF Bytes
    <2>5. PICK u \in Nat : u = f[n] /\ u < v
      BY <1>2, <1>4, <2>2
    <2>6. f[n + 1] = u * b + d
      <3>1. n + 1 \in 1 .. N /\ (n + 1) - 1 = n
        OBVIOUS
      <3> QED
        BY <1>2, <2>1, <2>4, <2>5, <3>1
    <2>7. u * b + d < b * v
      <3>1. PICK w \in Nat : v = u + 1 + w
        <4>1. v - u - 1 \in Nat /\ v = u + 1 + (v - u - 1)
          BY <2>2, <2>5
        <4> QED
          BY <4>1
      <3>2. b \in Nat /\ d \in Nat /\ d < b
        BY <2>1, <2>4
      <3>3. b * w \in Nat /\ u * b \in Nat
        BY <3>1, <3>2
      <3>4. b * v = u * b + b + b * w
        BY <3>1, <3>2
      <3>5. PICK x, y \in Nat : x = u * b /\ y = b * w
        BY <3>3
      <3>6. x + d < x + b + y
        BY <3>2
      <3> QED
        BY <3>4, <3>5, <3>6
    <2> QED
      BY <2>3, <2>6, <2>7
  <1> HIDE DEF S
  <1>6. N \in Nat /\ N \in 0 .. N
    OBVIOUS
  <1>5. 0 .. N \subseteq S
    BY <1>3, <1>4, <1>6, UpTo
  <1> QED
    BY <1>1, <1>2, <1>5, <1>6 DEF S

\* A part of a sequence.
LEMMA PartType ==
    ASSUME NEW S, NEW s \in Seq(S), NEW lo \in Nat \ {0}, NEW hi \in Nat,
           lo <= hi + 1, hi <= Len(s)
    PROVE  SubSeq(s, lo, hi) \in Seq(S) /\ Len(SubSeq(s, lo, hi)) = hi - lo + 1
  OBVIOUS

\* What a decoder returns for a column of a type.
DecodedOK(d, oid) ==
    /\ d.n \in Nat
    /\ d.value = Err \/ ValueOK(d.value, oid)

\* What decodeFixed makes of any bytes is in the range of the type.
LEMMA FixedDecoded ==
    ASSUME NEW oid \in TypeOIDs, SizeOf[oid] > 0, NEW data \in Seq(Bytes)
    PROVE  DecodedOK(decodeFixed(data, oid), oid)
  <1>1. PICK size : size = SizeOf[oid] /\ size \in 1 .. 8
    BY TypeCases, IntegerSizes
  <1>2. CASE Len(data) < size
    BY <1>1, <1>2 DEF decodeFixed, TooShort, DecodedOK
  <1>3. CASE ~(Len(data) < size)
    <2>1. PICK bytes \in Seq(Bytes) : bytes = SubSeq(data, 1, size) /\ Len(bytes) = size
      <3>1. 1 \in Nat \ {0} /\ size \in Nat /\ 1 <= size + 1 /\ size <= Len(data)
        BY <1>1, <1>3
      <3>2. SubSeq(data, 1, size) \in Seq(Bytes) /\ Len(SubSeq(data, 1, size)) = size - 1 + 1
        BY <3>1, PartType
      <3>3. size - 1 + 1 = size
        BY <1>1
      <3> QED
        BY <3>2, <3>3
    <2>2. CASE oid = "bool"
      <3>1. decodeFixed(data, oid) = [value |-> Bool(bytes[1] # 0), n |-> size]
        BY <1>1, <1>3, <2>1, <2>2 DEF decodeFixed
      <3>2. PICK b \in BOOLEAN : b = (bytes[1] # 0)
        OBVIOUS
      <3>3. ValueOK(Bool(b), oid)
        BY <2>2 DEF ValueOK, Bool
      <3> QED
        BY <1>1, <3>1, <3>2, <3>3 DEF DecodedOK
    <2>3. CASE oid # "bool"
      <3>1. oid \in IntegerTypes
        BY <2>3, <1>1, TypeCases
      <3>2. PICK u \in Nat : u = FromBigEndian(bytes)
        <4>1. Len(bytes) \in 0 .. 8
          BY <1>1, <2>1
        <4> QED
          BY <4>1, FromBigEndianFits
      <3>3. PICK n : n = Narrow(u, oid) /\ InRange(n, oid)
        BY <3>1, NarrowInRange
      <3>4. decodeFixed(data, oid) = [value |-> [kind |-> KindOf[oid], val |-> n], n |-> size]
        BY <1>1, <1>3, <2>1, <2>3, <3>2, <3>3 DEF decodeFixed
      <3>5. ValueOK([kind |-> KindOf[oid], val |-> n], oid)
        BY <3>1, <3>3 DEF ValueOK
      <3> QED
        BY <1>1, <3>4, <3>5 DEF DecodedOK
    <2> QED
      BY <2>2, <2>3
  <1> QED
    BY <1>2, <1>3

\* What decodeVariable makes of any bytes is a string that fits its length word.
LEMMA VariableDecoded ==
    ASSUME NEW oid \in TypeOIDs, oid \notin IntegerTypes, oid # "bool", NEW data \in Seq(Bytes)
    PROVE  DecodedOK(decodeVariable(data), oid)
  <1>1. PICK size : size = LengthSize /\ size = 4
    BY DEF LengthSize
  <1>2. PICK length : length = FromBigEndian(SubSeq(data, 1, size))
    OBVIOUS
  <1>3. CASE Len(data) < size
    BY <1>1, <1>3 DEF decodeVariable, TooShort, DecodedOK
  <1>4. CASE ~(Len(data) < size)
    <2>1. PICK head \in Seq(Bytes) : head = SubSeq(data, 1, size) /\ Len(head) = size
      <3>1. 1 \in Nat \ {0} /\ size \in Nat /\ 1 <= size + 1 /\ size <= Len(data)
        BY <1>1, <1>4
      <3>2. SubSeq(data, 1, size) \in Seq(Bytes) /\ Len(SubSeq(data, 1, size)) = size - 1 + 1
        BY <3>1, PartType
      <3>3. size - 1 + 1 = size
        BY <1>1
      <3> QED
        BY <3>2, <3>3
    <2>2. length \in Nat /\ length < ValuesOf[size]
      <3>1. Len(head) \in 0 .. 8
        BY <1>1, <2>1
      <3>2. FromBigEndian(head) \in Nat /\ FromBigEndian(head) < ValuesOf[Len(head)]
        BY <3>1, FromBigEndianFits
      <3> QED
        BY <1>2, <2>1, <3>2
    <2>3. CASE Len(data) < size + length
      BY <1>1, <1>2, <2>3 DEF decodeVariable, TooShort, DecodedOK
    <2>4. CASE ~(Len(data) < size + length)
      <3>1. PICK bs \in Seq(Bytes) : bs = SubSeq(data, size + 1, size + length) /\ Len(bs) = length
        <4>1. PICK lo, hi : lo = size + 1 /\ hi = size + length
          OBVIOUS
        <4>2. lo \in Nat \ {0} /\ hi \in Nat /\ lo <= hi + 1 /\ hi <= Len(data)
          BY <1>1, <2>2, <2>4, <4>1
        <4>3. SubSeq(data, lo, hi) \in Seq(Bytes) /\ Len(SubSeq(data, lo, hi)) = hi - lo + 1
          BY <4>2, PartType
        <4>4. hi - lo + 1 = length
          BY <1>1, <2>2, <4>1
        <4> QED
          BY <4>1, <4>3, <4>4
      <3>2. decodeVariable(data) = [value |-> GoString(bs), n |-> size + length]
        BY <1>1, <1>2, <1>4, <2>4, <3>1 DEF decodeVariable
      <3>3. ValueOK(GoString(bs), oid)
        BY <1>1, <2>2, <3>1 DEF ValueOK, GoString
      <3>4. size + length \in Nat
        BY <1>1, <2>2
      <3> QED
        BY <3>2, <3>3, <3>4 DEF DecodedOK
    <2> QED
      BY <2>3, <2>4
  <1> QED
    BY <1>3, <1>4

\* Whatever the bytes, a decoder fails or returns a value of the column's type.
LEMMA ValueDecoded ==
    ASSUME NEW oid \in TypeOIDs, NEW data \in Seq(Bytes)
    PROVE  DecodedOK(decodeValue(data, oid), oid)
  <1>1. CASE SizeOf[oid] > 0
    BY <1>1, FixedDecoded DEF decodeValue
  <1>2. CASE ~(SizeOf[oid] > 0)
    <2>1. oid \notin IntegerTypes /\ oid # "bool"
      BY <1>2, TypeCases
    <2> QED
      BY <1>2, <2>1, VariableDecoded DEF decodeValue
  <1> QED
    BY <1>1, <1>2

\* The Go values there are, and the states of the decoder.
GoTypes == {"nil", "error", "string"} \cup {KindOf[oid] : oid \in TypeOIDs}
Held    == BOOLEAN \cup Int \cup Seq(Bytes)
GoValues == [kind : GoTypes, val : Held]
DecoderStates == [ok : BOOLEAN, offset : Nat, values : Seq(GoValues)]

\* What decoding returns is among the values of the decoder's states.
LEMMA IsGoValue ==
    ASSUME NEW oid \in TypeOIDs, NEW v, v = Err \/ ValueOK(v, oid),
           v = GoString(v.val) \/ oid \in IntegerTypes \/ oid = "bool" \/ v \in {Nil, Err}
    PROVE  v \in GoValues
  <1>0. /\ \A b \in BOOLEAN : b \in Held
        /\ \A n \in Int : n \in Held
        /\ \A bs \in Seq(Bytes) : bs \in Held
    BY DEF Held
  <1>1. Nil \in GoValues /\ Err \in GoValues
    BY <1>0 DEF GoValues, GoTypes, Nil, Err
  <1>2. CASE oid = "bool" /\ v.val \in BOOLEAN /\ v = Bool(v.val)
    <2>1. "bool" \in GoTypes
      <3>1. KindOf[oid] = "bool"
        BY <1>2 DEF KindOf
      <3> QED
        BY <3>1 DEF GoTypes
    <2>2. v.val \in Held
      BY <1>0, <1>2
    <2> QED
      BY <1>2, <2>1, <2>2 DEF GoValues, Bool
  <1>3. CASE oid \in IntegerTypes /\ v = [kind |-> KindOf[oid], val |-> v.val] /\ v.val \in Int
    <2>1. KindOf[oid] \in GoTypes
      BY DEF GoTypes
    <2>2. v.val \in Held
      BY <1>0, <1>3
    <2> QED
      BY <1>3, <2>1, <2>2 DEF GoValues
  <1>4. CASE v = GoString(v.val) /\ v.val \in Seq(Bytes)
    <2>1. "string" \in GoTypes
      BY DEF GoTypes
    <2>2. v.val \in Held
      BY <1>0, <1>4
    <2> QED
      BY <1>4, <2>1, <2>2 DEF GoValues, GoString
  <1>5. oid \in IntegerTypes => oid # "bool"
    BY DEF IntegerTypes
  <1> QED
    BY <1>1, <1>2, <1>3, <1>4, <1>5 DEF ValueOK, InRange

\* What a decoder returns beside a value that is not a number or a boolean.
LEMMA StringDecoded ==
    ASSUME NEW oid \in TypeOIDs, NEW data
    PROVE  \/ decodeValue(data, oid).value = GoString(decodeValue(data, oid).value.val)
           \/ oid \in IntegerTypes \/ oid = "bool"
           \/ decodeValue(data, oid).value = Err
  <1> SUFFICES ASSUME oid \notin IntegerTypes, oid # "bool"
               PROVE  \/ decodeValue(data, oid).value = GoString(decodeValue(data, oid).value.val)
                      \/ decodeValue(data, oid).value = Err
    OBVIOUS
  <1>1. decodeValue(data, oid) = decodeVariable(data)
    BY TypeCases DEF decodeValue
  <1>2. \/ decodeVariable(data) = TooShort
        \/ \E bs, n : decodeVariable(data) = [value |-> GoString(bs), n |-> n]
    BY DEF decodeVariable
  <1> QED
    BY <1>1, <1>2 DEF TooShort, GoString

\* The state of the decoder after n columns, if it has not failed.
SoFar(s, n, columns) ==
    s.ok => /\ Len(s.values) = n
            /\ \A i \in 1 .. n : ValueOK(s.values[i], columns[i].TypeOID)

\* A step of DecodeTuple's loop keeps the values typed.
LEMMA StepDecoded ==
    ASSUME NEW data \in Seq(Bytes), NEW columns \in Seq(Columns), NEW n \in 1 .. Len(columns),
           NEW s \in DecoderStates
    PROVE  /\ DecodeStep(data, columns, s, n) \in DecoderStates
           /\ SoFar(s, n - 1, columns) => SoFar(DecodeStep(data, columns, s, n), n, columns)
  <1>1. CASE ~s.ok
    BY <1>1 DEF DecodeStep, SoFar
  <1>2. CASE s.ok
    <2>1. PICK oid \in TypeOIDs : oid = columns[n].TypeOID
      BY ColumnType
    <2>2. s.offset \in Nat /\ s.values \in Seq(GoValues)
      BY DEF DecoderStates
    <2>3. PICK rest \in Seq(Bytes) : rest = Drop(data, s.offset)
      <3>1. PICK lo, hi : lo = s.offset + 1 /\ hi = Len(data) /\ lo \in Int /\ hi \in Int /\ lo >= 1
        BY <2>2
      <3>2. \A i \in lo .. hi : data[i] \in Bytes
        BY <3>1
      <3>3. SubSeq(data, lo, hi) \in Seq(Bytes)
        BY <3>1, <3>2, SubSeqProperties
      <3> QED
        BY <3>1, <3>3 DEF Drop
    <2>4. PICK d : d = IF IsNull(data, n) THEN [value |-> Nil, n |-> 0] ELSE decodeValue(rest, oid)
      OBVIOUS
    <2>5. DecodedOK(d, oid)
      <3>1. DecodedOK([value |-> Nil, n |-> 0], oid)
        BY DEF DecodedOK, ValueOK
      <3> QED
        BY <2>4, <3>1, ValueDecoded
    <2>6. d.value \in GoValues
      <3>1. \/ d.value = GoString(d.value.val) \/ oid \in IntegerTypes \/ oid = "bool"
            \/ d.value \in {Nil, Err}
        <4>1. CASE IsNull(data, n)
          BY <2>4, <4>1
        <4>2. CASE ~IsNull(data, n)
          <5>1. d = decodeValue(rest, oid)
            BY <2>4, <4>2
          <5> QED
            BY <5>1, StringDecoded
        <4> QED
          BY <4>1, <4>2
      <3>2. PICK v : v = d.value
        OBVIOUS
      <3>3. (v = Err \/ ValueOK(v, oid)) /\ (v = GoString(v.val) \/ oid \in IntegerTypes \/ oid = "bool" \/ v \in {Nil, Err})
        BY <2>5, <3>1, <3>2 DEF DecodedOK
      <3> QED
        BY <3>2, <3>3, IsGoValue
    <2>7. PICK values \in Seq(GoValues) : values = Append(s.values, d.value)
      BY <2>2, <2>6, AppendProperties
    <2>8. DecodeStep(data, columns, s, n)
             = [ok |-> ~IsErr(d.value), offset |-> s.offset + d.n, values |-> values]
      BY <1>2, <2>1, <2>3, <2>4, <2>7, Zenon DEF DecodeStep
    <2>9. s.offset + d.n \in Nat /\ (~IsErr(d.value)) \in BOOLEAN
      BY <2>2, <2>5 DEF DecodedOK, IsErr
    <2>10. DecodeStep(data, columns, s, n) \in DecoderStates
      BY <2>8, <2>9 DEF DecoderStates
    <2>11. ASSUME SoFar(s, n - 1, columns), ~IsErr(d.value)
           PROVE  Len(values) = n /\ \A i \in 1 .. n : ValueOK(values[i], columns[i].TypeOID)
      <3>1. Len(s.values) = n - 1 /\ \A i \in 1 .. n - 1 : ValueOK(s.values[i], columns[i].TypeOID)
        BY <1>2, <2>11 DEF SoFar
      <3>2. Len(values) = n /\ values[n] = d.value /\ \A i \in 1 .. n - 1 : values[i] = s.values[i]
        BY <2>2, <2>6, <2>7, <3>1
      <3>3. ValueOK(d.value, oid)
        BY <2>5, <2>11 DEF DecodedOK, IsErr, Err
      <3>4. \A i \in 1 .. n : i = n \/ i \in 1 .. n - 1
        OBVIOUS
      <3> QED
        BY <2>1, <3>1, <3>2, <3>3, <3>4
    <2>12. ASSUME SoFar(s, n - 1, columns) PROVE SoFar(DecodeStep(data, columns, s, n), n, columns)
      <3>1. PICK s2 : s2 = DecodeStep(data, columns, s, n)
        OBVIOUS
      <3>2. s2.ok = (~IsErr(d.value)) /\ s2.values = values
        BY <2>8, <3>1
      <3>3. SoFar(s2, n, columns)
        BY <2>11, <2>12, <3>2 DEF SoFar
      <3> QED
        BY <3>1, <3>3, Zenon
    <2> QED
      BY <2>10, <2>12
  <1> QED
    BY <1>1, <1>2

\* Whatever bytes a tuple holds, the row a decoder makes of it without an error
\* has a value of its type for each column, so an UPDATE can encode it again.
THEOREM DecodedRowIsTyped ==
    ASSUME NEW data \in Seq(Bytes), NEW columns \in Seq(Columns)
    PROVE  /\ DecodeTuple(data, columns).ok \in BOOLEAN
           /\ DecodeTuple(data, columns).ok => RowOK(DecodeTuple(data, columns).values, columns)
  <1>1. PICK N \in Nat : N = Len(columns)
    OBVIOUS
  <1> DEFINE F == [n \in 1 .. N |-> [s \in DecoderStates |-> DecodeStep(data, columns, s, n)]]
             start == DecodeStart(data, columns)
  <1>2. F \in [1 .. N -> [DecoderStates -> DecoderStates]]
    BY <1>1, StepDecoded
  <1>3. start \in DecoderStates
    <2>1. BitmapLen(N) \in Nat
      BY WidthAssumption DEF BitmapLen
    <2> QED
      BY <1>1, <2>1 DEF DecodeStart, DecoderStates
  <1>4. PICK g : Recurs(g, N, DecoderStates, start, F)
    <2> HIDE DEF F, start
    <2> QED
      BY <1>2, <1>3, Recursion
  <1>5. ASSUME NEW n \in 1 .. N
        PROVE  g[n - 1] \in DecoderStates /\ g[n] = DecodeStep(data, columns, g[n - 1], n)
    <2>1. g[n] = F[n][g[n - 1]] /\ g[n - 1] \in DecoderStates
      <3> HIDE DEF F, start
      <3> QED
        BY <1>4 DEF Recurs
    <2> QED
      BY <2>1
  <1>6. g[0] = start
    BY <1>4, Zenon DEF Recurs
  <1>7. DecodeTuple(data, columns) = [ok |-> g[N].ok, values |-> g[N].values]
    <2>1. Decodes(g, data, columns)
      BY <1>1, <1>5, <1>6 DEF Decodes
    <2> QED
      BY <1>1, <2>1, DecodeTupleDef
  <1> DEFINE S == {n \in 0 .. N : SoFar(g[n], n, columns)}
  <1>8. 0 \in S
    BY <1>6 DEF DecodeStart, SoFar
  <1>9. ASSUME NEW n \in 0 .. N - 1, n \in S PROVE n + 1 \in S
    <2>1. n + 1 \in 1 .. N /\ (n + 1) - 1 = n /\ n + 1 \in 0 .. N /\ n + 1 \in 1 .. Len(columns)
      BY <1>1
    <2>2. g[n] \in DecoderStates /\ g[n + 1] = DecodeStep(data, columns, g[n], n + 1)
      BY <1>5, <2>1
    <2>3. SoFar(g[n], n, columns)
      BY <1>9
    <2>4. SoFar(g[n + 1], n + 1, columns)
      BY <2>1, <2>2, <2>3, StepDecoded
    <2> QED
      BY <2>1, <2>4
  <1> HIDE DEF S
  <1>10. 0 .. N \subseteq S
    BY <1>8, <1>9, UpTo
  <1>11. SoFar(g[N], N, columns)
    BY <1>10 DEF S
  <1>12. g[N] \in DecoderStates
    <2> HIDE DEF F, start
    <2> QED
      BY <1>4 DEF Recurs
  <1>13. g[N].ok \in BOOLEAN
    BY <1>12 DEF DecoderStates
  <1> QED
    BY <1>1, <1>7, <1>11, <1>13 DEF SoFar, RowOK

=============================================================================
