----------------------------- MODULE TupleCodec -----------------------------
(***************************************************************************)
(* internal/storage/tuple.go: what follows the header of a tuple, a null   *)
(* bitmap and the column values one after the other.  Neither the number   *)
(* of columns nor their types are stored: both sides bring their own.      *)
(***************************************************************************)
EXTENDS Types

LengthSize == 4   \* bytes in front of a variable-length value

\* The null bitmap has a bit per column, rounded up to whole bytes.
BitmapLen(n) == (n + BitsPerByte - 1) \div BitsPerByte

\* Mutant: the higher bits are not cut off.
BigEndianUncut(n, size) ==
    [i \in 1 .. size |-> Unsigned(n, size) \div ValuesOf[size - i]]

BigEndian(n, size) ==
    [i \in 1 .. size |-> (Unsigned(n, size) \div ValuesOf[size - i]) % ByteValues]

FromBigEndian(bytes) ==
    LET number[n \in 0 .. Len(bytes)] ==
            IF n = 0 THEN 0 ELSE number[n - 1] * ByteValues + bytes[n]
    IN  number[Len(bytes)]

Drop(bytes, n) == SubSeq(bytes, n + 1, Len(bytes))

-----------------------------------------------------------------------------
encodeFixed(v, oid) ==
    IF oid = "bool" THEN <<IF v.val THEN 1 ELSE 0>>
                    ELSE BigEndian(v.val, SizeOf[oid])

encodeVariable(v) == BigEndian(Len(v.val), LengthSize) \o v.val

\* Only values of the type's own Go type get here, or a string for a bytea, which
\* encodeVariable takes too: evalLiteral and DecodeTuple make no others, so the
\* type errors of the code cannot arise.
encodeValue(v, oid) ==
    IF SizeOf[oid] > 0 THEN encodeFixed(v, oid) ELSE encodeVariable(v)

\* Bit k of byte j stands for this column; bits are added from the lowest on.
NullByte(values, j) ==
    LET column(k) == (j - 1) * BitsPerByte + k + 1
        bits[k \in 0 .. BitsPerByte] ==
            IF k = 0 THEN 0
            ELSE bits[k - 1] + IF column(k - 1) <= Len(values) /\ IsNil(values[column(k - 1)])
                               THEN TwoTo[k - 1] ELSE 0
    IN  bits[BitsPerByte]

NullBitmap(values) == [j \in 1 .. BitmapLen(Len(values)) |-> NullByte(values, j)]

\* Mutant: a NULL keeps its place among the column values.
EncodeTupleNullsToo(values, columns) ==
    LET data[n \in 0 .. Len(columns)] ==
            IF n = 0 THEN NullBitmap(values)
            ELSE data[n - 1] \o IF IsNil(values[n]) THEN <<0>>
                                ELSE encodeValue(values[n], columns[n].TypeOID)
    IN  data[Len(columns)]

\* The bitmap, then the values that are not NULL, column by column.
EncodeTuple(values, columns) ==
    LET data[n \in 0 .. Len(columns)] ==
            IF n = 0 THEN NullBitmap(values)
            ELSE data[n - 1] \o IF IsNil(values[n]) THEN <<>>
                                ELSE encodeValue(values[n], columns[n].TypeOID)
    IN  data[Len(columns)]

-----------------------------------------------------------------------------
\* A decoder returns the value and the number of bytes it took, or Err.
TooShort == [value |-> Err, n |-> 0]

decodeFixed(data, oid) ==
    LET size  == SizeOf[oid]
        bytes == SubSeq(data, 1, size)
    IN  IF Len(data) < size THEN TooShort
        ELSE [value |-> IF oid = "bool"
                        THEN Bool(bytes[1] # 0)
                        ELSE [kind |-> KindOf[oid],
                              val  |-> Narrow(FromBigEndian(bytes), oid)],
              n |-> size]

\* Every variable-length value comes back as a string, a bytea too.
decodeVariable(data) ==
    LET length == FromBigEndian(SubSeq(data, 1, LengthSize))
    IN  IF Len(data) < LengthSize \/ Len(data) < LengthSize + length THEN TooShort
        ELSE [value |-> GoString(SubSeq(data, LengthSize + 1, LengthSize + length)),
              n |-> LengthSize + length]

decodeValue(data, oid) ==
    IF SizeOf[oid] > 0 THEN decodeFixed(data, oid) ELSE decodeVariable(data)

IsNull(data, i) ==
    LET byte == data[(i - 1) \div BitsPerByte + 1]
    IN  (byte \div TwoTo[(i - 1) % BitsPerByte]) % 2 = 1

\* The columns' values up to the first that does not decode, if any.
DecodeTuple(data, columns) ==
    LET start == [ok     |-> Len(data) >= BitmapLen(Len(columns)),
                  offset |-> BitmapLen(Len(columns)),
                  values |-> <<>>]
        Step(s, i) ==
            IF ~s.ok THEN s
            ELSE LET d == IF IsNull(data, i) THEN [value |-> Nil, n |-> 0]
                          ELSE decodeValue(Drop(data, s.offset), columns[i].TypeOID)
                 IN  [ok     |-> ~IsErr(d.value),
                      offset |-> s.offset + d.n,
                      values |-> Append(s.values, d.value)]
        after[n \in 0 .. Len(columns)] == IF n = 0 THEN start ELSE Step(after[n - 1], n)
        final == after[Len(columns)]
    IN  [ok |-> final.ok, values |-> final.values]
=============================================================================
