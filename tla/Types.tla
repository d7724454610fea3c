------------------------------- MODULE Types --------------------------------
(***************************************************************************)
(* internal/types/types.go: the SQL types, and the Go values that stand    *)
(* for their values.  A value is its dynamic Go type (kind) and what it    *)
(* holds; strings and byte slices are sequences of bytes.                  *)
(*                                                                         *)
(* The width of a byte is a parameter, 8 in the code, so that all integer  *)
(* widths shrink together.  Columns of type float4 and float8 are left     *)
(* out: they differ from the others only in the bits of a float.  Float    *)
(* literals do occur in conditions; a float64 is counted in halves.        *)
(***************************************************************************)
EXTENDS Integers, Sequences, FiniteSets

CONSTANTS
    BitsPerByte,     \* 8 in the code
    MantissaBits     \* 53 in the code: the precision of a float64

ASSUME WidthAssumption ==
    /\ BitsPerByte \in Nat \ {0}
    /\ MantissaBits \in Nat \ {0}

\* The powers of two, as far as the largest number float64 has to round, and the
\* number of values of n bytes.
TwoTo[k \in 0 .. MantissaBits + 8 * BitsPerByte] ==
    IF k = 0 THEN 1 ELSE 2 * TwoTo[k - 1]

ByteValues == TwoTo[BitsPerByte]
Bytes      == 0 .. ByteValues - 1

ValuesOf[n \in 0 .. 8] == IF n = 0 THEN 1 ELSE ByteValues * ValuesOf[n - 1]

Nil == [kind |-> "nil", val |-> 0]
Err == [kind |-> "error", val |-> 0]

IsNil(v) == v.kind = "nil"
IsErr(v) == v.kind = "error"

Bool(b)      == [kind |-> "bool", val |-> b]
Int64(n)     == [kind |-> "int64", val |-> n]
Float64(h)   == [kind |-> "float64", val |-> h]
GoString(bs) == [kind |-> "string", val |-> bs]

-----------------------------------------------------------------------------
\* The registered types: the size in bytes (-1 for variable length), and the
\* Go type that TextEncode and encodeFixed demand of a value.
SizeOf ==
    [bool |-> 1, int2 |-> 2, int4 |-> 4, int8 |-> 8, oid |-> 4,
     text |-> -1, varchar |-> -1, char |-> -1, bytea |-> -1]

KindOf ==
    [bool |-> "bool", int2 |-> "int16", int4 |-> "int32", int8 |-> "int64",
     oid |-> "uint32", text |-> "string", varchar |-> "string",
     char |-> "string", bytea |-> "[]byte"]

TypeOIDs     == DOMAIN SizeOf
IntegerTypes == {"int2", "int4", "int8", "oid"}

\* A column of a table, as the catalog keeps it.
Columns == [Name : STRING, TypeOID : TypeOIDs, NotNull : BOOLEAN]

\* The names and aliases under which CREATE TABLE finds a type.
oidsByName ==
    [boolean |-> "bool", bool |-> "bool", smallint |-> "int2", int2 |-> "int2",
     integer |-> "int4", int4 |-> "int4", int |-> "int4", bigint |-> "int8",
     int8 |-> "int8", oid |-> "oid", text |-> "text", varchar |-> "varchar",
     character |-> "char", char |-> "char", bytea |-> "bytea"]

-----------------------------------------------------------------------------
\* Unsigned and two's complement readings of an integer in size bytes.
Unsigned(n, size) == n % ValuesOf[size]

Signed(n, size) ==
    LET u == Unsigned(n, size)
    IN  IF 2 * u >= ValuesOf[size] THEN u - ValuesOf[size] ELSE u

\* The conversion int16(n), int32(n), int64(n) or uint32(n) for a column.
Narrow(n, oid) == IF oid = "oid" THEN Unsigned(n, SizeOf[oid])
                                 ELSE Signed(n, SizeOf[oid])

\* The largest int64: strconv.ParseInt refuses what is beyond.
MaxInt64 == ValuesOf[8] \div 2 - 1

\* float64(n), in halves: n rounded to MantissaBits significant bits, ties to
\* the even neighbour.
Ulp(m) == TwoTo[CHOOSE k \in 0 .. 8 * BitsPerByte :
                    /\ m < TwoTo[MantissaBits + k]
                    /\ k = 0 \/ m >= TwoTo[MantissaBits + k - 1]]

Rounded(m, ulp) ==
    LET up == 2 * (m % ulp) > ulp \/ (2 * (m % ulp) = ulp /\ (m \div ulp) % 2 = 1)
    IN  (m \div ulp + IF up THEN 1 ELSE 0) * ulp

RoundToFloat(n) == 2 * IF n < 0 THEN -Rounded(-n, Ulp(-n)) ELSE Rounded(n, Ulp(n))

-----------------------------------------------------------------------------
\* The text of a value: the decimals of a number, the bytes of a string, the
\* hexadecimal form of a byte slice.
Text(form, val) == [form |-> form, val |-> val]

\* What a failed TextEncode returns beside the error.
EmptyText == Text("chars", <<>>)

\* The text a DataRow carries.  The error TextEncode reports for a value of
\* another Go type is dropped by its caller.
TextEncode(v, oid) ==
    CASE v.kind # KindOf[oid] -> EmptyText
      [] v.kind = "bool"      -> Text("word", IF v.val THEN "t" ELSE "f")
      [] v.kind = "string"    -> Text("chars", v.val)
      [] v.kind = "[]byte"    -> Text("hex", v.val)
      [] OTHER                -> Text("decimal", v.val)
=============================================================================
