------------------------------ MODULE Variant ------------------------------
(***************************************************************************)
(* Variant (cpVariant.cpp): a value of one of the data types, kept as the  *)
(* octets of its buffer, here with the most significant one first.  A      *)
(* number that is read out of it is a sequence of nine octets in two's     *)
(* complement, wide enough for every integer type.                         *)
(***************************************************************************)
EXTENDS Naturals, Sequences, SequencesExt

\* g_DataTypeNames, in the order of Variant::DataType_t.
DataTypes == <<"Inert", "None", "Uint8", "Int8", "Uint16", "Int16", "Uint32", "Int32", "Uint64",
               "Int64", "Float32", "Float64", "Bool", "String", "BLOB", "DatumList">>

Signed == {"Int8", "Int16", "Int32", "Int64"}
Unsigned == {"Uint8", "Uint16", "Uint32", "Uint64"}
Floats == {"Float32", "Float64"}

\* The octets of a type; other types have any number.
Width(type) ==
    CASE type \in {"Uint8", "Int8", "Bool"} -> 1
      [] type \in {"Uint16", "Int16"} -> 2
      [] type \in {"Uint32", "Int32", "Float32"} -> 4
      [] OTHER -> 8

Value(type, octets) == [type |-> type, octets |-> octets]
NoValue == Value("None", <<>>)
InertValue == Value("Inert", <<>>)

Fill(n, octet) == [i \in 1 .. n |-> octet]
LastOctets(octets, n) == SubSeq(octets, Len(octets) - n + 1, Len(octets))

Number(octets, signed) ==
    Fill(9 - Len(octets), IF signed /\ octets[1] >= 128 THEN 255 ELSE 0) \o octets

Zero9 == Fill(9, 0)
One9 == [Zero9 EXCEPT ![9] = 1]

-----------------------------------------------------------------------------
(* Setters; an inert value refuses a size, but takes a string or a buffer. *)

IntSet(v, type, number) ==
    IF v.type = "Inert" THEN v ELSE Value(type, LastOctets(number, Width(type)))

FloatSet(v, type, octets) == IF v.type = "Inert" THEN v ELSE Value(type, octets)
BoolSet(v, b) == IF v.type = "Inert" THEN v ELSE Value("Bool", <<IF b THEN 49 ELSE 48>>)

\* A string ends at its first null octet (Buffer::operator=).
UpToNull(octets) ==
    IF Contains(octets, 0) THEN SubSeq(octets, 1, SelectInSeq(octets, LAMBDA o : o = 0) - 1)
    ELSE octets

StrSet(octets) == Value("String", UpToNull(octets))
BufSet(octets) == Value("BLOB", octets)

-----------------------------------------------------------------------------
(* Getters *)

\* The number that a text or a float stands for is left to the caller.
UintGet(v, other) ==
    CASE v.type \in Signed \cup Unsigned -> Number(v.octets, FALSE)
      [] v.type = "Bool" -> IF v.octets = <<49>> THEN One9 ELSE Zero9
      [] v.type \in Floats \cup {"String"} -> other
      [] v.type = "BLOB" -> [Zero9 EXCEPT ![9] = Len(v.octets)]
      [] OTHER -> Zero9

\* Uint8Get to Int64Get: all of them read without sign and cut to their width.
IntGet(v, type, other) == LastOctets(UintGet(v, other), Width(type))

\* Float32Get and Float64Get read all integers with sign.
FloatGet(v, other) ==
    IF v.type \in Signed \cup Unsigned THEN Number(v.octets, TRUE)
    ELSE IF v.type \in Floats THEN v.octets ELSE UintGet(v, other)

BoolGet(v) ==
    CASE v.type \in Signed \cup Unsigned -> \E i \in DOMAIN v.octets : v.octets[i] > 0
      [] v.type = "Bool" -> v.octets = <<49>>
      [] v.type \in {"String", "BLOB"} -> v.octets # <<>>
      [] OTHER -> FALSE

\* StrGet: the number whose decimal form it is (IntToStr and UintToStr take 32
\* bits), or the octets up to a null one; the text of a float is its octets.
StrGet(v) ==
    CASE v.type \in Signed \cup Unsigned ->
            Number(LastOctets(Number(v.octets, v.type \in Signed), 4), v.type \in Signed)
      [] v.type \in Floats \cup {"Bool"} -> v.octets
      [] v.type \in {"String", "BLOB"} -> UpToNull(v.octets)
      [] OTHER -> <<>>
=============================================================================
