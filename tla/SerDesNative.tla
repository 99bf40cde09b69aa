---------------------------- MODULE SerDesNative ----------------------------
(***************************************************************************)
(* SerDesNative (cpSerDesNative.cpp): a datum as octets.  Each datum lies  *)
(* between two markers, each attribute is a marker, the code of its type   *)
(* and its value.  The attributes of a datum are values of Variant.        *)
(* Decoding takes positions in the octets, from 0, and fails when they end.*)
(***************************************************************************)
EXTENDS DatumOps, Variant

Magic == 136  Pkg == 160  PkgEnd == 161  Dat == 162  DatEnd == 163  Chk == 164  ChkEnd == 165

\* The attributes in the order of Datum::Attrib_t, which is that of the map, and
\* their markers.
AttribOrder == <<"name", "val", "min", "max", "def", "units", "info", "choices">>
AttribMap == <<176, 192, 193, 194, 195, 196, 197, 198>>
Marker(attrib) == AttribMap[SelectInSeq(AttribOrder, LAMBDA a : a = attrib)]

\* The four octets of the checksum: no others are equal to them, and they fit
\* only the octets they were computed over.
CrcOctets == <<256, 257, 258, 259>>

TypeCode(type) == SelectInSeq(DataTypes, LAMBDA t : t = type) - 1

\* The variant of a type that has a serialized form.
Encodable(v) == v.type \notin {"Inert", "DatumList"}

Attribs(d) == SelectSeq(AttribOrder, LAMBDA a : a \in DOMAIN d.attr)

-----------------------------------------------------------------------------
(* Encoding *)

\* Mutant: 128 and more in one octet, which is the escape of the long forms.
LenInsert_OneOctet(n) ==
    IF n < 256 THEN <<n>>
    ELSE <<129, n \div 16777216, (n \div 65536) % 256, (n \div 256) % 256, n % 256>>

LenInsert(n) ==
    CASE n < 128 -> <<n>>
      [] n \in 128 .. 65535 -> <<128, n \div 256, n % 256>>
      [] OTHER -> <<129, n \div 16777216, (n \div 65536) % 256, (n \div 256) % 256, n % 256>>

ValueInsert(v) ==
    CASE v.type \in Signed \cup Unsigned -> IntGet(v, v.type, Zero9)
      [] v.type \in Floats -> FloatGet(v, Zero9)
      [] v.type = "Bool" -> <<IF BoolGet(v) THEN 1 ELSE 0>>
      [] v.type = "String" -> LenInsert(Len(StrGet(v))) \o StrGet(v)
      [] v.type = "BLOB" -> LenInsert(Len(v.octets)) \o v.octets
      [] OTHER -> <<>>

AttribInsert(d, attrib) ==
    <<Marker(attrib), TypeCode(d.attr[attrib].type)>> \o ValueInsert(d.attr[attrib])

\* Start stops after the type of an attribute that has no serialized form.
NativeStart(d) ==
    LET attribs == Attribs(d)
        bad == SelectInSeq(attribs, LAMBDA a : ~Encodable(d.attr[a]))
        upTo == IF bad = 0 THEN attribs ELSE SubSeq(attribs, 1, bad)
    IN  <<Dat>> \o FlattenSeq([i \in DOMAIN upTo |-> AttribInsert(d, upTo[i])])

\* Datum::Encode: the datum, its sub-data, the end.
RECURSIVE NativeDatum(_)
NativeDatum(d) ==
    NativeStart(d) \o FlattenSeq([i \in DOMAIN d.subs |-> NativeDatum(d.subs[i])]) \o <<DatEnd>>

\* Open, the data and the terminator of Close; then its checksum.
NativeBody(d, ver) == <<Magic, Pkg, ver>> \o NativeDatum(d) \o <<PkgEnd>>

NativeClose(ck) ==
    CASE ck = "None" -> <<>>
      [] ck = "Crc32" -> <<Chk, 1>> \o CrcOctets \o <<ChkEnd>>
      [] ck = "Md5Sum" -> <<Chk, 2, ChkEnd>>
      [] ck = "Sha1Sum" -> <<Chk, 3, ChkEnd>>

-----------------------------------------------------------------------------
(* Decoding: results are records with `rv' and the next position. *)

Has(s, pos, n) == pos + n <= Len(s)
Octets(s, pos, n) == SubSeq(s, pos + 1, pos + n)
Failed(pos) == [rv |-> FALSE, pos |-> pos]

\* No stream here is as long as 2^24 octets.
LenExtract(s, pos) ==
    IF ~Has(s, pos, 1) THEN Failed(pos)
    ELSE LET ch == s[pos + 1]
         IN  CASE ch < 128 -> [rv |-> TRUE, pos |-> pos + 1, len |-> ch]
               [] ch = 128 /\ Has(s, pos, 3) ->
                      [rv |-> TRUE, pos |-> pos + 3, len |-> s[pos + 2] * 256 + s[pos + 3]]
               [] ch = 129 /\ Has(s, pos, 5) /\ s[pos + 2] = 0 ->
                      [rv |-> TRUE, pos |-> pos + 5,
                       len |-> (s[pos + 3] * 256 + s[pos + 4]) * 256 + s[pos + 5]]
               [] OTHER -> Failed(pos)

\* StringExtract and BlobExtract.
BlockExtract(s, pos) ==
    LET n == LenExtract(s, pos)
    IN  IF ~n.rv \/ ~Has(s, n.pos, n.len) THEN Failed(pos)
        ELSE [rv |-> TRUE, pos |-> n.pos + n.len, octets |-> Octets(s, n.pos, n.len)]

\* VariantExtract, and the fixed extracts it calls.
VariantExtract(s, pos, type) ==
    LET fixed == Octets(s, pos, Width(type))
        block == BlockExtract(s, pos)
        Fixed(v) == IF Has(s, pos, Width(type)) THEN [rv |-> TRUE, pos |-> pos + Width(type), value |-> v]
                    ELSE Failed(pos)
        Block(v) == IF block.rv THEN [rv |-> TRUE, pos |-> block.pos, value |-> v] ELSE Failed(pos)
    IN  CASE type \in Signed \cup Unsigned -> Fixed(IntSet(NoValue, type, fixed))
          [] type \in Floats -> Fixed(FloatSet(NoValue, type, fixed))
          [] type = "Bool" -> Fixed(BoolSet(NoValue, fixed # <<0>>))
          [] type = "String" -> Block(StrSet(block.octets))
          [] type = "BLOB" -> Block(BufSet(block.octets))
          [] type = "None" -> [rv |-> TRUE, pos |-> pos, value |-> NoValue]
          [] OTHER -> Failed(pos)

NativeIdent(s) ==
    IF Has(s, 0, 2) /\ Octets(s, 0, 2) = <<Magic, Pkg>> THEN [rv |-> TRUE, pos |-> 2] ELSE Failed(0)

NativeVersion(s, pos) == IF Has(s, pos, 1) THEN [rv |-> TRUE, pos |-> pos + 1] ELSE Failed(pos)

\* The attribute whose marker is at pos.
AttribExtract(s, pos, dat, path) ==
    LET code == s[pos + 2]
        r == VariantExtract(s, pos + 2, DataTypes[code + 1])
        attrib == AttribOrder[SelectInSeq(AttribMap, LAMBDA m : m = s[pos + 1])]
    IN  IF ~Has(s, pos, 2) \/ code >= Len(DataTypes) \/ ~r.rv THEN Failed(pos)
        ELSE [rv |-> TRUE, pos |-> r.pos, dat |-> Put(dat, path, AttrSet(At(dat, path), attrib, r.value))]

\* DecodeElement.  The stack of data is the path from the root to the top; the
\* first datum marker is that of the root.
RECURSIVE NativeElements(_, _, _, _, _)
NativeElements(s, pos, dat, path, rootDatum) ==
    LET ch == s[pos + 1]
        top == At(dat, path)
        sub == Add(top, NewDatum(NoName))
        attrib == AttribExtract(s, pos, dat, path)
    IN  CASE ~Has(s, pos, 1) -> Failed(pos)
          [] Has(s, pos, 1) /\ ch = PkgEnd -> [rv |-> TRUE, pos |-> pos + 1, dat |-> dat]
          [] Has(s, pos, 1) /\ ch = Dat ->
                 IF rootDatum THEN NativeElements(s, pos + 1, dat, path, FALSE)
                 ELSE NativeElements(s, pos + 1, Put(dat, path, sub), Append(path, sub.iter), FALSE)
          [] Has(s, pos, 1) /\ ch = DatEnd ->
                 NativeElements(s, pos + 1, dat, IF path = <<>> THEN path ELSE Front(path), rootDatum)
          [] Has(s, pos, 1) /\ ch \in {Chk, ChkEnd} ->
                 NativeElements(s, pos + 1, dat, path, rootDatum)
          [] Has(s, pos, 1) /\ ch \in Range(AttribMap) ->
                 IF attrib.rv THEN NativeElements(s, attrib.pos, attrib.dat, path, rootDatum)
                 ELSE Failed(pos)
          [] OTHER -> Failed(pos)

\* DecodeChecksum: a type that is none of the three is accepted.
NativeChecksum(s, pos, sum) ==
    LET type == s[pos + 2]
        end == IF type = 1 THEN pos + 6 ELSE pos + 2
    IN  /\ Has(s, pos, 2) /\ s[pos + 1] = Chk
        /\ type \notin {2, 3}
        /\ type = 1 => Has(s, end, 0) /\ Octets(s, pos + 2, 4) = CrcOctets /\ SubSeq(s, 1, pos) = sum
        /\ Has(s, end, 1)
=============================================================================
