----------------------------- MODULE SerDesIdl -----------------------------
(***************************************************************************)
(* SerDesIdl (cpSerDesIdl.cpp): a datum as lines of text.  A line is the   *)
(* tag it starts with and the text after it; a text is of some kind, and   *)
(* what it reads as depends on the type it is read for.  The type of a     *)
(* datum's value stands in its first line and is that of its limits too.   *)
(***************************************************************************)
EXTENDS SerDesNative

CONSTANT Tiny      \* floats that the fixed form with 7 or 16 digits shows as zero

Text(kind, octets) == [kind |-> kind, octets |-> octets]
Empty == Text("str", <<>>)
Line(tag, text) == [tag |-> tag, text |-> text]
NewLine == 10

-----------------------------------------------------------------------------
(* Encoding *)

\* Decimal numbers, fixed floats, true and false, a string as it is, and a BLOB
\* as hexadecimal octets.
TextInsert(v) ==
    CASE v.type \in Signed \cup Unsigned -> Text("num", Number(v.octets, v.type \in Signed))
      [] v.type \in Floats -> Text("fix", IF v.octets \in Tiny THEN Fill(Width(v.type), 0)
                                          ELSE FloatGet(v, Zero9))
      [] v.type = "Bool" -> Text("word", <<IF BoolGet(v) THEN 116 ELSE 102>>)
      [] v.type = "String" -> Text("str", StrGet(v))
      [] v.type = "BLOB" -> Text("hex", v.octets)
      [] OTHER -> Empty

\* A newline in a string starts another line, which is no line of the language.
AttribLines(attrib, v) ==
    LET text == TextInsert(v)
        cut == SelectInSeq(text.octets, LAMBDA o : o = NewLine)
    IN  IF text.kind # "str" \/ cut = 0 THEN <<Line(attrib, text)>>
        ELSE <<Line(attrib, Text("str", SubSeq(text.octets, 1, cut - 1))),
               Line(IF cut = Len(text.octets) THEN "Blank" ELSE "Junk", Empty)>>

\* The line of an attribute that has no serialized form is not ended: the next
\* line, one that begins or ends a datum, becomes its text.  Its other attributes
\* are left out.
Merged(d, rest) ==
    LET bad == SelectInSeq(Attribs(d), LAMBDA a : ~Encodable(d.attr[a]))
    IN  IF bad = 0 THEN rest
        ELSE <<Line(Attribs(d)[bad], Text("str", <<68>>))>> \o Tail(rest)

IdlStart(d) ==
    LET type == Attr(d, "val")
        bad == SelectInSeq(Attribs(d), LAMBDA a : ~Encodable(d.attr[a]))
        whole == IF bad = 0 THEN Attribs(d) ELSE SubSeq(Attribs(d), 1, bad - 1)
    IN  <<Line("DatumBegin", Text("type", <<IF type = Inert THEN 0 ELSE TypeCode(type.type)>>))>>
        \o FlattenSeq([i \in DOMAIN whole |-> AttribLines(whole[i], d.attr[whole[i]])])

RECURSIVE IdlDatum(_)
IdlDatum(d) ==
    IdlStart(d) \o Merged(d, FlattenSeq([i \in DOMAIN d.subs |-> IdlDatum(d.subs[i])])
                                 \o <<Line("DatumEnd", Empty)>>)

IdlBody(d, ver) ==
    <<Line("Hdr", Empty), Line("PkgBegin", Text("num", ver))>> \o IdlDatum(d)
    \o <<Line("PkgEnd", Empty)>>

IdlClose(ck) ==
    IF ck = "None" THEN <<>>
    ELSE <<Line("Comment", IF ck = "Crc32" THEN Text("crc", CrcOctets) ELSE Text("sum", <<>>))>>

-----------------------------------------------------------------------------
(* Decoding: positions are numbers of lines read. *)

\* StrToInt and StrToUint give 32 bits, and 0 for a text that is no number.
StrToInt(text) ==
    IF text.kind = "num" THEN Number(LastOctets(text.octets, 4), TRUE) ELSE Zero9

StrToUint(text) ==
    IF text.kind = "num" THEN Number(LastOctets(text.octets, 4), FALSE) ELSE Zero9

\* A number that is read as a float is a float the models do not name.
StrToFloat(text, width) == IF text.kind = "fix" THEN text.octets ELSE Fill(width, 0)

\* 0, f and F mean false.
StrToBool(text) == text.octets # <<>> /\ text.octets[1] \notin {48, 70, 102}

HexDecode(text) == IF text.kind \in {"hex", "crc"} THEN text.octets ELSE <<>>

TextExtract(type, text) ==
    CASE type \in Signed -> IntSet(NoValue, type, StrToInt(text))
      [] type \in Unsigned -> IntSet(NoValue, type, StrToUint(text))
      [] type \in Floats -> FloatSet(NoValue, type, StrToFloat(text, Width(type)))
      [] type = "Bool" -> BoolSet(NoValue, StrToBool(text))
      [] type = "String" -> StrSet(text.octets)
      [] type = "BLOB" -> BufSet(HexDecode(text))
      [] OTHER -> NoValue

\* The lines before the first one with the tag are skipped.
FirstLine(s, pos, tag) ==
    LET found == {i \in pos + 1 .. Len(s) : s[i].tag = tag}
    IN  IF found = {} THEN Failed(pos)
        ELSE [rv |-> TRUE, pos |-> CHOOSE i \in found : \A j \in found : i <= j]

IdlIdent(s) == FirstLine(s, 0, "Hdr")
IdlVersion(s, pos) == FirstLine(s, pos, "PkgBegin")

\* DecodeElement; type is that of the datum line read last.
RECURSIVE IdlElements(_, _, _, _, _, _)
IdlElements(s, pos, dat, path, rootDatum, type) ==
    LET line == s[pos + 1]
        top == At(dat, path)
        sub == Add(top, NewDatum(NoName))
        begun == DataTypes[line.text.octets[1] + 1]
        attribType == IF line.tag \in {"name", "units", "info", "choices"} THEN "String" ELSE type
        set == Put(dat, path, AttrSet(top, line.tag, TextExtract(attribType, line.text)))
        more == pos < Len(s)
    IN  CASE ~more -> Failed(pos)
          [] more /\ line.tag = "DatumBegin" ->
                 IF rootDatum THEN IdlElements(s, pos + 1, dat, path, FALSE, begun)
                 ELSE IdlElements(s, pos + 1, Put(dat, path, sub), Append(path, sub.iter), FALSE, begun)
          [] more /\ line.tag = "DatumEnd" ->
                 IdlElements(s, pos + 1, dat, IF path = <<>> THEN path ELSE Front(path), rootDatum, type)
          [] more /\ line.tag \in Range(AttribOrder) ->
                 IF attribType \in {"Inert", "DatumList"} THEN Failed(pos)
                 ELSE IdlElements(s, pos + 1, set, path, rootDatum, type)
          [] more /\ line.tag = "PkgEnd" -> [rv |-> TRUE, pos |-> pos + 1, dat |-> dat]
          [] more /\ line.tag \in {"Blank", "Comment", "Hdr"} ->
                 IdlElements(s, pos + 1, dat, path, rootDatum, type)
          [] OTHER -> Failed(pos)

\* DecodeChecksum: the comments that hold no CRC are skipped.
IdlChecksum(s, pos, sum) ==
    \E i \in pos + 1 .. Len(s) :
        /\ s[i] = Line("Comment", Text("crc", CrcOctets)) /\ SubSeq(s, 1, pos) = sum
        /\ \A j \in pos + 1 .. i - 1 : s[j].text.kind # "crc"
=============================================================================
