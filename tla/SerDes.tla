------------------------------- MODULE SerDes -------------------------------
(***************************************************************************)
(* Datum::Encode and Datum::Decode through a serializer of the factory: a  *)
(* document is encoded to a stream, the stream may be damaged on its way,  *)
(* and the state machine of SerDes::Decode fills a datum from it.          *)
(***************************************************************************)
EXTENDS SerDesXml

CONSTANTS Docs,        \* the documents that are encoded
          Targets,     \* the names of the data that are decoded into
          Noise,       \* octets that may replace one of a native stream
          NoiseLines,  \* lines that may replace one of a stream of lines
          MaxDamaged   \* bound: the length of a stream that is damaged

VARIABLES doc,      \* the document encoded
          stream,   \* [format, ck, units, sum]: its octets or lines, and what the
                    \*  checksum of the type ck was computed over
          damaged,  \* whether the stream was damaged
          dec       \* [state, codec, check, pos, dat]: the decoder, and its datum

serVars == <<doc, stream, damaged, dec>>

\* The serializers in the order of the factory's map.
Codecs == <<"Idl", "Native", "Xml">>
CheckSums == {"None", "Crc32", "Md5Sum", "Sha1Sum"}

Idle == [state |-> "idle", codec |-> "", check |-> FALSE, pos |-> 0, dat |-> NewDatum(NoName)]

SerInit ==
    /\ doc = NewDatum(NoName) /\ stream = [format |-> "", ck |-> "None", units |-> <<>>, sum |-> <<>>]
    /\ damaged = FALSE /\ dec = Idle

\* Open, Encode and Close.  Encode adds up what Start and End return, and the sum
\* is never 0: it succeeds whatever Start has left out.
Encode(d, codec, ck) ==
    LET Body == CASE codec = "Native" -> NativeBody(d, 0)
                  [] codec = "Idl" -> IdlBody(d, Zero9)
                  [] codec = "Xml" -> XmlBody(d, Zero9)
        Footer == CASE codec = "Native" -> NativeClose(ck)
                    [] codec = "Idl" -> IdlClose(ck)
                    [] codec = "Xml" -> XmlClose(ck)
    IN  /\ dec.state = "idle"
        /\ doc' = d
        /\ stream' = [format |-> codec, ck |-> ck, units |-> Body \o Footer, sum |-> Body]
        /\ dec' = [dec EXCEPT !.state = "encoded"]
        /\ UNCHANGED damaged

\* One octet or line is replaced, or the end is cut off.
Damage == dec.state = "encoded" /\ ~damaged /\ Len(stream.units) <= MaxDamaged

Spoil(i, unit) ==
    /\ Damage /\ damaged' = TRUE
    /\ i \in DOMAIN stream.units /\ stream.units[i] # unit
    /\ stream' = [stream EXCEPT !.units[i] = unit]
    /\ UNCHANGED <<doc, dec>>

CutOff(n) ==
    /\ Damage /\ damaged' = TRUE
    /\ n < Len(stream.units)
    /\ stream' = [stream EXCEPT !.units = SubSeq(@, 1, n)]
    /\ UNCHANGED <<doc, dec>>

\* CheckEncoding, and DecodeIdent after Seek(0).  No stream of one format has the
\* header of another.
Ident(codec) ==
    IF stream.format # codec THEN Failed(0)
    ELSE CASE codec = "Native" -> NativeIdent(stream.units)
           [] codec = "Idl" -> IdlIdent(stream.units)
           [] codec = "Xml" -> XmlIdent(stream.units)

\* SerDesFactory::DetectEncoding.
Detected ==
    LET i == SelectInSeq(Codecs, LAMBDA c : Ident(c).rv) IN IF i = 0 THEN "" ELSE Codecs[i]

\* SerDes::Decode clears the datum; a stream nobody detects leaves it as it is.
\* Bound: the format of a damaged stream is always detected.
StartDecode(enc, check, name) ==
    LET codec == IF enc = "Auto" THEN Detected ELSE enc
    IN  /\ dec.state = "encoded"
        /\ damaged => enc = "Auto"
        /\ dec' = [state |-> IF codec = "" THEN "failed" ELSE "ident", codec |-> codec,
                   check |-> check, pos |-> 0, dat |-> Cleared(NewDatum(name))]
        /\ UNCHANGED <<doc, stream, damaged>>

\* A step of ExecDecodeState: a failure clears the datum and ends the decoding.
Step(from, r, to, dat) ==
    /\ dec.state = from
    /\ dec' = IF r.rv THEN [dec EXCEPT !.state = to, !.pos = r.pos, !.dat = dat]
              ELSE [dec EXCEPT !.state = "failed", !.dat = Cleared(@)]
    /\ UNCHANGED <<doc, stream, damaged>>

DecodeIdent == Step("ident", Ident(dec.codec), "version", dec.dat)

DecodeVersion ==
    Step("version", CASE dec.codec = "Native" -> NativeVersion(stream.units, dec.pos)
                      [] dec.codec = "Idl" -> IdlVersion(stream.units, dec.pos)
                      [] OTHER -> XmlVersion(stream.units, dec.pos), "elements", dec.dat)

DecodeElement ==
    LET r == CASE dec.codec = "Native" -> NativeElements(stream.units, dec.pos, dec.dat, <<>>, TRUE)
               [] dec.codec = "Idl" -> IdlElements(stream.units, dec.pos, dec.dat, <<>>, TRUE, "None")
               [] OTHER -> XmlElements(stream.units, dec.pos, dec.dat)
    IN  Step("elements", r, IF dec.check THEN "check" ELSE "done", IF r.rv THEN r.dat ELSE dec.dat)

DecodeChecksum ==
    LET rv == IF dec.codec = "Native" THEN NativeChecksum(stream.units, dec.pos, stream.sum)
              ELSE IdlChecksum(stream.units, dec.pos, stream.sum)
    IN  Step("check", [rv |-> rv, pos |-> dec.pos], "done", dec.dat)

SerNext ==
    \/ \E d \in Docs, c \in Range(Codecs), ck \in CheckSums : Encode(d, c, ck)
    \/ \E i \in DOMAIN stream.units :
         \/ CutOff(i)
         \/ \E unit \in Noise : stream.format = "Native" /\ Spoil(i, unit)
         \/ \E unit \in NoiseLines : stream.format # "Native" /\ Spoil(i, unit)
    \/ \E enc \in Range(Codecs) \cup {"Auto"}, check \in BOOLEAN, n \in Targets : StartDecode(enc, check, n)
    \/ DecodeIdent \/ DecodeVersion \/ DecodeElement \/ DecodeChecksum

SerSpec == SerInit /\ [][SerNext]_serVars

-----------------------------------------------------------------------------
\* The same data, wherever their cursors are.
RECURSIVE Same(_, _)
Same(a, b) ==
    /\ a.attr = b.attr /\ Len(a.subs) = Len(b.subs)
    /\ \A i \in DOMAIN a.subs : Same(a.subs[i], b.subs[i])

Data(d) == {At(d, path) : path \in Paths(d)}
Limits == {"min", "max", "def"}

\* Every value has a serialized form, and in Idl it is not one that the text is
\* too poor for.
Expressible(d) ==
    \A e \in Data(d) : \A a \in DOMAIN e.attr :
        LET v == e.attr[a]
        IN  /\ Encodable(v)
            /\ stream.format = "Idl" =>
                   /\ v.type \in {"Int64", "Uint64"} =>
                          Number(LastOctets(v.octets, 4), v.type = "Int64")
                              = Number(v.octets, v.type = "Int64")
                   /\ v.octets \notin Tiny
                   /\ v.type = "String" => ~Contains(v.octets, NewLine)
                   /\ a \in Limits => "val" \in DOMAIN e.attr /\ v.type = e.attr["val"].type

Named(d) == IF "name" \in DOMAIN d.attr THEN d.attr ELSE d.attr @@ "name" :> NameGet(dec.dat)

\* The check was passed by a CRC: the native decoder accepts a checksum package of
\* an unknown type too (cpSerDesNative.cpp:995-997).
CrcPassed == dec.check /\ (dec.codec = "Native" => stream.units[dec.pos + 2] = 1)

\* What is decoded is what was encoded, whatever was in the datum before (but a
\* name, which it keeps when the document has none): an undamaged stream is
\* decoded, a check needs the one checksum there is, and a damaged stream does not
\* pass a check of its CRC (cpDatum.h:177-186).  It may pass without one, when the
\* damage makes octets of the content a checksum package of an unknown type.  A
\* failure leaves an empty datum.
DecodedIsEncoded ==
    /\ dec.state = "done" /\ (~damaged \/ CrcPassed) /\ Expressible(doc) =>
           Same(dec.dat, IF NameGet(dec.dat) = NoName THEN doc ELSE [doc EXCEPT !.attr = Named(doc)])
    /\ dec.state = "failed" => dec.dat.subs = <<>> /\ DOMAIN dec.dat.attr \subseteq {"name"}
    /\ dec.state = "failed" /\ stream.format # "Xml" /\ Expressible(doc) =>
           damaged \/ dec.codec # stream.format \/ (dec.check /\ stream.ck # "Crc32")
=============================================================================
