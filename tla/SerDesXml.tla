----------------------------- MODULE SerDesXml -----------------------------
(***************************************************************************)
(* SerDesXml (cpSerDesXml.cpp): a datum as the tags and texts of XML.  The *)
(* decoder is a stub: TagTrim finds no tag, so that no stream is taken for *)
(* XML and none is decoded.                                                *)
(***************************************************************************)
EXTENDS SerDesIdl

OpenTag(name) == Line("open", Text(name, <<>>))
CloseTag(name) == Line("close", Text(name, <<>>))

\* An attribute that has no serialized form is not closed, and those after it are
\* left out.
XmlAttrib(attrib, v) ==
    IF Encodable(v) THEN <<OpenTag(attrib), Line("text", TextInsert(v)), CloseTag(attrib)>>
    ELSE <<OpenTag(attrib)>>

XmlStart(d) ==
    LET bad == SelectInSeq(Attribs(d), LAMBDA a : ~Encodable(d.attr[a]))
        upTo == IF bad = 0 THEN Attribs(d) ELSE SubSeq(Attribs(d), 1, bad)
    IN  <<OpenTag("dat")>> \o FlattenSeq([i \in DOMAIN upTo |-> XmlAttrib(upTo[i], d.attr[upTo[i]])])

RECURSIVE XmlDatum(_)
XmlDatum(d) ==
    XmlStart(d) \o FlattenSeq([i \in DOMAIN d.subs |-> XmlDatum(d.subs[i])]) \o <<CloseTag("dat")>>

XmlBody(d, ver) ==
    <<Line("Hdr", Empty), OpenTag("pkg")>> \o XmlDatum(d) \o <<CloseTag("pkg")>>

XmlClose(ck) == IdlClose(ck)

\* TagTrim, DecodeVersion and DecodeElement return false.
XmlIdent(s) == Failed(Len(s))
XmlVersion(s, pos) == Failed(pos)
XmlElements(s, pos, dat) == Failed(pos)
=============================================================================
