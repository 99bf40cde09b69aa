---------------------------- MODULE MCComponents ----------------------------
(***************************************************************************)
(* The components of the library that hold no thread of another one, each  *)
(* checked in a part of the behaviours of its own: part says which one     *)
(* moves, the others stay as they begin.                                   *)
(***************************************************************************)
EXTENDS Naturals, Sequences, TLC, IpcParts, EventParts, BlockParts, SubProcessPart

CONSTANTS
    letter, nl, z, unknown, null,           \* octets and no octets of a stream
    noname, inert, n1,                      \* of data trees
    c1, c2, s1, m1, m2,                     \* of the router
    v1, v2, r1,                             \* threads of a node
    sp, nul, cr, slash, fullstop, tilde,    \* characters
    b1, b2, k1, k2, k3                      \* buffers and their blocks

VARIABLES part,
          root, walk,                                                       \* DatumTree
          doc, stream, damaged, dec,                                        \* SerDes
          text,                                                             \* Text
          data, crc16, crc32, restart, hex, form                            \* Octets

-----------------------------------------------------------------------------
(* Stream: writes with and without the terminator and a zero octet, blocks *)
(* and segments of two octets, contents of up to five octets, segment      *)
(* numbers modulo three.                                                   *)
MCWrites == {<<letter>>, <<nl, z>>, <<letter, nl, letter>>, <<>>}
ASSUME StreamAssumption == Str!StreamConstants

\* A stream is an array of octets with a position (StreamBase, StreamBuf and
\* IpcStreamSeg; see Stream).
StreamIsFile == Str!StreamIsFile

-----------------------------------------------------------------------------
(* DatumTree: a root and up to three more data, with a name or without.    *)
Tree == INSTANCE DatumTree WITH
    Names <- {n1, noname}, MaxData <- 3, NoName <- noname, Inert <- inert

\* Datum::Recurse meets every datum once, in preorder (see DatumTree).
WalkIsPreorder == part = "tree" => Tree!WalkIsPreorder

-----------------------------------------------------------------------------
(* SerDes: five documents, damaged in one octet or line or cut off.        *)
S == INSTANCE SerDesXml WITH NoName <- noname, Inert <- inert, Tiny <- {}

Datum(attr, subs) == [S!NewDatum(noname) EXCEPT !.attr = attr, !.subs = subs]
Leaf(n, v) == Datum("name" :> S!StrSet(<<n>>) @@ "val" :> v, <<>>)

\* A narrow negative number, Booleans, nested data and a name that occurs twice.
Doc1 == Datum("name" :> S!StrSet(<<65>>),
              <<Leaf(66, S!Value("Int16", <<255, 254>>)),
                Datum("val" :> S!Value("Bool", <<49>>), <<Leaf(66, S!StrSet(<<67>>))>>)>>)
\* Wide numbers, a null, and a blob with the octets of a marker.
Doc2 == Datum("val" :> S!Value("Int64", <<255, 255, 255, 255, 255, 255, 255, 0>>)
                @@ "min" :> S!Value("Int64", <<0, 0, 0, 1, 0, 0, 0, 0>>),
              <<Leaf(66, S!NoValue), Leaf(66, S!Value("BLOB", <<0, 161>>))>>)
\* A string with a line feed, a limit that is inert, and a datum without anything.
Doc3 == Datum("val" :> S!Value("Float32", <<1, 2, 3, 4>>)
                @@ "units" :> S!StrSet(<<65, 10, 66>>) @@ "max" :> S!InertValue,
              <<Datum(S!None, <<>>)>>)
\* A blob whose length needs more than one octet.
Doc4 == Datum("val" :> S!Value("Uint64", <<0, 0, 0, 0, 255, 0, 0, 1>>)
                @@ "def" :> S!Value("Uint64", <<0, 0, 0, 0, 0, 0, 0, 1>>),
              <<Datum("val" :> S!Value("BLOB", S!Fill(130, 7)), <<>>)>>)
\* A blob whose end reads as the checksum package of an unknown type.
Doc5 == Datum("val" :> S!Value("BLOB", <<0, 7, 9, 161, 164, 9, 9>>), <<>>)

MCNoiseLines ==
    {S!Line("PkgEnd", S!Empty), S!Line("DatumEnd", S!Empty), S!Line("Junk", S!Empty),
     S!Line("DatumBegin", S!Text("type", <<13>>)), S!Line("val", S!Text("num", S!Zero9))}

Ser == INSTANCE SerDes WITH
    Docs <- {Doc1, Doc2, Doc3, Doc4, Doc5}, Targets <- {noname, S!StrSet(<<84>>)},
    Noise <- {161, 176, 3}, NoiseLines <- MCNoiseLines, MaxDamaged <- 60,
    Tiny <- {}, NoName <- noname, Inert <- inert

\* The serializers decode what they encoded and detect damage (see SerDes).
DecodedIsEncoded == part = "serdes" => Ser!DecodedIsEncoded

-----------------------------------------------------------------------------
(* Transport: two segments of two or three units, a wire of three units or *)
(* messages, one retry.                                                    *)
ASSUME TransportAssumption == Trn!TransportConstants

(* IpcRouter: two threads that create and delete nodes of two names, one   *)
(* sender, two addresses, queues of one message.                           *)
ASSUME RouterAssumption == Rtr!RouterConstants

(* IpcNode: two messages of any kind, two threads for control events (the  *)
(* node has four) and one for replies, queues of one event.                *)
MCThreads == 0 :> {v1, v2} @@ 1 :> {r1}
ASSUME NodeAssumption == Nde!NodeConstants

(* Timer: the real units are 10^3, 10^6, 10^9, 10^12 and 10^15 in a second *)
(* and 3600 and 60 seconds, the real modulus 2^32.                         *)
MCPerSec == [Milli |-> 2, Micro |-> 4, Nano |-> 8, Pico |-> 24, Femto |-> 48]
MCSecsPer == [Hour |-> 9, Min |-> 3, Sec |-> 1]
ASSUME TimerAssumption == Tmr!TimerConstants

(* Buffer: two buffers, a block of one octet and two of three.             *)
MCSize == k1 :> 1 @@ k2 :> 3 @@ k3 :> 3
MCSources == {<<letter>>, <<letter, z, letter>>, <<>>}
ASSUME BufferAssumption == Buf!BufferConstants

(* SubProcess: its owner and a client, two pieces of output.               *)

-----------------------------------------------------------------------------
(* Text: all texts of up to five characters.                               *)
Txt == INSTANCE Text WITH
    Chars <- {sp, nl, cr, nul, slash, fullstop, tilde}, Blank <- sp, Nl <- nl, Cr <- cr,
    Nul <- nul, Sep <- slash, Dot <- fullstop, Tilde <- tilde, MaxText <- 5

(* Octets: up to three of eight octets of four bits, one or two a block, a *)
(* checksum of eight bits, and three formats of hex text.                  *)
MCDigit == <<0, 0>> :> "0" @@ <<0, 1>> :> "1" @@ <<1, 0>> :> "2" @@ <<1, 1>> :> "3"

MCCfg(groupLenMax, lineLenMax, preLine, postLine, prefix, suffix, separator) ==
    [groupLenMax |-> groupLenMax, lineLenMax |-> lineLenMax, preLine |-> preLine,
     postLine |-> postLine, prefix |-> prefix, suffix |-> suffix, separator |-> separator,
     groupLen |-> 0, lineLen |-> 0, preserve |-> FALSE, finalPass |-> TRUE]
MCPlain == MCCfg(0, 0, FALSE, FALSE, <<>>, <<>>, <<" ">>)

Oct == INSTANCE Octets WITH
    Width <- 4, Generator <- <<0, 0, 0, 1, 1, 1, 0, 1>>, Digit <- MCDigit,
    Cfgs <- {MCPlain, MCCfg(1, 11, TRUE, FALSE, <<"0", "x">>, <<",">>, <<" ">>),
             MCCfg(2, 14, FALSE, TRUE, <<"(">>, <<")">>, <<" ", " ">>)},
    Octets <- {o \in [1 .. 4 -> {0, 1}] : o[1] = o[4]}, MaxBlock <- 2, MaxData <- 3

\* Strings that are taken apart make the string again (see Text), and data that is
\* processed in blocks gives what it gives as a whole (see Octets).
ToolsAreExact ==
    /\ part = "text" => Txt!TextIsKept
    /\ part = "octets" => Oct!BlocksMakeTheWhole

-----------------------------------------------------------------------------
Parts == {"stream", "tree", "serdes", "transport", "router", "node", "timer",
          "buffer", "text", "octets", "subprocess"}

Init ==
    /\ part \in Parts
    /\ Str!StreamInit /\ Tree!TreeInit /\ Ser!SerInit
    /\ Trn!TransportInit /\ Rtr!RouterInit /\ Nde!NodeInit
    /\ Tmr!TimerInit /\ Buf!BufferInit /\ Txt!TextInit /\ Oct!OctetsInit /\ Sub!SubInit
    /\ part # "octets" => form = MCPlain
    /\ part # "subprocess" => dir = "FlowOut"

streamVars == <<kind, st, transit, out>>
treeVars == <<root, walk>>
serVars == <<doc, stream, damaged, dec>>
trnVars == <<dev, wire, segs, snd, rcv, whole, delivered, cut>>
rtrVars == <<nodes, box, owner, incoming, client, cache, router>>
nodeVars == <<received, context, work, acc, removal, ctl, freed, hist>>
tmrVars == <<started, armed, running, callbacks, sem, dispatch, life>>
bufVars == <<block, len, memory, taken, loose, want, nullUsed>>
octVars == <<data, crc16, crc32, restart, hex, form>>
subVars == <<dir, desc, process, written, pipe, chunk, rx, extracted, collectorExit, io,
             completed, user>>

\* The first seven parts, the last four.
upperVars == <<streamVars, treeVars, serVars, trnVars, rtrVars, nodeVars, tmrVars>>
lowerVars == <<bufVars, text, octVars, subVars>>

Moves(p) == part = p /\ UNCHANGED part

Next ==
    \/ /\ Moves("stream") /\ Str!StreamNext
       /\ UNCHANGED <<treeVars, serVars, trnVars, rtrVars, nodeVars, tmrVars, lowerVars>>
    \/ /\ Moves("tree") /\ Tree!TreeNext
       /\ UNCHANGED <<streamVars, serVars, trnVars, rtrVars, nodeVars, tmrVars, lowerVars>>
    \/ /\ Moves("serdes") /\ Ser!SerNext
       /\ UNCHANGED <<streamVars, treeVars, trnVars, rtrVars, nodeVars, tmrVars, lowerVars>>
    \/ /\ Moves("transport") /\ Trn!TransportNext
       /\ UNCHANGED <<streamVars, treeVars, serVars, rtrVars, nodeVars, tmrVars, lowerVars>>
    \/ /\ Moves("router") /\ Rtr!RouterNext
       /\ UNCHANGED <<streamVars, treeVars, serVars, trnVars, nodeVars, tmrVars, lowerVars>>
    \/ /\ Moves("node") /\ Nde!NodeNext
       /\ UNCHANGED <<streamVars, treeVars, serVars, trnVars, rtrVars, tmrVars, lowerVars>>
    \/ /\ Moves("timer") /\ Tmr!TimerNext
       /\ UNCHANGED <<streamVars, treeVars, serVars, trnVars, rtrVars, nodeVars, lowerVars>>
    \/ /\ Moves("buffer") /\ Buf!BufferNext
       /\ UNCHANGED <<upperVars, text, octVars, subVars>>
    \/ /\ Moves("text") /\ Txt!TextNext
       /\ UNCHANGED <<upperVars, bufVars, octVars, subVars>>
    \/ /\ Moves("octets") /\ Oct!OctetsNext
       /\ UNCHANGED <<upperVars, bufVars, text, subVars>>
    \/ /\ Moves("subprocess") /\ Sub!SubNext
       /\ UNCHANGED <<upperVars, bufVars, text, octVars>>

MCSymmetry == Permutations({c1, c2}) \cup Permutations({m1, m2})
=============================================================================
