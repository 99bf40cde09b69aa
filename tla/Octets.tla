------------------------------- MODULE Octets -------------------------------
(***************************************************************************)
(* Data that is processed block by block: the checksums of cpUtil.cpp,     *)
(* whose result for one block is the argument Cascade of the next (as      *)
(* StreamBase::Crc32Get calls them), and HexEncode of cpHexIo.cpp, which   *)
(* keeps its place in line and group in a HexIoCfg between calls.          *)
(*                                                                         *)
(* An octet is a sequence of bits, the most significant first, and so is a *)
(* checksum; TLC's instance has octets of fewer than eight bits, checksums *)
(* of two octets and a generator of as many bits.                          *)
(***************************************************************************)
EXTENDS Naturals, Sequences, SequencesExt, FiniteSetsExt

CONSTANTS
    Width,          \* bits in an octet, an even number
    Generator,      \* the generator without its leading bit
    Digit,          \* Digit[b]: the hex digit for the bits b, half an octet
    Cfgs,           \* the HexIoCfgs: see HexCfg
    Octets,         \* the octets the data is made of
    MaxBlock,       \* bound on the length of a block
    MaxData         \* bound on the length of the data

VARIABLES
    data,       \* the octets of all blocks so far
    crc16,      \* CalcCrc16, cascaded over them
    crc32,      \* CalcCrc32, cascaded over them
    restart,    \* a block ended with the checksum CalcCrc32 takes for none
    hex,        \* the characters HexEncode has put out
    form        \* the HexIoCfg

octetVars == <<data, crc16, crc32, restart, hex, form>>

-----------------------------------------------------------------------------
(* The checksums.                                                          *)

Bits == Len(Generator)
Xor(a, b) == [i \in DOMAIN a |-> IF a[i] = b[i] THEN 0 ELSE 1]
Ones == [i \in 1 .. Bits |-> 1]
Reflect(a) == Reverse(a)

\* remainder ^= octet << shift.
AddOctet(r, o) == [i \in DOMAIN r |-> IF i <= Width THEN (r[i] + o[i]) % 2 ELSE r[i]]

\* One bit of the division: the leading bit is shifted out, and the generator is
\* taken away if it was set.
Divide(r) == LET shifted == Append(Tail(r), 0)
             IN  IF r[1] = 1 THEN Xor(shifted, Generator) ELSE shifted
DivideOctet(r, o) == FoldLeft(LAMBDA q, i : Divide(q), AddOctet(r, o), [i \in 1 .. Width |-> i])

CalcCrc16(block, cascade) == FoldLeft(DivideOctet, cascade, block)

\* A cascade that is all ones says that there is none.
Resume(cascade) == IF cascade = Ones THEN Ones ELSE Reflect(Xor(cascade, Ones))

CalcCrc32(block, cascade) ==
    LET Reflected(r, o) == DivideOctet(r, Reflect(o))
    IN  Xor(Reflect(FoldLeft(Reflected, Resume(cascade), block)), Ones)

-----------------------------------------------------------------------------
(* HexEncode and HexDecode.                                                *)

\* groupLen and lineLen count, preserve and finalPass are set by the client.
HexCfg(groupLenMax, lineLenMax, preLine, postLine, prefix, suffix, separator) ==
    [groupLenMax |-> groupLenMax, lineLenMax |-> lineLenMax, preLine |-> preLine,
     postLine |-> postLine, prefix |-> prefix, suffix |-> suffix, separator |-> separator,
     groupLen |-> 0, lineLen |-> 0, preserve |-> FALSE, finalPass |-> TRUE]

HexChars(o) == <<Digit[SubSeq(o, 1, Width \div 2)], Digit[SubSeq(o, Width \div 2 + 1, Width)]>>

\* Output and HexIoCfg, as the parts of FormatOutput and HexEncode extend them.
Add(e, chars) == [out |-> e.out \o chars, form |-> [e.form EXCEPT !.lineLen = @ + Len(chars)]]

EndGroup(e, final) ==
    IF final \/ e.form.groupLen >= e.form.groupLenMax
    THEN Add([e EXCEPT !.form.groupLen = 0], e.form.suffix) ELSE e

NewLine(e) ==
    [out |-> e.out \o (IF e.form.postLine THEN e.form.separator ELSE <<>>) \o <<"\n">>,
     form |-> [e.form EXCEPT !.lineLen = 0]]

\* The room a group needs leaves the separator in front of it out.
NoRoom(f) ==
    /\ f.lineLenMax > 0
    /\ f.lineLen + Len(f.prefix) + 2 * f.groupLenMax + Len(f.suffix)
          + (IF f.postLine THEN Len(f.separator) ELSE 0) > f.lineLenMax

BreakLine(e, final) ==
    IF final \/ NoRoom(e.form) THEN NewLine(e)
    ELSE IF e.form.lineLen > 0 THEN Add(e, e.form.separator) ELSE e

StartGroup(e, final) ==
    IF ~final /\ e.form.groupLen # 0 THEN e
    ELSE LET b == BreakLine(e, final)
             indent == IF b.form.preLine /\ b.form.lineLen = 0 THEN b.form.separator ELSE <<>>
         IN  IF final THEN b ELSE Add(b, indent \o b.form.prefix)

FormatOutput(e, final) == StartGroup(EndGroup(e, final), final)

EncodeOctet(e, o) ==
    LET a == Add(FormatOutput(e, FALSE), HexChars(o))
    IN  [a EXCEPT !.form.groupLen = @ + 1]

\* [out, form] after the call.
HexEncode(input, cfg) ==
    LET max == [cfg EXCEPT !.groupLenMax = IF @ = 0 THEN 1 ELSE @]
        start == IF cfg.preserve THEN max ELSE [max EXCEPT !.groupLen = 0, !.lineLen = 0]
        e == FoldLeft(EncodeOctet, [out |-> <<>>, form |-> start], input)
    IN  IF cfg.finalPass THEN FormatOutput(e, TRUE) ELSE e

\* The octets found, and the digit that waits for another.  The prefix 0x is
\* discarded, and so is everything that is no digit.
HexDigits == {Digit[b] : b \in DOMAIN Digit}
Octet(a, b) == CHOOSE o \in [1 .. Width -> {0, 1}] : HexChars(o) = <<a, b>>
DecodeChar(d, c) ==
    CASE c \in {"x", "X"} /\ d.element = <<"0">> -> [d EXCEPT !.element = <<>>]
      [] c \in HexDigits /\ d.element = <<>> -> [d EXCEPT !.element = <<c>>]
      [] c \in HexDigits /\ d.element # <<>> ->
            [octets |-> Append(d.octets, Octet(d.element[1], c)), element |-> <<>>]
      [] OTHER -> d
HexDecode(chars) == FoldLeft(DecodeChar, [octets |-> <<>>, element |-> <<>>], chars).octets

-----------------------------------------------------------------------------
OctetsInit ==
    /\ data = <<>> /\ hex = <<>> /\ form \in Cfgs
    /\ crc16 = Ones /\ crc32 = Ones /\ restart = FALSE

\* One more block; the client preserves the format from its second call on, and
\* makes the final pass with the last block.
Block(b, final) ==
    LET call == [form EXCEPT !.preserve = (hex # <<>>), !.finalPass = final]
        e == HexEncode(b, call)
    IN  /\ form.finalPass => hex = <<>>
        /\ Len(data) + Len(b) <= MaxData
        /\ data' = data \o b
        /\ crc16' = CalcCrc16(b, crc16)
        /\ crc32' = CalcCrc32(b, crc32)
        /\ restart' = (restart \/ (data # <<>> /\ crc32 = Ones))
        /\ hex' = hex \o e.out
        /\ form' = e.form

OctetsNext == \E n \in 1 .. MaxBlock : \E b \in [1 .. n -> Octets], final \in BOOLEAN : Block(b, final)

-----------------------------------------------------------------------------
\* CRC-32 as a register that shifts to the right, octet by octet from the least
\* significant bit on.
ShiftRight(r, bit) ==
    LET shifted == <<0>> \o Front(r)
    IN  IF (r[Bits] + bit) % 2 = 1 THEN Xor(shifted, Reflect(Generator)) ELSE shifted
Register(octets) == Xor(FoldLeft(ShiftRight, Ones, FlattenSeq([i \in DOMAIN octets |-> Reflect(octets[i])])), Ones)

\* The lengths of the lines put out, the last of them unfinished.
LineLengths(chars) ==
    LET ends == {0} \cup {i \in DOMAIN chars : chars[i] = "\n"}
        Next(i) == Min({j \in ends : j > i} \cup {Len(chars) + 1})
    IN  {Next(i) - i - 1 : i \in ends}

LineLimit ==
    Max({form.lineLenMax + Len(form.separator),
         Len(form.prefix) + 2 * form.groupLenMax + Len(form.suffix) + 2 * Len(form.separator)})

\* What a client gets for data in blocks is what it gets for all of it at once: both
\* checksums, and the hex text, from which the data comes back, in lines that are
\* too long by one separator at most.  Not so CRC-32 after a block whose checksum
\* is all ones: the next call begins anew.
BlocksMakeTheWhole ==
    data # <<>> =>
        /\ crc16 = CalcCrc16(data, Ones)
        /\ ~restart => crc32 = Register(data)
        /\ hex = HexEncode(data, [form EXCEPT !.preserve = FALSE]).out
        /\ HexDecode(hex) = data
        /\ form.lineLenMax > 0 => \A n \in LineLengths(hex) : n <= LineLimit
=============================================================================
