------------------------------ MODULE ByteFile ------------------------------
(***************************************************************************)
(* What the streams of cpStreamBase.h promise: an array of octets with one *)
(* position, which every operation reads, writes or moves.  `sent' is a    *)
(* content that has left the stream by a transfer of its blocks, and `out' *)
(* the result of the last operation.                                       *)
(***************************************************************************)
EXTENDS Naturals, Sequences

CONSTANTS Writes,    \* the arrays of octets that are written
          Counts,    \* the lengths, distances and positions asked for
          Term,      \* the octet that ends a line
          Zero,      \* the null octet, which a line never holds
          Null,      \* no content in transit
          Unknown    \* the value of an octet nobody has written

VARIABLES data, pos, sent, out

fileVars == <<data, pos, sent, out>>

Result(rv, octets) == out' = [rv |-> rv, octets |-> octets]

FileInit == data = <<>> /\ pos = 0 /\ sent = Null /\ out = [rv |-> TRUE, octets |-> <<>>]

\* All of s replaces and extends the content.
FileWrite(s) ==
    /\ data' = SubSeq(data, 1, pos) \o s \o SubSeq(data, pos + Len(s) + 1, Len(data))
    /\ pos' = pos + Len(s)
    /\ Result(TRUE, <<>>)
    /\ UNCHANGED sent

FileRead(n) ==
    LET octets == SubSeq(data, pos + 1, IF pos + n < Len(data) THEN pos + n ELSE Len(data))
    IN  Result(Len(octets) = n, octets) /\ pos' = pos + Len(octets) /\ UNCHANGED <<data, sent>>

\* A line is what lies before the terminator, without its null octets.
FileReadLine ==
    LET rest == SubSeq(data, pos + 1, Len(data))
        At(s) == {i \in DOMAIN s : s[i] = Term}
        stop == CHOOSE i \in At(rest) : \A j \in At(rest) : i <= j
        taken == IF At(rest) = {} THEN Len(rest) ELSE stop
        line == SelectSeq(SubSeq(rest, 1, taken), LAMBDA o : o \notin {Term, Zero})
    IN  /\ pos' = pos + taken
        /\ Result(At(rest) # {} \/ line # <<>>, line)
        /\ UNCHANGED <<data, sent>>

\* Beyond the end the position is the end; an empty stream may refuse any seek.
FileSeek(p, rv) ==
    /\ pos' = IF p <= Len(data) THEN p ELSE Len(data)
    /\ rv => p <= Len(data)
    /\ rv \/ p > Len(data) \/ data = <<>>
    /\ Result(rv, <<>>) /\ UNCHANGED <<data, sent>>

\* Skip(0) is taken for an overflow: it moves to the end and returns false.
FileSkip(n) ==
    IF n = 0 THEN FileSeek(Len(data) + 1, FALSE) ELSE \E rv \in BOOLEAN : FileSeek(pos + n, rv)

FileBack(n) ==
    IF n <= pos THEN \E rv \in BOOLEAN : FileSeek(pos - n, rv)
    ELSE pos' = 0 /\ Result(FALSE, <<>>) /\ UNCHANGED <<data, sent>>

\* The next octet, or an unknown one at the boundary of two blocks.
FilePeek ==
    /\ \E o \in {IF pos < Len(data) THEN data[pos + 1] ELSE Zero, Unknown} : Result(TRUE, <<o>>)
    /\ UNCHANGED <<data, pos, sent>>

\* The whole content is read from its start, and the position is the end.
FileDump == Result(TRUE, data) /\ pos' = Len(data) /\ UNCHANGED <<data, sent>>

\* A checksum stands for the octets it is computed over; 0 asks for all of them.
FileCrc(n) ==
    /\ n <= Len(data)
    /\ Result(TRUE, SubSeq(data, 1, IF n = 0 THEN Len(data) ELSE n))
    /\ UNCHANGED <<data, pos, sent>>

FileClear == data' = <<>> /\ pos' = 0 /\ Result(TRUE, <<>>) /\ UNCHANGED sent

\* The content leaves one stream, and becomes the content of another.
FileShip == sent' = data /\ data' = <<>> /\ pos' = 0 /\ Result(TRUE, <<>>)

FileLoad ==
    /\ sent # Null
    /\ data' = sent /\ sent' = Null /\ pos' \in 0 .. Len(sent)
    /\ Result(TRUE, <<>>)

FileNext ==
    \/ \E s \in Writes : FileWrite(s)
    \/ \E n \in Counts : FileRead(n) \/ FileSkip(n) \/ FileBack(n) \/ FileCrc(n)
    \/ \E p \in Counts, rv \in BOOLEAN : FileSeek(p, rv)
    \/ FileReadLine \/ FilePeek \/ FileDump \/ FileClear \/ FileShip \/ FileLoad

FileSpec == FileInit /\ [][FileNext]_fileVars
=============================================================================
