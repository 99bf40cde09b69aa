------------------------------- MODULE Stream -------------------------------
(***************************************************************************)
(* StreamBase with its two implementations: StreamBuf, whose blocks come   *)
(* from the memory manager with the size asked for but not less than       *)
(* MinBlock, and IpcStreamSeg, whose blocks are the payloads of a list of  *)
(* IPC segments of the capacity Cap.  A position is a block number, from   *)
(* 0, and an offset in the block.  The segments of a message leave one     *)
(* stream (Finalize, SegmentExtract) and are put into another              *)
(* (SegmentInject); the blocks of a StreamBuf go the same way              *)
(* (TransferBlocksFrom).  An allocation that fails ends the program: all   *)
(* blocks come from MemBlockGet, which guards a null block (cpMemMgr.cpp). *)
(***************************************************************************)
EXTENDS Integers, Sequences, SequencesExt, FiniteSetsExt

CONSTANTS Writes, Counts, Term, Zero, Null, Unknown,   \* see ByteFile
          MinBlock,    \* k_MinStreamBlockSize
          Cap,         \* IpcSegment::Capacity()
          FragLimit,   \* 2^16: the fragment numbers of IpcSegment wrap around
          MaxLen       \* bound: the content of a stream

StreamConstants ==
    /\ \A o \in Writes : o \in Seq(ToSet(o))
    /\ Counts \subseteq Nat /\ MaxLen \in Nat
    /\ {Cap, MinBlock, FragLimit} \subseteq Nat \ {0}
    /\ Null \notin {"buf", "seg"}

VARIABLES kind,      \* "buf" or "seg", Null before the construction, or "crashed"
          st,        \* blocks, current and last position
          transit,   \* the blocks and positions between two streams, or Null
          out        \* the result of the last operation

streamVars == <<kind, st, transit, out>>

Start == [blk |-> 0, pos |-> 0]
NoStorage == [blocks |-> <<>>, cur |-> Start, last |-> Start]

-----------------------------------------------------------------------------
(* Blocks *)

\* A new block: its octets are unknown.  A segment has the header fields too.
NewBlock(size, frag, multi) ==
    [octets |-> [i \in 1 .. size |-> Unknown], frag |-> frag, multi |-> multi,
     initial |-> FALSE, dlen |-> 0]

ValidBlock(s, b) == b < Len(s.blocks)

BlockSize(k, s, b) ==
    IF k = "seg" THEN Cap ELSE IF ValidBlock(s, b) THEN Len(s.blocks[b + 1].octets) ELSE 0

\* StreamBuf::MemoryAdd.
BufMemoryAdd(s, size) ==
    [s EXCEPT !.blocks = Append(@, NewBlock(IF size > MinBlock THEN size ELSE MinBlock, 0, FALSE))]

\* IpcStreamSeg::MemoryAdd adds a segment: the first one that is not alone marks
\* the head, its fields are copied from the tail, and the tail before it counts as
\* full.  FragNum is a uint16_t (cpIpcSegment.h:133).
AddSegment(bs) ==
    IF bs = <<>> THEN <<NewBlock(Cap, 1 % FragLimit, FALSE)>>
    ELSE LET old == IF Len(bs) = 1 THEN [bs EXCEPT ![1].multi = TRUE] ELSE bs
             tail == Last(old)
         IN  Append([old EXCEPT ![Len(old)].dlen = Cap],
                    [NewBlock(Cap, (Len(bs) + 1) % FragLimit, tail.multi) EXCEPT !.initial = tail.initial])

\* As many segments as the size needs.
SegMemoryAdd(s, size) ==
    LET needed == (size + Cap - 1) \div Cap
        grown[i \in 0 .. needed] == IF i = 0 THEN s.blocks ELSE AddSegment(grown[i - 1])
    IN  [s EXCEPT !.blocks = grown[needed]]

MemoryAdd(k, s, size) == IF k = "seg" THEN SegMemoryAdd(s, size) ELSE BufMemoryAdd(s, size)

Offset(k, s, p) == SumFunction([b \in 0 .. p.blk - 1 |-> BlockSize(k, s, b)]) + p.pos
Pos(s) == Offset(kind, s, s.cur)
LenGet(s) == Offset(kind, s, s.last)

\* The octets up to the last position.
Contents(s) == SubSeq(FlattenSeq([i \in DOMAIN s.blocks |-> s.blocks[i].octets]), 1, LenGet(s))

Readable(s) ==
    s.blocks # <<>> /\ (s.cur.blk < s.last.blk \/ s.cur.pos < s.last.pos)

-----------------------------------------------------------------------------
(* Reading and writing *)

\* A pass of ArrayWr's loop: w.left is what is left to write.  A position at the
\* end of a block moves to the next block, which may have to be added.
WritePass(w) ==
    LET s == w.st
        o == w.left
        size == BlockSize(kind, s, s.cur.blk)
        n == Min({size - s.cur.pos, Len(o)})
        Octet(i, old) == IF i - s.cur.pos \in 1 .. n THEN o[i - s.cur.pos] ELSE old
        next == [s EXCEPT !.cur = [blk |-> @.blk + 1, pos |-> 0]]
    IN  IF o = <<>> THEN w
        ELSE IF s.cur.pos < size
        THEN IF ~ValidBlock(s, s.cur.blk) THEN [w EXCEPT !.left = <<>>]
             ELSE [st |-> [s EXCEPT !.blocks[s.cur.blk + 1].octets =
                                        [i \in DOMAIN @ |-> Octet(i, @[i])],
                                    !.cur.pos = @ + n],
                   left |-> SubSeq(o, n + 1, Len(o))]
        ELSE IF ValidBlock(next, next.cur.blk) THEN [w EXCEPT !.st = next]
        ELSE [w EXCEPT !.st = MemoryAdd(kind, next, Len(o))]

\* At least every other pass writes an octet.
WriteLoop(s, o) ==
    LET passes == 2 * Len(o) + 1
        after[n \in 0 .. passes] ==
            IF n = 0 THEN [st |-> s, left |-> o] ELSE WritePass(after[n - 1])
    IN  after[passes].st

\* Mutant: after any write, also of octets in the middle.
LastAdjust_Always(s) == [s EXCEPT !.last = s.cur]

\* The last position follows the current one.
LastAdjust(s) ==
    IF \/ s.last.blk < s.cur.blk
       \/ s.last.blk = s.cur.blk /\ s.last.pos < s.cur.pos
    THEN [s EXCEPT !.last = s.cur] ELSE s

ArrayWr(s, o) ==
    IF o = <<>> THEN s
    ELSE LastAdjust(WriteLoop(IF s.blocks = <<>> THEN MemoryAdd(kind, s, Len(o)) ELSE s, o))

Beyond == MaxLen + 1    \* the largest size_t

\* A pass of ArrayRd's loop: r.left is the number of octets left to read.
ReadPass(r) ==
    LET s == r.st
        block == s.blocks[s.cur.blk + 1].octets
        end == IF s.cur.blk < s.last.blk THEN Len(block) ELSE s.last.pos
        take == Min({end - s.cur.pos, r.left})
    IN  IF r.left > 0 /\ s.cur.pos < end
        THEN [st |-> [s EXCEPT !.cur.pos = @ + take], left |-> r.left - take,
              octets |-> r.octets \o SubSeq(block, s.cur.pos + 1, s.cur.pos + take)]
        ELSE IF r.left > 0 /\ s.cur.blk < s.last.blk
        THEN [r EXCEPT !.st.cur = [blk |-> @.blk + 1, pos |-> 0]]
        ELSE r

\* ArrayRd: [st |-> the stream after it, octets |-> what was read].  As long as it
\* reads, at least every other pass reads an octet.
ArrayRd(s, n) ==
    LET passes == IF n > 0 /\ Readable(s) THEN 2 * n ELSE 0
        after[i \in 0 .. passes] ==
            IF i = 0 THEN [st |-> s, left |-> n, octets |-> <<>>] ELSE ReadPass(after[i - 1])
    IN  after[passes]

\* ReadLine reads octet by octet up to the terminator, and leaves it out as it
\* does null octets.
LineRead(s) ==
    LET all == ArrayRd(s, Beyond).octets
        ends == {i \in (1 .. Beyond) \cap DOMAIN all : all[i] = Term}
        r == ArrayRd(s, IF ends = {} THEN Beyond ELSE Min(ends))
        line == SelectSeq(r.octets, LAMBDA x : x \notin {Zero, Term})
    IN  [st |-> r.st, rv |-> ends # {} \/ line # <<>>, line |-> line]

\* Seek walks the written blocks up to the one that the position is in; a position
\* at the boundary of two blocks is the end of the first.  It fails beyond the end.
SeekTo(s, p) ==
    LET Written(b) == IF b < s.last.blk THEN BlockSize(kind, s, b) ELSE s.last.pos
        Before(b) == Offset(kind, s, [blk |-> b, pos |-> 0])
        walked == {b \in 0 .. s.last.blk : ValidBlock(s, b)}
        ends == {b \in walked : Before(b) + Written(b) >= p}
    IN  IF ends # {}
        THEN [st |-> [s EXCEPT !.cur = [blk |-> Min(ends), pos |-> p - Before(Min(ends))]],
              rv |-> TRUE]
        ELSE IF walked # {}
        THEN [st |-> [s EXCEPT !.cur = [blk |-> Max(walked), pos |-> Written(Max(walked))]],
              rv |-> FALSE]
        ELSE [st |-> s, rv |-> FALSE]

SkipBy(s, n) == IF n > 0 THEN SeekTo(s, Pos(s) + n) ELSE SeekTo(s, Beyond)

BackBy(s, n) ==
    IF Pos(s) >= n THEN SeekTo(s, Pos(s) - n) ELSE [st |-> SeekTo(s, 0).st, rv |-> FALSE]

\* Peek takes the octet at the current offset of the current block, which at
\* the boundary of two blocks lies behind the block.
PeekAt(s) ==
    IF ~Readable(s) THEN Zero
    ELSE LET block == s.blocks[s.cur.blk + 1].octets
         IN  IF s.cur.pos < Len(block) THEN block[s.cur.pos + 1] ELSE Unknown

\* Crc32Get runs over the blocks; 0 asks for the whole stream.
CrcOctets(s, n) ==
    SubSeq(FlattenSeq([i \in DOMAIN s.blocks |-> s.blocks[i].octets]), 1,
           IF n = 0 THEN LenGet(s) ELSE n)

-----------------------------------------------------------------------------
(* Segments *)

\* Mutant: the tail is not marked.
Finalize_NoMark(s) ==
    IF s.blocks = <<>> THEN s ELSE [s EXCEPT !.blocks[Len(s.blocks)].dlen = s.last.pos]

\* Finalize: the tail gets its length and, if it is not alone, opt_Initial.
Finalize(s) ==
    IF s.blocks = <<>> THEN s
    ELSE LET tail == Last(s.blocks)
         IN  [s EXCEPT !.blocks[Len(s.blocks)] =
                  [tail EXCEPT !.dlen = s.last.pos,
                               !.initial = tail.initial \/ Len(s.blocks) > 1]]

\* SegmentInject: the last position is the data length of the tail.
Injected(blocks) ==
    [NoStorage EXCEPT !.blocks = blocks,
                      !.last = [blk |-> Len(blocks) - 1, pos |-> Last(blocks).dlen]]

-----------------------------------------------------------------------------
StreamInit == kind = Null /\ st = NoStorage /\ transit = Null /\ out = [rv |-> TRUE, octets |-> <<>>]

Return(rv, octets) == out' = [rv |-> rv, octets |-> octets]

\* While a content is in transit the model follows only its loading.
Open == kind \in {"buf", "seg"} /\ transit = Null

\* A StreamBuf may be made with a block of a given size; IpcStreamSeg is always
\* made without (cpIpcNode.cpp:225 and :274, cpIpcDecoder.h:56).
Construct(k, size) ==
    /\ kind = Null /\ kind' = k
    /\ k = "seg" => size = 0
    /\ st' = IF k = "buf" THEN BufMemoryAdd(NoStorage, size) ELSE NoStorage
    /\ UNCHANGED <<transit, out>>

\* What was injected is only read (cpIpcDecoder.cpp:60).
Writable(o) ==
    /\ Open /\ LenGet(st) + Len(o) <= MaxLen
    /\ kind = "seg" => \A i \in DOMAIN st.blocks : ~st.blocks[i].initial

\* Write, and the inserts of the octets of a value.
Write(o) ==
    /\ Writable(o)
    /\ st' = ArrayWr(st, o)
    /\ Return(Pos(st') - Pos(st) = Len(o), <<>>)
    /\ UNCHANGED <<kind, transit>>

\* A block is not to be had: for a constructor, for a write that needs one, or for
\* the copy of a stream.
MemoryAddFails ==
    /\ \/ kind = Null
       \/ \E o \in Writes : Writable(o) /\ Len(ArrayWr(st, o).blocks) > Len(st.blocks)
       \/ Open /\ LenGet(st) > 0
    /\ kind' = "crashed"
    /\ UNCHANGED <<st, transit, out>>

Read(n) ==
    /\ Open
    /\ LET r == ArrayRd(st, n) IN st' = r.st /\ Return(Len(r.octets) = n, r.octets)
    /\ UNCHANGED <<kind, transit>>

ReadLine ==
    /\ Open
    /\ LET r == LineRead(st) IN st' = r.st /\ Return(r.rv, r.line)
    /\ UNCHANGED <<kind, transit>>

Moved(r) == Open /\ st' = r.st /\ Return(r.rv, <<>>) /\ UNCHANGED <<kind, transit>>
Seek(p) == Moved(SeekTo(st, p))
Skip(n) == Moved(SkipBy(st, n))
Back(n) == Moved(BackBy(st, n))

Peek == Open /\ Return(TRUE, <<PeekAt(st)>>) /\ UNCHANGED <<kind, st, transit>>

\* BinDump and HexDump: rewind, then read to the end.
Dump ==
    /\ Open /\ SeekTo(st, 0).rv
    /\ LET r == ArrayRd(SeekTo(st, 0).st, Beyond) IN st' = r.st /\ Return(TRUE, r.octets)
    /\ UNCHANGED <<kind, transit>>

Crc32Get(n) ==
    /\ Open /\ n <= LenGet(st)
    /\ Return(TRUE, CrcOctets(st, n)) /\ UNCHANGED <<kind, st, transit>>

Clear == Open /\ st' = NoStorage /\ Return(TRUE, <<>>) /\ UNCHANGED <<kind, transit>>

\* The assignment of a stream to another, through a Buffer: Seek(0), Read, Clear
\* and Write.  The model goes on with the copy.
Assign ==
    /\ Open
    /\ LET r == ArrayRd(SeekTo(st, 0).st, LenGet(st))
       IN  st' = ArrayWr(NoStorage, r.octets) /\ Return(TRUE, Contents(st))
    /\ UNCHANGED <<kind, transit>>

\* SendBuf and SendDat finalize and extract what they have written.
Ship ==
    /\ Open
    /\ kind = "seg" => st.blocks # <<>>
    /\ transit' = IF kind = "seg" THEN Finalize(st) ELSE st
    /\ st' = NoStorage /\ Return(TRUE, <<>>) /\ UNCHANGED kind

Load ==
    /\ transit # Null /\ transit' = Null
    /\ st' = IF kind = "seg" THEN Injected(transit.blocks) ELSE transit
    /\ Return(TRUE, <<>>) /\ UNCHANGED kind

StreamNext ==
    \/ \E k \in {"buf", "seg"}, size \in Counts : Construct(k, size)
    \/ MemoryAddFails
    \/ \E o \in Writes : Write(o)
    \/ \E n \in Counts : Read(n) \/ Seek(n) \/ Skip(n) \/ Back(n) \/ Crc32Get(n)
    \/ ReadLine \/ Peek \/ Dump \/ Clear \/ Assign \/ Ship \/ Load

StreamSpec == StreamInit /\ [][StreamNext]_streamVars

-----------------------------------------------------------------------------
\* The content in transit: each segment contributes as many octets as its header
\* says.
Shipped(t) ==
    IF t = Null THEN Null
    ELSE IF kind = "seg"
    THEN FlattenSeq([i \in DOMAIN t.blocks |-> SubSeq(t.blocks[i].octets, 1, t.blocks[i].dlen)])
    ELSE Contents(t)

File == INSTANCE ByteFile WITH data <- Contents(st), pos <- Pos(st),
                               sent <- Shipped(transit), out <- out

\* Whatever the blocks, a stream is an array of octets with a position
\* (cpStreamBase.h): boundaries of blocks, overwriting and the transfer of the
\* blocks or segments to another stream do not show, but for Peek.
StreamIsFile == File!FileSpec

\* What the accumulator of the receiver counts on (cpIpcAccum.cpp:91): the
\* segments of a message carry their number, from 1, modulo the width of the field
\* (a total that does not fit is not refused), all of them or none say that there
\* are several, and the last one, which gives the total, is the only one marked.
SegmentsNumbered ==
    transit # Null /\ kind = "seg" =>
        LET b == transit.blocks
        IN  \A i \in DOMAIN b :
                /\ b[i].frag = i % FragLimit
                /\ b[i].multi = (Len(b) > 1)
                /\ b[i].initial = (i = Len(b) /\ Len(b) > 1)
                /\ b[i].dlen \in (IF i < Len(b) THEN {Cap} ELSE 1 .. Cap)
=============================================================================
