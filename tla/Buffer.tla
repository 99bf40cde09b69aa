------------------------------- MODULE Buffer -------------------------------
(***************************************************************************)
(* Buffer (cpBuffer.cpp): a block from the memory manager and the length   *)
(* of the data in it.  Resize keeps the block, its content and the length  *)
(* where the block is large enough and not too large, and takes an empty   *)
(* one otherwise; every assignment begins with it.  A block may leave one  *)
(* buffer for another, or for the client.                                  *)
(***************************************************************************)
EXTENDS Naturals, Sequences, FiniteSets, Functions

CONSTANTS
    Buffers,        \* the buffers
    Size,           \* Size[b]: the size of each block the memory manager has
    Sources,        \* arrays that are copied into buffers
    Sizes,          \* sizes and lengths asked for
    Zero, Fresh,    \* a null octet, and one that a client writes in place
    NoBlock         \* a null pointer

VARIABLES
    block,      \* block[b]: m_PtrBlock
    len,        \* len[b]: m_DataLen
    memory,     \* memory[k]: the octets of block k
    taken,      \* the blocks that the memory manager has delivered
    loose,      \* a block that a client has taken out of a buffer
    want,       \* want[b]: the octets that b was given last
    crashed     \* a null pointer has been used

\* What is asked of the constants: blocks have a size, arrays and sizes their types,
\* and a null pointer points to no block.
Octets == {Zero, Fresh} \cup UNION {Range(s) : s \in Sources}
BufferConstants ==
    /\ \A k \in DOMAIN Size : Size[k] \in Nat \ {0}
    /\ Sources \subseteq Seq(Octets) /\ Sizes \subseteq Nat
    /\ NoBlock \notin DOMAIN Size

bufferVars == <<block, len, memory, taken, loose, want, crashed>>

Blocks == DOMAIN Size
Zeros(k) == [i \in 1 .. Size[k] |-> Zero]
Upto(m, n) == IF m < n THEN m ELSE n

BufferInit ==
    /\ block = [b \in Buffers |-> NoBlock] /\ len = [b \in Buffers |-> 0]
    /\ memory = [k \in Blocks |-> Zeros(k)]
    /\ taken = {} /\ loose = NoBlock
    /\ want = [b \in Buffers |-> <<>>] /\ crashed = FALSE

-----------------------------------------------------------------------------
\* Mutant: a block that is too small is kept, too.
Fits_Smaller(size, n) == n > 0 /\ size \div n < 2

\* The quotient is a whole number, so that a block is kept unless it is at least
\* twice as large.
Fits(size, n) == size >= n /\ n > 0 /\ size \div n < 2

Keeps(b, n) == block[b] # NoBlock /\ Fits(Size[block[b]], n)

\* The blocks that MemBlockGet may deliver after the one of b has been returned.
Returned(b) == taken \ {block[b]}
Delivered(b, n) == IF n = 0 THEN {NoBlock}
                   ELSE {k \in Blocks \ Returned(b) : Size[k] >= n}

\* Resize(n) where it does not keep the block: another one, k, which is cleared.
Changes(b, n, k) ==
    /\ ~Keeps(b, n)
    /\ k \in Delivered(b, n)
    /\ block' = [block EXCEPT ![b] = k]
    /\ taken' = Returned(b) \cup ({k} \ {NoBlock})

\* A Resize that is followed by a copy of s to the start of the block.
Receive(b, s) ==
    \/ /\ Keeps(b, Len(s))
       /\ memory' = [memory EXCEPT ![block[b]] = [i \in DOMAIN @ |-> IF i <= Len(s) THEN s[i] ELSE @[i]]]
       /\ len' = [len EXCEPT ![b] = Len(s)] /\ want' = [want EXCEPT ![b] = s]
       /\ UNCHANGED <<block, taken>>
    \/ \E k \in Blocks \cup {NoBlock} :
       LET got == IF k = NoBlock THEN <<>> ELSE s IN
       /\ Changes(b, Len(s), k)
       /\ memory' = [j \in Blocks |->
             IF j = k THEN [i \in 1 .. Size[j] |-> IF i <= Len(s) THEN s[i] ELSE Zero] ELSE memory[j]]
       /\ len' = [len EXCEPT ![b] = Len(got)] /\ want' = [want EXCEPT ![b] = got]

-----------------------------------------------------------------------------
Resize(b, n) ==
    /\ ~crashed
    /\ \/ Keeps(b, n) /\ UNCHANGED <<block, len, memory, taken, want>>
       \/ \E k \in Blocks \cup {NoBlock} :
             /\ Changes(b, n, k)
             /\ memory' = [j \in Blocks |-> IF j = k THEN Zeros(j) ELSE memory[j]]
             /\ len' = [len EXCEPT ![b] = 0] /\ want' = [want EXCEPT ![b] = <<>>]
    /\ UNCHANGED <<loose, crashed>>

\* A Resize, of a copy too, for which MemBlockGet has no block: it guards a null one
\* (cpMemMgr.cpp:393).
ResizeFails(b, n) ==
    /\ ~crashed
    /\ n > 0 /\ ~Keeps(b, n)
    /\ crashed' = TRUE
    /\ UNCHANGED <<block, len, memory, taken, loose, want>>

\* Nothing to copy leaves no block, whose address is used all the same.
CopyIn(b, s) ==
    /\ ~crashed
    /\ IF s = <<>>
       THEN crashed' = TRUE /\ UNCHANGED <<block, len, memory, taken, want>>
       ELSE Receive(b, s) /\ UNCHANGED crashed
    /\ UNCHANGED loose

\* strlen: a string ends before its first null octet, or with the array.
StringLen(s, n) ==
    /\ \A i \in 1 .. n : s[i] # Zero
    /\ n < Len(s) => s[n + 1] = Zero

\* A string keeps its terminator.
AssignString(b, s) ==
    /\ ~crashed
    /\ \E n \in 0 .. Len(s) : StringLen(s, n) /\ Receive(b, Append(SubSeq(s, 1, n), Zero))
    /\ UNCHANGED <<loose, crashed>>

\* As much as the other one's length says, in a buffer of that size.
Assign(b, c) ==
    /\ ~crashed /\ b # c
    /\ Receive(b, IF block[c] = NoBlock THEN <<>> ELSE SubSeq(memory[block[c]], 1, len[c]))
    /\ UNCHANGED <<loose, crashed>>

Clear(b) ==
    /\ ~crashed
    /\ memory' = IF block[b] = NoBlock THEN memory ELSE [memory EXCEPT ![block[b]] = Zeros(block[b])]
    /\ len' = [len EXCEPT ![b] = 0] /\ want' = [want EXCEPT ![b] = <<>>]
    /\ UNCHANGED <<block, taken, loose, crashed>>

\* A length beyond the data takes in whatever the block holds there.
LenSet(b, n) ==
    /\ ~crashed
    /\ len' = [len EXCEPT ![b] = IF block[b] = NoBlock THEN 0 ELSE Upto(n, Size[block[b]])]
    /\ want' = [want EXCEPT ![b] =
          SubSeq(@, 1, Upto(len'[b], Len(@))) \o (IF len'[b] > len[b] THEN SubSeq(memory[block[b]], len[b] + 1, len'[b]) ELSE <<>>)]
    /\ UNCHANGED <<block, memory, taken, loose, crashed>>

\* A client writes where c_str or u_str points.
Poke(b) ==
    /\ ~crashed /\ block[b] # NoBlock
    /\ memory' = [memory EXCEPT ![block[b]][1] = Fresh]
    /\ want' = [want EXCEPT ![b] = IF @ = <<>> THEN @ ELSE <<Fresh>> \o Tail(@)]
    /\ UNCHANGED <<block, len, taken, loose, crashed>>

\* The block of b moves to c, whose own is returned first.  If they are the same,
\* that was the block to move.
XferMemBlk(b, c) ==
    /\ ~crashed
    /\ taken' = Returned(c)
    /\ block' = IF b = c THEN [block EXCEPT ![b] = NoBlock]
                         ELSE [block EXCEPT ![c] = block[b], ![b] = NoBlock]
    /\ len' = IF b = c THEN [len EXCEPT ![b] = 0] ELSE [len EXCEPT ![c] = len[b], ![b] = 0]
    /\ want' = IF b = c THEN [want EXCEPT ![b] = <<>>] ELSE [want EXCEPT ![c] = want[b], ![b] = <<>>]
    /\ UNCHANGED <<memory, loose, crashed>>

GetMemBlk(b) ==
    /\ ~crashed /\ loose = NoBlock
    /\ loose' = block[b]
    /\ block' = [block EXCEPT ![b] = NoBlock]
    /\ len' = [len EXCEPT ![b] = 0] /\ want' = [want EXCEPT ![b] = <<>>]
    /\ UNCHANGED <<memory, taken, crashed>>

\* The client says with LenSet how much of the block is data.
SetMemBlk(b) ==
    /\ ~crashed /\ loose # NoBlock
    /\ taken' = Returned(b)
    /\ block' = [block EXCEPT ![b] = loose] /\ loose' = NoBlock
    /\ len' = [len EXCEPT ![b] = 0] /\ want' = [want EXCEPT ![b] = <<>>]
    /\ UNCHANGED <<memory, crashed>>

BufferNext ==
    \E b \in Buffers :
        \/ \E n \in Sizes : Resize(b, n) \/ ResizeFails(b, n) \/ LenSet(b, n)
        \/ \E s \in Sources : CopyIn(b, s) \/ AssignString(b, s)
        \/ \E c \in Buffers : Assign(b, c) \/ XferMemBlk(b, c)
        \/ Clear(b) \/ Poke(b) \/ GetMemBlk(b) \/ SetMemBlk(b)

BufferSpec == BufferInit /\ [][BufferNext]_bufferVars

-----------------------------------------------------------------------------
\* A buffer holds what it was given last, in a block that nobody else has, however
\* its block came to it; and each block that the memory manager has delivered is in
\* a buffer or with the client, so that it is returned once.
BufferKeepsData ==
    /\ \A b \in Buffers :
          IF block[b] = NoBlock THEN len[b] = 0 /\ want[b] = <<>>
          ELSE len[b] <= Size[block[b]] /\ SubSeq(memory[block[b]], 1, len[b]) = want[b]
    /\ taken = (Range(block) \cup {loose}) \ {NoBlock}
    /\ \A b, c \in Buffers : block[b] = block[c] /\ block[b] # NoBlock => b = c
    /\ loose # NoBlock => loose \notin Range(block)
=============================================================================
