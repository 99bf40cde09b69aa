------------------------------ MODULE BlockParts ------------------------------
(***************************************************************************)
(* Buffer and Stream side by side, with the names of their own that the    *)
(* module which composes all parts gives values, and what is promised of   *)
(* each: both keep their data in blocks of the memory manager.             *)
(***************************************************************************)

CONSTANTS Buffers, Size, Sources, Lengths, Zero, Fresh, NoMemory,          \* Buffer
          Writes, Counts, Term, Null, Unknown, MinBlock, Cap, FragLimit, MaxLen  \* Stream

VARIABLES block, len, memory, taken, loose, want, nullUsed,                \* Buffer
          kind, st, transit, out                                           \* Stream

Buf == INSTANCE Buffer WITH Sizes <- Lengths, NoBlock <- NoMemory, crashed <- nullUsed
Str == INSTANCE Stream

\* A buffer holds what it was given, in a block of its own (see Buffer).
BufferKeepsData == Buf!BufferKeepsData

\* The segments that leave an IpcStreamSeg are numbered and marked as the
\* receiver expects (see Stream).
SegmentsNumbered == Str!SegmentsNumbered
=============================================================================
