---------------------------- MODULE MemMgrProofs ----------------------------
(***************************************************************************)
(* Theorems about MemMgr, for any clients, blocks, block sizes and pools,  *)
(* and, at the end, about Buffer and Stream, whose blocks come from it.    *)
(***************************************************************************)
EXTENDS MemMgr, BlockParts, ListLemmas, FiniteSetTheorems, SequenceTheorems, TLAPS

PoolRecords == [free : Seq(Blocks), total : Words, inventory : Words, peak : Words, inc : Nat]

-----------------------------------------------------------------------------
(* The operators: what they return, of which type.                         *)

\* A counter of the code stays within its width.
LEMMA Wraps == \A x \in Int : x % Word \in Words
BY MemMgrAssumption DEF Words

\* PoolGet returns a pool whose blocks are large enough and as small as any such.
LEMMA PoolGetSmallest ==
    ASSUME TypeOK, NEW n \in Nat, PoolsFor(n) # {}
    PROVE  /\ PoolGet(n) \in pools /\ PoolGet(n) \in Sizes /\ n <= PoolGet(n)
           /\ \A q \in pools : q >= n => PoolGet(n) <= q
<1>1. PoolsFor(n) \subseteq Nat /\ PoolsFor(n) \subseteq pools /\ pools \subseteq Sizes
  BY MemMgrAssumption DEF TypeOK, PoolsFor
<1>2. PoolGet(n) \in PoolsFor(n) /\ \A q \in PoolsFor(n) : PoolGet(n) <= q
  BY <1>1, MinExists DEF PoolGet
<1> QED
  BY <1>1, <1>2 DEF PoolsFor

\* A new segment has blocks that nobody knew, each once, as many as asked for or none.
LEMMA SegmentProperties ==
    ASSUME TypeOK, NEW n \in Nat
    PROVE  /\ NewSegment(n) \in Seq(Blocks) /\ IsInjective(NewSegment(n))
           /\ Len(NewSegment(n)) \in Nat
           /\ ToSet(NewSegment(n)) \subseteq Unused /\ Unused \subseteq Blocks
<1>1. IsFiniteSet(Unused) /\ Unused \subseteq Blocks
  BY MemMgrAssumption, FS_Subset DEF Unused
<1>2. /\ SetToSeq(Unused) \in Seq(Unused) /\ IsInjective(SetToSeq(Unused))
      /\ Len(SetToSeq(Unused)) = Cardinality(Unused) /\ Cardinality(Unused) \in Nat
  BY <1>1, SetToSeqLists
<1>3. CASE n <= Cardinality(Unused)
  <2>1. /\ SubSeq(SetToSeq(Unused), 1, n) \in Seq(Unused)
        /\ Len(SubSeq(SetToSeq(Unused), 1, n)) = n
        /\ IsInjective(SubSeq(SetToSeq(Unused), 1, n))
    BY <1>2, <1>3, PrefixDistinct
  <2>2. NewSegment(n) \in Seq(Unused) /\ IsInjective(NewSegment(n)) /\ Len(NewSegment(n)) = n
    BY <1>3, <2>1 DEF NewSegment
  <2>3. NewSegment(n) \in Seq(Blocks)
    BY <1>1, <2>2, SeqMonotonic
  <2>4. ToSet(NewSegment(n)) \subseteq Unused
    BY <2>2, InjectiveLength
  <2> QED
    BY <1>1, <2>2, <2>3, <2>4
<1>4. CASE ~ (n <= Cardinality(Unused))
  BY <1>1, <1>4, EmptySeq DEF NewSegment, IsInjective, ToSet
<1> QED
  BY <1>3, <1>4

\* AllocateSegment keeps a pool well typed and adds the segment at the end.
LEMMA AllocateProperties ==
    ASSUME NEW p \in PoolRecords, NEW seg \in Seq(Blocks)
    PROVE  /\ AllocateSegment(p, seg) \in PoolRecords
           /\ AllocateSegment(p, seg).free = p.free \o seg
           /\ AllocateSegment(p, seg).total = (p.total + Len(seg)) % Word
           /\ AllocateSegment(p, seg).inventory = (p.inventory + Len(seg)) % Word
           /\ AllocateSegment(p, seg).peak = p.peak
<1>1. p.free \o seg \in Seq(Blocks)
  BY ConcatProperties DEF PoolRecords
<1>2. p.total + Len(seg) \in Int /\ p.inventory + Len(seg) \in Int
  BY LenProperties, MemMgrAssumption DEF PoolRecords, Words
<1>3. (p.total + Len(seg)) % Word \in Words /\ (p.inventory + Len(seg)) % Word \in Words
  BY <1>2, Wraps
<1> QED
  BY <1>1, <1>3 DEF AllocateSegment, PoolRecords

\* MemBlockGet takes the first block of the list.
LEMMA TakeProperties ==
    ASSUME NEW p \in PoolRecords, p.free # <<>>
    PROVE  /\ TakeHead(p) \in PoolRecords
           /\ TakeHead(p).free = Tail(p.free) /\ TakeHead(p).total = p.total
           /\ TakeHead(p).inventory = (p.inventory + Word - 1) % Word
           /\ LET used == (p.total + Word - TakeHead(p).inventory) % Word
              IN  TakeHead(p).peak = IF used > p.peak THEN used ELSE p.peak
<1> DEFINE inv == (p.inventory + Word - 1) % Word
           used == (p.total + Word - inv) % Word
<1>1. Tail(p.free) \in Seq(Blocks)
  BY HeadTailProperties DEF PoolRecords
<1>2. inv \in Words
  <2>1. p.inventory + Word - 1 \in Int
    BY MemMgrAssumption DEF PoolRecords, Words
  <2> QED
    BY <2>1, Wraps
<1>3. used \in Words
  <2>1. p.total + Word - inv \in Int
    BY <1>2, MemMgrAssumption DEF PoolRecords, Words
  <2> QED
    BY <2>1, Wraps
<1>4. TakeHead(p) = [p EXCEPT !.free = Tail(@), !.inventory = inv,
                              !.peak = IF used > @ THEN used ELSE @]
  BY DEF TakeHead
<1> HIDE DEF inv, used
<1>5. /\ TakeHead(p) \in PoolRecords /\ TakeHead(p).free = Tail(p.free)
      /\ TakeHead(p).total = p.total /\ TakeHead(p).inventory = inv
      /\ TakeHead(p).peak = IF used > p.peak THEN used ELSE p.peak
  BY <1>1, <1>2, <1>3, <1>4 DEF PoolRecords
<1> QED
  BY <1>5 DEF inv, used

\* MemBlockPut adds the block behind the list.
LEMMA PutProperties ==
    ASSUME NEW p \in PoolRecords, NEW b \in Blocks
    PROVE  /\ PutTail(p, b) \in PoolRecords
           /\ PutTail(p, b).free = Append(p.free, b) /\ PutTail(p, b).total = p.total
           /\ PutTail(p, b).inventory = (p.inventory + 1) % Word
           /\ PutTail(p, b).peak = p.peak
<1>1. Append(p.free, b) \in Seq(Blocks)
  BY AppendProperties DEF PoolRecords
<1>2. p.inventory + 1 \in Int
  BY MemMgrAssumption DEF PoolRecords, Words
<1>3. (p.inventory + 1) % Word \in Words
  BY <1>2, Wraps
<1> QED
  BY <1>1, <1>3 DEF PutTail, PoolRecords

\* CreatePool's pool has its first segment and nothing else.
LEMMA NewPoolProperties ==
    ASSUME NEW seg \in Seq(Blocks), NEW inc \in Nat
    PROVE  /\ NewPool(seg, inc) \in PoolRecords
           /\ NewPool(seg, inc).free = seg
           /\ NewPool(seg, inc).total = Len(seg) % Word
           /\ NewPool(seg, inc).inventory = Len(seg) % Word
           /\ NewPool(seg, inc).peak = 0
<1> DEFINE fresh == [EmptyPool EXCEPT !.inc = inc]
<1>1. 0 \in Words
  BY MemMgrAssumption DEF Words
<1>2. <<>> \in Seq(Blocks) /\ <<>> \o seg = seg /\ Len(seg) \in Nat
  BY EmptySeq, ConcatEmptySeq, LenProperties
<1>3. fresh \in PoolRecords /\ fresh.free = <<>> /\ fresh.total = 0 /\ fresh.inventory = 0
      /\ fresh.peak = 0
  BY <1>1, <1>2 DEF EmptyPool, PoolRecords
<1>4. NewPool(seg, inc) = AllocateSegment(fresh, seg)
  BY DEF NewPool
<1> HIDE DEF fresh
<1>5. /\ NewPool(seg, inc) \in PoolRecords
      /\ NewPool(seg, inc).free = <<>> \o seg
      /\ NewPool(seg, inc).total = (0 + Len(seg)) % Word
      /\ NewPool(seg, inc).inventory = (0 + Len(seg)) % Word
      /\ NewPool(seg, inc).peak = 0
  BY <1>3, <1>4, AllocateProperties
<1>6. 0 + Len(seg) = Len(seg)
  BY <1>2
<1> QED
  BY <1>2, <1>5, <1>6

\* AllocateSegment sets m_BlockSize of its own blocks only.
LEMMA SizedProperties ==
    ASSUME TypeOK, NEW seg \in Seq(Blocks), NEW n \in Sizes
    PROVE  /\ Sized(seg, n) \in [Blocks -> Sizes \cup {0}]
           /\ \A b \in Blocks : Sized(seg, n)[b] = IF b \in ToSet(seg) THEN n ELSE size[b]
BY DEF TypeOK, Sized

-----------------------------------------------------------------------------
(* Types.                                                                  *)

\* What a Get from a pool does: the pool, with a new segment if it had no block,
\* gives its first one away.
LEMMA GetShape ==
    ASSUME TypeOK, NEW t \in Threads, NEW n \in Sizes, GetFromPool(t, n)
    PROVE  \E p \in pools, seg \in Seq(Blocks) :
              /\ p \in Sizes /\ pool[p] \in PoolRecords
              /\ IsInjective(seg) /\ ToSet(seg) \subseteq Unused
              /\ AllocateSegment(pool[p], seg).free # <<>>
              /\ pool' = [pool EXCEPT ![p] = TakeHead(AllocateSegment(pool[p], seg))]
              /\ size' = Sized(seg, p)
              /\ Deliver(t, Head(AllocateSegment(pool[p], seg).free), p)
<1> DEFINE p == PoolGet(n)
           seg == IF pool[p].free = <<>> THEN NewSegment(pool[p].inc) ELSE <<>>
<1>1. n \in Nat /\ PoolsFor(n) # {}
  BY MemMgrAssumption DEF GetFromPool
<1>2. p \in pools /\ p \in Sizes
  BY <1>1, PoolGetSmallest
<1>3. pool[p] \in PoolRecords
  BY <1>2 DEF TypeOK, PoolRecords
<1>4. seg \in Seq(Blocks) /\ IsInjective(seg) /\ ToSet(seg) \subseteq Unused
  <2>1. CASE pool[p].free = <<>>
    <3>1. pool[p].inc \in Nat
      BY <1>3 DEF PoolRecords
    <3> QED
      BY <2>1, <3>1, SegmentProperties
  <2>2. CASE pool[p].free # <<>>
    BY <2>2, EmptySeq DEF IsInjective, ToSet
  <2> QED
    BY <2>1, <2>2
<1>5. /\ AllocateSegment(pool[p], seg).free # <<>>
      /\ pool' = [pool EXCEPT ![p] = TakeHead(AllocateSegment(pool[p], seg))]
      /\ size' = Sized(seg, p)
      /\ Deliver(t, Head(AllocateSegment(pool[p], seg).free), p)
  BY DEF GetFromPool
<1> HIDE DEF p, seg
<1> QED
  BY <1>2, <1>3, <1>4, <1>5

\* What a custom Get does: a block that nobody knew is sized for it alone.
LEMMA CustomShape ==
    ASSUME TypeOK, NEW t \in Threads, NEW n \in Sizes, GetCustom(t, n)
    PROVE  \E b \in Unused :
              /\ b \in Blocks /\ PoolsFor(n) = {}
              /\ size' = [size EXCEPT ![b] = n] /\ custom' = custom \cup {b}
              /\ Deliver(t, b, n)
<1> DEFINE seg == NewSegment(1)
<1>1. seg \in Seq(Blocks) /\ IsInjective(seg) /\ ToSet(seg) \subseteq Unused /\ Unused \subseteq Blocks
  BY SegmentProperties
<1>2. /\ seg # <<>> /\ PoolsFor(n) = {}
      /\ size' = [size EXCEPT ![Head(seg)] = n] /\ custom' = custom \cup {Head(seg)}
      /\ Deliver(t, Head(seg), n)
  BY DEF GetCustom
<1> HIDE DEF seg
<1>3. Head(seg) \in Unused
  BY <1>1, <1>2, TailDistinct
<1> QED
  BY <1>1, <1>2, <1>3

\* The singleton's constructor leaves a manager with one pool, well typed.
LEMMA TypeInit == Init => TypeOK
<1> SUFFICES ASSUME Init PROVE TypeOK
  OBVIOUS
<1> DEFINE seg == SubSeq(SetToSeq(Blocks), 1, InitCount)
<1>1. /\ seg \in Seq(Blocks) /\ Len(seg) = InitCount /\ InitCount \in Nat
  <2>1. /\ SetToSeq(Blocks) \in Seq(Blocks) /\ IsInjective(SetToSeq(Blocks))
        /\ Len(SetToSeq(Blocks)) = Cardinality(Blocks) /\ Cardinality(Blocks) \in Nat
    BY MemMgrAssumption, SetToSeqLists
  <2>2. InitCount \in 0 .. Len(SetToSeq(Blocks))
    BY <2>1, MemMgrAssumption
  <2> QED
    BY <2>1, <2>2, PrefixDistinct
<1>2. /\ pool = [n \in Sizes |-> IF n = InitSize THEN NewPool(seg, InitCount) ELSE EmptyPool]
      /\ size = [b \in Blocks |-> IF b \in ToSet(seg) THEN InitSize ELSE 0]
  BY DEF Init
<1> HIDE DEF seg
<1>3. NewPool(seg, InitCount) \in PoolRecords
  BY <1>1, NewPoolProperties
<1>4. 0 \in Words
  BY MemMgrAssumption DEF Words
<1>5. EmptyPool \in PoolRecords
  BY <1>4, EmptySeq DEF EmptyPool, PoolRecords
<1>6. pool \in [Sizes -> PoolRecords]
  BY <1>2, <1>3, <1>5
<1>7. size \in [Blocks -> Sizes \cup {0}] /\ pools \subseteq Sizes
  BY <1>2, MemMgrAssumption DEF Init
<1> QED
  BY <1>4, <1>6, <1>7 DEF Init, TypeOK, PoolRecords

\* Every step of a client and every CreatePool preserves the types.
LEMMA TypeStep == TypeOK /\ [Next]_vars => TypeOK'
<1> SUFFICES ASSUME TypeOK, [Next]_vars PROVE TypeOK'
  OBVIOUS
<1>0. /\ Idle \in {Idle} \cup [at : {"got", "put"}, block : Blocks]
      /\ \A t \in Threads : call[t].at # "idle" => call[t].block \in Blocks
      /\ pool \in [Sizes -> PoolRecords] /\ Word \in Nat
      /\ \A x \in Sizes \cup {0} : deployed + x \in Int /\ deployed + Word - x \in Int
  BY MemMgrAssumption DEF TypeOK, PoolRecords, Idle, Words
<1>d. ASSUME NEW t \in Threads, NEW b \in Blocks, NEW n \in Sizes, Deliver(t, b, n)
      PROVE  /\ holder' \in [Blocks -> Threads \cup {None}] /\ deployed' \in Words
             /\ call' \in [Threads -> {Idle} \cup [at : {"got", "put"}, block : Blocks]]
  BY <1>d, <1>0, Wraps DEF Deliver, TypeOK
<1>u. ASSUME NEW t \in Threads, NEW b \in Blocks, Undeploy(t, b)
      PROVE  /\ holder' \in [Blocks -> Threads \cup {None}] /\ deployed' \in Words
             /\ call' \in [Threads -> {Idle} \cup [at : {"got", "put"}, block : Blocks]]
  <2>1. deployed + Word - size[b] \in Int
    BY <1>0 DEF TypeOK
  <2> QED
    BY <2>1, <1>u, <1>0, Wraps DEF Undeploy, TypeOK
<1>1. ASSUME NEW t \in Threads, NEW n \in Sizes, GetFromPool(t, n) PROVE TypeOK'
  <2>1. PICK p \in pools, seg \in Seq(Blocks) :
              /\ p \in Sizes /\ pool[p] \in PoolRecords
              /\ AllocateSegment(pool[p], seg).free # <<>>
              /\ pool' = [pool EXCEPT ![p] = TakeHead(AllocateSegment(pool[p], seg))]
              /\ size' = Sized(seg, p)
              /\ Deliver(t, Head(AllocateSegment(pool[p], seg).free), p)
    BY <1>1, GetShape
  <2>2. AllocateSegment(pool[p], seg) \in PoolRecords
    BY <2>1, AllocateProperties
  <2>3. TakeHead(AllocateSegment(pool[p], seg)) \in PoolRecords
    BY <2>1, <2>2, TakeProperties
  <2>4. Head(AllocateSegment(pool[p], seg).free) \in Blocks
    BY <2>1, <2>2, HeadTailProperties DEF PoolRecords
  <2>5. size' \in [Blocks -> Sizes \cup {0}]
    BY <2>1, SizedProperties
  <2>6. pool' \in [Sizes -> PoolRecords]
    BY <2>1, <2>3, <1>0
  <2>7. UNCHANGED <<pools, custom, guard, crashed>>
    BY <1>1 DEF GetFromPool
  <2> QED
    BY <2>1, <2>4, <2>5, <2>6, <2>7, <1>d DEF TypeOK, PoolRecords
<1>2. ASSUME NEW t \in Threads, NEW n \in Sizes, GetCustom(t, n) PROVE TypeOK'
  <2>1. PICK b \in Unused :
              /\ b \in Blocks
              /\ size' = [size EXCEPT ![b] = n] /\ custom' = custom \cup {b}
              /\ Deliver(t, b, n)
    BY <1>2, CustomShape
  <2>2. UNCHANGED <<pools, pool, guard, crashed>>
    BY <1>2 DEF GetCustom
  <2> QED
    BY <2>1, <2>2, <1>d DEF TypeOK
<1>3. ASSUME NEW t \in Threads, NEW n \in Sizes, GetNothing(t, n) PROVE TypeOK'
  BY <1>3 DEF GetNothing, TypeOK
<1>4. ASSUME NEW t \in Threads, GuardOn(t) PROVE TypeOK'
  BY <1>4, <1>0 DEF GuardOn, TypeOK
<1>5. ASSUME NEW t \in Threads, NEW b \in Blocks, PutCheck(t, b) PROVE TypeOK'
  BY <1>5 DEF PutCheck, TypeOK
<1>6. ASSUME NEW t \in Threads, PutInPool(t) PROVE TypeOK'
  <2> DEFINE b == call[t].block
  <2>1. /\ b \in Blocks /\ PoolsFor(size[b]) # {} /\ PoolGet(size[b]) = size[b]
        /\ pool' = [pool EXCEPT ![size[b]] = PutTail(@, b)]
        /\ Undeploy(t, b) /\ UNCHANGED <<pools, size, custom, guard, crashed>>
    BY <1>6, <1>0 DEF PutInPool
  <2> HIDE DEF b
  <2>2. size[b] \in Nat
    BY <2>1, MemMgrAssumption DEF TypeOK
  <2>3. size[b] \in Sizes
    BY <2>1, <2>2, PoolGetSmallest
  <2>4. PutTail(pool[size[b]], b) \in PoolRecords
    BY <2>1, <2>3, <1>0, PutProperties
  <2>5. pool' \in [Sizes -> PoolRecords]
    BY <2>1, <2>3, <2>4, <1>0
  <2> QED
    BY <2>1, <2>5, <1>u DEF TypeOK, PoolRecords
<1>7. ASSUME NEW t \in Threads, PutCustom(t) PROVE TypeOK'
  <2> DEFINE b == call[t].block
  <2>1. /\ b \in Blocks /\ size' = [size EXCEPT ![b] = 0] /\ custom' = custom \ {b}
        /\ Undeploy(t, b) /\ UNCHANGED <<pools, pool, guard, crashed>>
    BY <1>7, <1>0 DEF PutCustom
  <2> HIDE DEF b
  <2> QED
    BY <2>1, <1>u DEF TypeOK
<1>8. ASSUME NEW t \in Threads, PutRefused(t) PROVE TypeOK'
  BY <1>8, <1>0 DEF PutRefused, TypeOK
<1>9. ASSUME NEW n \in Sizes, NEW i \in 0 .. MaxSegment, NEW j \in 0 .. MaxSegment,
             CreatePool(n, i, j)
      PROVE  TypeOK'
  <2>1. i \in Nat /\ j \in Nat
    BY MemMgrAssumption
  <2>2. NewSegment(i) \in Seq(Blocks)
    BY <2>1, SegmentProperties
  <2>3. /\ pools' = pools \cup {n} /\ UNCHANGED <<custom, guard, holder, call, deployed, crashed>>
        /\ pool' = [pool EXCEPT ![n] = NewPool(NewSegment(i), j)]
        /\ size' = Sized(NewSegment(i), n)
    BY <1>9 DEF CreatePool
  <2>4. NewPool(NewSegment(i), j) \in PoolRecords
    BY <2>1, <2>2, NewPoolProperties
  <2>5. pool' \in [Sizes -> PoolRecords] /\ size' \in [Blocks -> Sizes \cup {0}]
    BY <2>2, <2>3, <2>4, <1>0, SizedProperties
  <2> QED
    BY <2>3, <2>5 DEF TypeOK, PoolRecords
<1>10. CASE UNCHANGED vars
  BY <1>10 DEF vars, TypeOK
<1> QED
  BY <1>1, <1>2, <1>3, <1>4, <1>5, <1>6, <1>7, <1>8, <1>9, <1>10 DEF Next

\* Blocks, pools, clients and counters always have their types, the counters their
\* width.
THEOREM TypeCorrect == Spec => []TypeOK
BY TypeInit, TypeStep, PTL DEF Spec

-----------------------------------------------------------------------------
(* One place for each block.                                               *)

\* A block of a segment is of the size of a pool; a custom one has a size; a size
\* without a pool has no list.
PoolsKnown ==
    /\ \A b \in Blocks : size[b] # 0 /\ b \notin custom => size[b] \in pools
    /\ \A b \in custom : size[b] # 0
    /\ \A n \in Sizes \ pools : pool[n].free = <<>>

\* A client in a call holds the block of that call, without a guard if it is to be
\* returned.
CallsHold ==
    \A t \in Threads : call[t].at # "idle" =>
        /\ holder[call[t].block] = t
        /\ call[t].at = "put" => ~guard[call[t].block]

\* A block is in the list of a pool if it has that size and nobody holds it.
Listing ==
    \A b \in Blocks, q \in Sizes :
        b \in ToSet(pool[q].free) <=> size[b] = q /\ holder[b] = None

OnceListed == \A q \in Sizes : IsInjective(pool[q].free)

\* What BlockInOnePlace says of one block and its guard.
Guarded(b) ==
    /\ size[b] = 0 => holder[b] = None
    /\ holder[b] = None => ~guard[b]
    /\ holder[b] # None /\ call[holder[b]].block # b =>
           guard[b] \/ (b \in custom /\ \E p \in pools : p > size[b])

AllGuarded == \A b \in Blocks : Guarded(b)

PlaceInv == TypeOK /\ PoolsKnown /\ CallsHold /\ Listing /\ OnceListed /\ AllGuarded

\* These parts say what BlockInOnePlace says.
LEMMA PlaceImplies == PlaceInv => BlockInOnePlace
<1> SUFFICES ASSUME PlaceInv, NEW b \in Blocks
             PROVE  Listed(b) = IF size[b] # 0 /\ holder[b] = None THEN {size[b]} ELSE {}
  BY DEF PlaceInv, OnceListed, AllGuarded, Guarded, BlockInOnePlace
<1>1. \A q \in Sizes : q # 0
  BY MemMgrAssumption
<1>2. size[b] \in Sizes \cup {0}
  BY DEF PlaceInv, TypeOK
<1>3. \A q \in Sizes : q \in Listed(b) <=> size[b] = q /\ holder[b] = None
  BY DEF PlaceInv, Listing, Listed
<1>4. Listed(b) \subseteq Sizes
  BY DEF Listed
<1> QED
  BY <1>1, <1>2, <1>3, <1>4

\* The constructor's pool lists its blocks, and no client holds one.
LEMMA PlaceInit == Init => PlaceInv
<1> SUFFICES ASSUME Init PROVE PlaceInv
  OBVIOUS
<1> DEFINE seg == SubSeq(SetToSeq(Blocks), 1, InitCount)
<1>1. /\ seg \in Seq(Blocks) /\ IsInjective(seg)
  <2>1. /\ SetToSeq(Blocks) \in Seq(Blocks) /\ IsInjective(SetToSeq(Blocks))
        /\ Len(SetToSeq(Blocks)) = Cardinality(Blocks) /\ Cardinality(Blocks) \in Nat
    BY MemMgrAssumption, SetToSeqLists
  <2>2. InitCount \in 0 .. Len(SetToSeq(Blocks)) /\ InitCount \in Nat
    BY <2>1, MemMgrAssumption
  <2> QED
    BY <2>1, <2>2, PrefixDistinct
<1>2. /\ pool = [n \in Sizes |-> IF n = InitSize THEN NewPool(seg, InitCount) ELSE EmptyPool]
      /\ size = [b \in Blocks |-> IF b \in ToSet(seg) THEN InitSize ELSE 0]
  BY DEF Init
<1> HIDE DEF seg
<1>3. InitCount \in Nat /\ InitSize \in Sizes /\ \A n \in Sizes : n # 0
  BY MemMgrAssumption
<1>4. NewPool(seg, InitCount).free = seg
  BY <1>1, <1>3, NewPoolProperties
<1>5. \A n \in Sizes : pool[n].free = IF n = InitSize THEN seg ELSE <<>>
  BY <1>2, <1>4 DEF EmptyPool
<1>6. ToSet(<<>>) = {} /\ IsInjective(<<>>)
  BY DEF ToSet, IsInjective
<1>7. \A b \in Blocks, q \in Sizes : b \in ToSet(pool[q].free) <=> size[b] = q
  BY <1>2, <1>3, <1>5, <1>6
<1>8. Listing
  BY <1>7 DEF Init, Listing
<1>9. OnceListed
  BY <1>1, <1>5, <1>6 DEF OnceListed
<1>10. PoolsKnown
  BY <1>2, <1>5 DEF Init, PoolsKnown
<1>11. CallsHold /\ AllGuarded
  BY DEF Init, CallsHold, AllGuarded, Guarded, Idle
<1> QED
  BY <1>8, <1>9, <1>10, <1>11, TypeInit DEF PlaceInv

\* The list of a pool with a new segment behind it.
LEMMA Stocked ==
    ASSUME PlaceInv, NEW p \in Sizes, NEW seg \in Seq(Blocks),
           IsInjective(seg), ToSet(seg) \subseteq Unused
    PROVE  /\ AllocateSegment(pool[p], seg).free \in Seq(Blocks)
           /\ IsInjective(AllocateSegment(pool[p], seg).free)
           /\ ToSet(AllocateSegment(pool[p], seg).free) = ToSet(pool[p].free) \cup ToSet(seg)
           /\ \A b \in ToSet(seg) : b \notin ToSet(pool[p].free)
<1>1. pool[p] \in PoolRecords /\ pool[p].free \in Seq(Blocks) /\ IsInjective(pool[p].free)
  BY DEF PlaceInv, OnceListed, TypeOK, PoolRecords
<1>2. \A b \in ToSet(seg) : b \in Blocks /\ size[b] = 0
  BY DEF Unused
<1>3. \A b \in ToSet(seg) : b \notin ToSet(pool[p].free)
  BY <1>2, MemMgrAssumption DEF PlaceInv, Listing
<1>4. AllocateSegment(pool[p], seg).free = pool[p].free \o seg
  BY <1>1, AllocateProperties
<1>5. \A i \in 1 .. Len(pool[p].free), j \in 1 .. Len(seg) : pool[p].free[i] # seg[j]
  <2>1. DOMAIN seg = 1 .. Len(seg) /\ DOMAIN pool[p].free = 1 .. Len(pool[p].free)
    BY <1>1, LenProperties
  <2> QED
    BY <2>1, <1>3 DEF ToSet
<1>6. pool[p].free \o seg \in Seq(Blocks)
  BY <1>1, ConcatProperties
<1>7. /\ ToSet(pool[p].free \o seg) = ToSet(pool[p].free) \cup ToSet(seg)
      /\ IsInjective(pool[p].free \o seg)
  BY <1>1, <1>5, ConcatDistinct
<1> QED
  BY <1>3, <1>4, <1>6, <1>7

\* A Get from a pool takes the block out of the only list that has it.
LEMMA GetPlaced ==
    ASSUME PlaceInv, NEW t \in Threads, NEW n \in Sizes, GetFromPool(t, n)
    PROVE  PoolsKnown' /\ CallsHold' /\ Listing' /\ OnceListed' /\ AllGuarded'
<1>0. TypeOK /\ None \notin Threads /\ NoBlock \notin Blocks /\ \A m \in Sizes : m # 0
  BY MemMgrAssumption DEF PlaceInv
<1>1. PICK p \in pools, seg \in Seq(Blocks) :
            /\ p \in Sizes /\ pool[p] \in PoolRecords
            /\ IsInjective(seg) /\ ToSet(seg) \subseteq Unused
            /\ AllocateSegment(pool[p], seg).free # <<>>
            /\ pool' = [pool EXCEPT ![p] = TakeHead(AllocateSegment(pool[p], seg))]
            /\ size' = Sized(seg, p)
            /\ Deliver(t, Head(AllocateSegment(pool[p], seg).free), p)
  BY <1>0, GetShape
<1> DEFINE list == AllocateSegment(pool[p], seg).free
           h == Head(list)
<1>2. /\ list \in Seq(Blocks) /\ IsInjective(list)
      /\ ToSet(list) = ToSet(pool[p].free) \cup ToSet(seg)
      /\ \A b \in ToSet(seg) : b \notin ToSet(pool[p].free)
  BY <1>1, Stocked
<1>3. /\ h \in Blocks /\ h \in ToSet(list) /\ IsInjective(Tail(list))
      /\ ToSet(Tail(list)) = ToSet(list) \ {h}
  BY <1>1, <1>2, TailDistinct
<1>4. AllocateSegment(pool[p], seg) \in PoolRecords
  BY <1>1, AllocateProperties
<1>5. \A q \in Sizes : pool'[q].free = IF q = p THEN Tail(list) ELSE pool[q].free
  BY <1>1, <1>4, TakeProperties DEF PlaceInv, TypeOK
<1>6. \A b \in Blocks : size'[b] = IF b \in ToSet(seg) THEN p ELSE size[b]
  BY <1>0, <1>1, SizedProperties
<1>7. /\ holder' = [holder EXCEPT ![h] = t] /\ call' = [call EXCEPT ![t] = [at |-> "got", block |-> h]]
      /\ call[t] = Idle /\ UNCHANGED <<pools, custom, guard>>
  BY <1>1 DEF Deliver, GetFromPool
<1>8. \A b \in ToSet(seg) : b \in Blocks /\ size[b] = 0 /\ holder[b] = None /\ ~guard[b]
  BY <1>1 DEF Unused, PlaceInv, AllGuarded, Guarded
<1>9. holder[h] = None /\ ~guard[h] /\ size'[h] = p
  BY <1>1, <1>2, <1>3, <1>6, <1>8 DEF PlaceInv, Listing, AllGuarded, Guarded
<1>10. /\ \A b \in Blocks : holder'[b] = IF b = h THEN t ELSE holder[b]
       /\ \A u \in Threads : call'[u] = IF u = t THEN [at |-> "got", block |-> h] ELSE call[u]
  BY <1>0, <1>7 DEF TypeOK
<1> HIDE DEF list, h
<1>11. PoolsKnown'
  <2>1. ASSUME NEW b \in Blocks, size'[b] # 0, b \notin custom' PROVE size'[b] \in pools'
    BY <2>1, <1>1, <1>6, <1>7 DEF PlaceInv, PoolsKnown
  <2>2. ASSUME NEW b \in custom' PROVE size'[b] # 0
    <3>1. b \in Blocks
      BY <2>2, <1>0, <1>7 DEF TypeOK
    <3> QED
      BY <2>2, <3>1, <1>0, <1>1, <1>6, <1>7 DEF PlaceInv, PoolsKnown
  <2>3. ASSUME NEW m \in Sizes \ pools' PROVE pool'[m].free = <<>>
    BY <2>3, <1>1, <1>5, <1>7 DEF PlaceInv, PoolsKnown
  <2> QED
    BY <2>1, <2>2, <2>3 DEF PoolsKnown
<1>12. CallsHold'
  <2> SUFFICES ASSUME NEW u \in Threads, call'[u].at # "idle"
               PROVE  /\ holder'[call'[u].block] = u
                      /\ call'[u].at = "put" => ~guard'[call'[u].block]
    BY DEF CallsHold
  <2>1. CASE u = t
    BY <2>1, <1>3, <1>10
  <2>2. CASE u # t
    <3>1. /\ call'[u] = call[u] /\ call[u].block \in Blocks /\ holder[call[u].block] = u
          /\ call[u].at = "put" => ~guard[call[u].block]
      BY <2>2, <1>0, <1>10 DEF PlaceInv, CallsHold, TypeOK, Idle
    <3>2. call[u].block # h
      BY <3>1, <1>0, <1>9
    <3> QED
      BY <3>1, <3>2, <1>7, <1>10
  <2> QED
    BY <2>1, <2>2
<1>13. Listing'
  <2> SUFFICES ASSUME NEW b \in Blocks, NEW q \in Sizes
               PROVE  b \in ToSet(pool'[q].free) <=> size'[b] = q /\ holder'[b] = None
    BY DEF Listing
  <2>0. b \in ToSet(pool[q].free) <=> size[b] = q /\ holder[b] = None
    BY DEF PlaceInv, Listing
  <2>1. CASE b = h
    <3>1. holder'[b] # None
      BY <2>1, <1>0, <1>10
    <3>2. b \notin ToSet(pool'[q].free)
      <4>1. CASE q = p
        BY <4>1, <2>1, <1>3, <1>5
      <4>2. CASE q # p
        BY <4>2, <2>0, <2>1, <1>5, <1>6, <1>8, <1>9, <1>0
      <4> QED
        BY <4>1, <4>2
    <3> QED
      BY <3>1, <3>2
  <2>2. CASE b # h /\ b \in ToSet(seg)
    BY <2>0, <2>2, <1>0, <1>1, <1>2, <1>3, <1>5, <1>6, <1>8, <1>10
  <2>3. CASE b # h /\ b \notin ToSet(seg)
    BY <2>0, <2>3, <1>2, <1>3, <1>5, <1>6, <1>10
  <2> QED
    BY <2>1, <2>2, <2>3
<1>14. OnceListed'
  BY <1>3, <1>5 DEF PlaceInv, OnceListed
<1>15. AllGuarded'
  <2> SUFFICES ASSUME NEW b \in Blocks PROVE Guarded(b)'
    BY DEF AllGuarded
  <2>0. Guarded(b)
    BY DEF PlaceInv, AllGuarded
  <2>1. CASE b = h
    BY <2>1, <1>0, <1>1, <1>3, <1>9, <1>10 DEF Guarded
  <2>2. CASE b # h /\ b \in ToSet(seg)
    BY <2>2, <1>7, <1>8, <1>10 DEF Guarded
  <2>3. CASE b # h /\ b \notin ToSet(seg)
    <3>1. size'[b] = size[b] /\ holder'[b] = holder[b] /\ UNCHANGED <<guard, custom, pools>>
      BY <2>3, <1>6, <1>7, <1>10
    <3>2. holder[b] # None => holder[b] \in Threads
      BY <1>0 DEF TypeOK
    <3>3. holder[b] # None /\ call'[holder[b]].block # b => call[holder[b]].block # b
      BY <3>2, <1>0, <1>7, <1>10 DEF Idle
    <3> QED
      BY <2>0, <3>1, <3>3 DEF Guarded
  <2> QED
    BY <2>1, <2>2, <2>3
<1> QED
  BY <1>11, <1>12, <1>13, <1>14, <1>15

\* A custom Get takes a block that was in no list.
LEMMA CustomPlaced ==
    ASSUME PlaceInv, NEW t \in Threads, NEW n \in Sizes, GetCustom(t, n)
    PROVE  PoolsKnown' /\ CallsHold' /\ Listing' /\ OnceListed' /\ AllGuarded'
<1>0. TypeOK /\ None \notin Threads /\ NoBlock \notin Blocks /\ \A m \in Sizes : m # 0
  BY MemMgrAssumption DEF PlaceInv
<1>1. PICK h \in Unused :
            /\ h \in Blocks /\ PoolsFor(n) = {}
            /\ size' = [size EXCEPT ![h] = n] /\ custom' = custom \cup {h}
            /\ Deliver(t, h, n)
  BY <1>0, CustomShape
<1>2. /\ call[t] = Idle /\ UNCHANGED <<pools, pool, guard>>
      /\ \A b \in Blocks : size'[b] = IF b = h THEN n ELSE size[b]
      /\ \A b \in Blocks : holder'[b] = IF b = h THEN t ELSE holder[b]
      /\ \A u \in Threads : call'[u] = IF u = t THEN [at |-> "got", block |-> h] ELSE call[u]
  BY <1>0, <1>1 DEF GetCustom, Deliver, TypeOK
<1>3. size[h] = 0 /\ holder[h] = None /\ ~guard[h] /\ t # None
  BY <1>0, <1>1 DEF Unused, PlaceInv, AllGuarded, Guarded
<1>4. \A q \in Sizes : h \notin ToSet(pool[q].free)
  BY <1>0, <1>1, <1>3 DEF PlaceInv, Listing
<1>5. PoolsKnown'
  BY <1>0, <1>1, <1>2 DEF PlaceInv, PoolsKnown, TypeOK
<1>6. CallsHold'
  <2> SUFFICES ASSUME NEW u \in Threads, call'[u].at # "idle"
               PROVE  /\ holder'[call'[u].block] = u
                      /\ call'[u].at = "put" => ~guard'[call'[u].block]
    BY DEF CallsHold
  <2>1. CASE u = t
    BY <2>1, <1>1, <1>2
  <2>2. CASE u # t
    <3>1. /\ call'[u] = call[u] /\ call[u].block \in Blocks /\ holder[call[u].block] = u
          /\ call[u].at = "put" => ~guard[call[u].block]
      BY <2>2, <1>0, <1>2 DEF PlaceInv, CallsHold, TypeOK, Idle
    <3>2. call[u].block # h
      BY <3>1, <1>0, <1>3
    <3> QED
      BY <3>1, <3>2, <1>2
  <2> QED
    BY <2>1, <2>2
<1>7. Listing'
  BY <1>2, <1>3, <1>4 DEF PlaceInv, Listing
<1>8. OnceListed'
  BY <1>2 DEF PlaceInv, OnceListed
<1>9. AllGuarded'
  <2> SUFFICES ASSUME NEW b \in Blocks PROVE Guarded(b)'
    BY DEF AllGuarded
  <2>1. CASE b = h
    BY <2>1, <1>0, <1>1, <1>2, <1>3 DEF Guarded
  <2>2. CASE b # h
    <3>1. size'[b] = size[b] /\ holder'[b] = holder[b] /\ UNCHANGED <<guard, pools>>
          /\ (b \in custom => b \in custom')
      BY <2>2, <1>1, <1>2
    <3>2. holder[b] # None => holder[b] \in Threads
      BY <1>0 DEF TypeOK
    <3>3. holder[b] # None /\ call'[holder[b]].block # b => call[holder[b]].block # b
      BY <3>2, <1>0, <1>2 DEF Idle
    <3> QED
      BY <3>1, <3>3 DEF Guarded, PlaceInv, AllGuarded
  <2> QED
    BY <2>1, <2>2
<1> QED
  BY <1>5, <1>6, <1>7, <1>8, <1>9

\* A returned block goes to the list of its pool, or out of all; it was in none.
LEMMA PutPlaced ==
    ASSUME PlaceInv, NEW t \in Threads, PutInPool(t) \/ PutCustom(t)
    PROVE  PoolsKnown' /\ CallsHold' /\ Listing' /\ OnceListed' /\ AllGuarded'
<1>0. TypeOK /\ None \notin Threads /\ NoBlock \notin Blocks /\ \A m \in Sizes : m # 0
  BY MemMgrAssumption DEF PlaceInv
<1> DEFINE h == call[t].block
<1>1. /\ call[t].at = "put" /\ h \in Blocks /\ holder[h] = t /\ ~guard[h]
      /\ Undeploy(t, h) /\ UNCHANGED <<pools, guard>>
  BY <1>0 DEF PutInPool, PutCustom, TypeOK, PlaceInv, CallsHold, Idle
<1>2. PutInPool(t) => /\ PoolsFor(size[h]) # {} /\ PoolGet(size[h]) = size[h]
                      /\ pool' = [pool EXCEPT ![size[h]] = PutTail(@, h)]
                      /\ UNCHANGED <<size, custom>>
  BY DEF PutInPool
<1>3. PutCustom(t) => /\ PoolsFor(size[h]) = {} /\ size' = [size EXCEPT ![h] = 0]
                      /\ custom' = custom \ {h} /\ UNCHANGED pool
  BY DEF PutCustom
<1>4. /\ \A b \in Blocks : holder'[b] = IF b = h THEN None ELSE holder[b]
      /\ \A u \in Threads : call'[u] = IF u = t THEN Idle ELSE call[u]
  BY <1>0, <1>1 DEF Undeploy, TypeOK
<1>h. ASSUME NEW u \in Threads, u # t, call[u].at # "idle" PROVE call[u].block # h
  BY <1>0, <1>1, <1>h DEF PlaceInv, CallsHold
<1> HIDE DEF h
<1>5. CallsHold'
  <2> SUFFICES ASSUME NEW u \in Threads, call'[u].at # "idle"
               PROVE  /\ holder'[call'[u].block] = u
                      /\ call'[u].at = "put" => ~guard'[call'[u].block]
    BY DEF CallsHold
  <2>1. u # t /\ call'[u] = call[u]
    BY <1>4 DEF Idle
  <2>2. call[u].block \in Blocks /\ holder[call[u].block] = u
        /\ (call[u].at = "put" => ~guard[call[u].block])
    BY <2>1, <1>0 DEF PlaceInv, CallsHold, TypeOK, Idle
  <2> QED
    BY <2>1, <2>2, <1>1, <1>4, <1>h
<1>6. ASSUME NEW b \in Blocks, b # h, holder[b] # None, call'[holder[b]].block # b
      PROVE  call[holder[b]].block # b
  <2>1. holder[b] \in Threads
    BY <1>6, <1>0 DEF TypeOK
  <2>2. CASE holder[b] = t
    BY <2>2, <1>6 DEF h
  <2>3. CASE holder[b] # t
    BY <2>1, <2>3, <1>4, <1>6
  <2> QED
    BY <2>2, <2>3
<1>7. CASE PutInPool(t)
  <2>1. size[h] \in Nat /\ PoolsFor(size[h]) # {}
    BY <1>0, <1>1, <1>2, <1>7, MemMgrAssumption DEF TypeOK
  <2>2. size[h] \in pools /\ size[h] \in Sizes
    BY <2>1, <1>0, <1>2, <1>7, PoolGetSmallest
  <2>3. pool[size[h]] \in PoolRecords
    BY <2>2, <1>0 DEF TypeOK, PoolRecords
  <2>4. /\ pool[size[h]].free \in Seq(Blocks) /\ IsInjective(pool[size[h]].free)
        /\ h \notin ToSet(pool[size[h]].free)
    BY <2>2, <2>3, <1>0, <1>1 DEF PoolRecords, PlaceInv, OnceListed, Listing
  <2>5. \A q \in Sizes : pool'[q].free = IF q = size[h] THEN Append(pool[q].free, h)
                                         ELSE pool[q].free
    BY <2>2, <2>3, <1>0, <1>1, <1>2, <1>7, PutProperties DEF TypeOK
  <2>6. /\ IsInjective(Append(pool[size[h]].free, h))
        /\ ToSet(Append(pool[size[h]].free, h)) = ToSet(pool[size[h]].free) \cup {h}
    BY <2>4, <1>1, AppendDistinct
  <2>7. PoolsKnown'
    BY <2>2, <2>5, <1>1, <1>2, <1>7 DEF PlaceInv, PoolsKnown
  <2>8. Listing'
    <3> SUFFICES ASSUME NEW b \in Blocks, NEW q \in Sizes
                 PROVE  b \in ToSet(pool'[q].free) <=> size'[b] = q /\ holder'[b] = None
      BY DEF Listing
    <3>0. b \in ToSet(pool[q].free) <=> size[b] = q /\ holder[b] = None
      BY DEF PlaceInv, Listing
    <3>1. CASE b = h
      BY <3>0, <3>1, <2>5, <2>6, <1>0, <1>1, <1>2, <1>4, <1>7
    <3>2. CASE b # h
      BY <3>0, <3>2, <2>5, <2>6, <1>2, <1>4, <1>7
    <3> QED
      BY <3>1, <3>2
  <2>9. OnceListed'
    BY <2>5, <2>6 DEF PlaceInv, OnceListed
  <2>10. AllGuarded'
    <3> SUFFICES ASSUME NEW b \in Blocks PROVE Guarded(b)'
      BY DEF AllGuarded
    <3>1. CASE b = h
      BY <3>1, <1>1, <1>4 DEF Guarded
    <3>2. CASE b # h
      BY <3>2, <1>1, <1>2, <1>4, <1>6, <1>7 DEF Guarded, PlaceInv, AllGuarded
    <3> QED
      BY <3>1, <3>2
  <2> QED
    BY <1>5, <2>7, <2>8, <2>9, <2>10
<1>8. CASE PutCustom(t)
  <2>1. \A b \in Blocks : size'[b] = IF b = h THEN 0 ELSE size[b]
    BY <1>0, <1>1, <1>3, <1>8 DEF TypeOK
  <2>2. PoolsKnown'
    BY <2>1, <1>0, <1>1, <1>3, <1>8 DEF PlaceInv, PoolsKnown, TypeOK
  <2>3. Listing'
    BY <2>1, <1>0, <1>1, <1>3, <1>4, <1>8 DEF PlaceInv, Listing
  <2>4. OnceListed'
    BY <1>3, <1>8 DEF PlaceInv, OnceListed
  <2>5. AllGuarded'
    <3> SUFFICES ASSUME NEW b \in Blocks PROVE Guarded(b)'
      BY DEF AllGuarded
    <3>1. CASE b = h
      BY <3>1, <1>1, <1>4 DEF Guarded
    <3>2. CASE b # h
      BY <3>2, <2>1, <1>1, <1>3, <1>4, <1>6, <1>8 DEF Guarded, PlaceInv, AllGuarded
    <3> QED
      BY <3>1, <3>2
  <2> QED
    BY <1>5, <2>2, <2>3, <2>4, <2>5
<1> QED
  BY <1>7, <1>8

\* A new pool has a list of blocks that were in none, whatever clients hold.
LEMMA CreatePlaced ==
    ASSUME PlaceInv, NEW n \in Sizes, NEW i \in Nat, NEW j \in Nat, CreatePool(n, i, j)
    PROVE  PoolsKnown' /\ CallsHold' /\ Listing' /\ OnceListed' /\ AllGuarded'
<1> DEFINE seg == NewSegment(i)
<1>0. TypeOK /\ None \notin Threads /\ \A m \in Sizes : m # 0
  BY MemMgrAssumption DEF PlaceInv
<1>1. /\ seg \in Seq(Blocks) /\ IsInjective(seg) /\ ToSet(seg) \subseteq Unused
  BY <1>0, SegmentProperties
<1>2. /\ n \notin pools /\ pools' = pools \cup {n} /\ UNCHANGED <<custom, guard, holder, call>>
      /\ pool' = [pool EXCEPT ![n] = NewPool(seg, j)] /\ size' = Sized(seg, n)
  BY DEF CreatePool
<1> HIDE DEF seg
<1>3. \A q \in Sizes : pool'[q].free = IF q = n THEN seg ELSE pool[q].free
  BY <1>0, <1>1, <1>2, NewPoolProperties DEF TypeOK
<1>4. \A b \in Blocks : size'[b] = IF b \in ToSet(seg) THEN n ELSE size[b]
  BY <1>0, <1>1, <1>2, SizedProperties
<1>5. \A b \in ToSet(seg) : b \in Blocks /\ size[b] = 0 /\ holder[b] = None /\ ~guard[b]
  BY <1>1 DEF Unused, PlaceInv, AllGuarded, Guarded
<1>6. \A b \in Blocks : size[b] = n => holder[b] # None
  <2>1. pool[n].free = <<>>
    BY <1>2 DEF PlaceInv, PoolsKnown
  <2> QED
    BY <2>1 DEF PlaceInv, Listing, ToSet
<1>7. PoolsKnown'
  BY <1>0, <1>2, <1>3, <1>4 DEF PlaceInv, PoolsKnown, TypeOK
<1>8. CallsHold'
  BY <1>2 DEF PlaceInv, CallsHold
<1>9. Listing'
  <2> SUFFICES ASSUME NEW b \in Blocks, NEW q \in Sizes
               PROVE  b \in ToSet(pool'[q].free) <=> size'[b] = q /\ holder'[b] = None
    BY DEF Listing
  <2>0. b \in ToSet(pool[q].free) <=> size[b] = q /\ holder[b] = None
    BY DEF PlaceInv, Listing
  <2> QED
    BY <2>0, <1>0, <1>2, <1>3, <1>4, <1>5, <1>6
<1>10. OnceListed'
  BY <1>1, <1>3 DEF PlaceInv, OnceListed
<1>11. AllGuarded'
  <2> SUFFICES ASSUME NEW b \in Blocks PROVE Guarded(b)'
    BY DEF AllGuarded
  <2>1. CASE b \in ToSet(seg)
    BY <2>1, <1>2, <1>5 DEF Guarded
  <2>2. CASE b \notin ToSet(seg)
    BY <2>2, <1>2, <1>4 DEF Guarded, PlaceInv, AllGuarded
  <2> QED
    BY <2>1, <2>2
<1> QED
  BY <1>7, <1>8, <1>9, <1>10, <1>11

\* The steps of a client outside the lock, on the guard of the block it holds.
LEMMA GuardPlaced ==
    ASSUME PlaceInv, NEW t \in Threads,
           GuardOn(t) \/ PutRefused(t) \/ \E b \in Blocks : PutCheck(t, b)
    PROVE  PoolsKnown' /\ CallsHold' /\ Listing' /\ OnceListed' /\ AllGuarded'
<1>0. TypeOK /\ None \notin Threads /\ NoBlock \notin Blocks
  BY MemMgrAssumption DEF PlaceInv
<1>1. UNCHANGED <<pools, pool, size, custom, holder>>
  BY DEF GuardOn, PutRefused, PutCheck
<1>2. PoolsKnown' /\ Listing' /\ OnceListed'
  BY <1>1 DEF PlaceInv, PoolsKnown, Listing, OnceListed
<1>3. CASE GuardOn(t)
  <2> DEFINE h == call[t].block
  <2>1. /\ h \in Blocks /\ holder[h] = t
        /\ \A b \in Blocks : guard'[b] = IF b = h THEN TRUE ELSE guard[b]
        /\ \A u \in Threads : call'[u] = IF u = t THEN Idle ELSE call[u]
    BY <1>0, <1>3 DEF GuardOn, TypeOK, PlaceInv, CallsHold, Idle
  <2>2. ASSUME NEW b \in Blocks, b # h, holder[b] # None, call'[holder[b]].block # b
        PROVE  call[holder[b]].block # b
    BY <2>1, <2>2, <1>0 DEF TypeOK
  <2>3. CallsHold'
    <3> SUFFICES ASSUME NEW u \in Threads, call'[u].at # "idle"
                 PROVE  /\ holder'[call'[u].block] = u
                        /\ call'[u].at = "put" => ~guard'[call'[u].block]
      BY DEF CallsHold
    <3>1. u # t /\ call'[u] = call[u]
      BY <2>1 DEF Idle
    <3>2. call[u].block \in Blocks /\ holder[call[u].block] = u
          /\ (call[u].at = "put" => ~guard[call[u].block])
      BY <3>1, <1>0 DEF PlaceInv, CallsHold, TypeOK, Idle
    <3>3. call[u].block # h
      BY <3>1, <3>2, <2>1
    <3> HIDE DEF h
    <3> QED
      BY <3>1, <3>2, <3>3, <2>1, <1>1
  <2> HIDE DEF h
  <2>4. AllGuarded'
    <3> SUFFICES ASSUME NEW b \in Blocks PROVE Guarded(b)'
      BY DEF AllGuarded
    <3>1. CASE b = h
      BY <3>1, <2>1, <1>0, <1>1 DEF Guarded, PlaceInv, AllGuarded
    <3>2. CASE b # h
      BY <3>2, <2>1, <2>2, <1>1 DEF Guarded, PlaceInv, AllGuarded
    <3> QED
      BY <3>1, <3>2
  <2> QED
    BY <1>2, <2>3, <2>4
<1>4. ASSUME NEW h \in Blocks, PutCheck(t, h) PROVE CallsHold' /\ AllGuarded'
  <2>1. /\ holder[h] = t /\ call[t] = Idle
        /\ \A b \in Blocks : guard'[b] = IF b = h THEN FALSE ELSE guard[b]
        /\ \A u \in Threads : call'[u] = IF u = t THEN [at |-> "put", block |-> h] ELSE call[u]
    BY <1>0, <1>4 DEF PutCheck, TypeOK
  <2>2. ASSUME NEW b \in Blocks, b # h, holder[b] # None, call'[holder[b]].block # b
        PROVE  call[holder[b]].block # b
    BY <2>1, <2>2, <1>0 DEF TypeOK, Idle
  <2>3. CallsHold'
    <3> SUFFICES ASSUME NEW u \in Threads, call'[u].at # "idle"
                 PROVE  /\ holder'[call'[u].block] = u
                        /\ call'[u].at = "put" => ~guard'[call'[u].block]
      BY DEF CallsHold
    <3>1. CASE u = t
      <4>1. call'[u].block = h /\ holder'[h] = t
        BY <3>1, <2>1, <1>1
      <4>2. guard'[h] = FALSE
        BY <2>1
      <4> QED
        BY <3>1, <4>1, <4>2
    <3>2. CASE u # t
      <4>1. call'[u] = call[u] /\ call[u].block \in Blocks /\ holder[call[u].block] = u
            /\ (call[u].at = "put" => ~guard[call[u].block])
        BY <3>2, <2>1, <1>0 DEF PlaceInv, CallsHold, TypeOK, Idle
      <4> QED
        BY <4>1, <2>1, <1>1
    <3> QED
      BY <3>1, <3>2
  <2>4. AllGuarded'
    <3> SUFFICES ASSUME NEW b \in Blocks PROVE Guarded(b)'
      BY DEF AllGuarded
    <3>1. CASE b = h
      BY <3>1, <2>1, <1>0, <1>1 DEF Guarded, PlaceInv, AllGuarded
    <3>2. CASE b # h
      BY <3>2, <2>1, <2>2, <1>1 DEF Guarded, PlaceInv, AllGuarded
    <3> QED
      BY <3>1, <3>2
  <2> QED
    BY <2>3, <2>4
<1>5. CASE PutRefused(t)
  <2> DEFINE h == call[t].block
  <2>1. /\ call[t].at = "put" /\ h \in Blocks /\ holder[h] = t
        /\ PoolsFor(size[h]) # {} /\ PoolGet(size[h]) # size[h]
        /\ UNCHANGED guard
        /\ \A u \in Threads : call'[u] = IF u = t THEN Idle ELSE call[u]
    BY <1>0, <1>5 DEF PutRefused, TypeOK, PlaceInv, CallsHold, Idle
  <2>2. h \in custom /\ \E p \in pools : p > size[h]
    <3> HIDE DEF h
    <3>1. size[h] \in Nat /\ size[h] # 0 /\ \A p \in pools : p \in Nat
      BY <2>1, <1>0, MemMgrAssumption DEF TypeOK, PlaceInv, AllGuarded, Guarded
    <3>2. /\ PoolGet(size[h]) \in pools /\ size[h] <= PoolGet(size[h])
          /\ \A q \in pools : q >= size[h] => PoolGet(size[h]) <= q
      BY <3>1, <2>1, <1>0, PoolGetSmallest
    <3>3. PoolGet(size[h]) > size[h]
      BY <3>1, <3>2, <2>1
    <3>4. size[h] \notin pools
      BY <3>1, <3>2, <3>3
    <3>5. h \in custom
      BY <3>1, <3>4, <2>1 DEF PlaceInv, PoolsKnown
    <3> QED
      BY <3>2, <3>3, <3>5
  <2>3. CallsHold'
    BY <2>1, <1>1 DEF PlaceInv, CallsHold, Idle
  <2>4. ASSUME NEW b \in Blocks, b # h, holder[b] # None, call'[holder[b]].block # b
        PROVE  call[holder[b]].block # b
    BY <2>1, <2>4, <1>0 DEF TypeOK
  <2> HIDE DEF h
  <2>5. AllGuarded'
    <3> SUFFICES ASSUME NEW b \in Blocks PROVE Guarded(b)'
      BY DEF AllGuarded
    <3>1. CASE b = h
      BY <3>1, <2>1, <2>2, <1>0, <1>1 DEF Guarded, PlaceInv, AllGuarded
    <3>2. CASE b # h
      BY <3>2, <2>1, <2>4, <1>1 DEF Guarded, PlaceInv, AllGuarded
    <3> QED
      BY <3>1, <3>2
  <2> QED
    BY <1>2, <2>3, <2>5
<1> QED
  BY <1>2, <1>3, <1>4, <1>5

\* Every step keeps each block in its one place.
LEMMA PlaceStep == PlaceInv /\ [Next]_vars => PlaceInv'
<1> SUFFICES ASSUME PlaceInv, [Next]_vars PROVE PlaceInv'
  OBVIOUS
<1>0. TypeOK'
  BY TypeStep DEF PlaceInv
<1>1. ASSUME NEW t \in Threads, NEW n \in Sizes, GetFromPool(t, n) PROVE PlaceInv'
  BY <1>0, <1>1, GetPlaced DEF PlaceInv
<1>2. ASSUME NEW t \in Threads, NEW n \in Sizes, GetCustom(t, n) PROVE PlaceInv'
  BY <1>0, <1>2, CustomPlaced DEF PlaceInv
<1>3. ASSUME NEW t \in Threads, PutInPool(t) \/ PutCustom(t) PROVE PlaceInv'
  BY <1>0, <1>3, PutPlaced DEF PlaceInv
<1>4. ASSUME NEW t \in Threads,
             GuardOn(t) \/ PutRefused(t) \/ \E b \in Blocks : PutCheck(t, b)
      PROVE  PlaceInv'
  BY <1>0, <1>4, GuardPlaced DEF PlaceInv
<1>5. ASSUME NEW n \in Sizes, NEW i \in 0 .. MaxSegment, NEW j \in 0 .. MaxSegment,
             CreatePool(n, i, j)
      PROVE  PlaceInv'
  <2>1. i \in Nat /\ j \in Nat
    BY MemMgrAssumption
  <2> QED
    BY <1>0, <1>5, <2>1, CreatePlaced DEF PlaceInv
<1>6. ASSUME UNCHANGED <<pools, pool, size, custom, guard, holder, call>> PROVE PlaceInv'
  BY <1>0, <1>6 DEF PlaceInv, PoolsKnown, CallsHold, Listing, OnceListed, AllGuarded, Guarded
<1>7. ASSUME NEW t \in Threads, NEW n \in Sizes, GetNothing(t, n) PROVE PlaceInv'
  BY <1>6, <1>7 DEF GetNothing
<1>8. CASE UNCHANGED vars
  BY <1>6, <1>8 DEF vars
<1> QED
  BY <1>1, <1>2, <1>3, <1>4, <1>5, <1>7, <1>8 DEF Next

\* Whatever clients get and return and whatever pools are made meanwhile, a block is
\* with one holder or once in the list of the pool for its size, and its guard says
\* which.
THEOREM BlocksHaveOnePlace == Spec => []BlockInOnePlace
BY PlaceInit, PlaceStep, PlaceImplies, PTL DEF Spec

-----------------------------------------------------------------------------
(* The counters, when there are fewer blocks than they can count.          *)

\* The blocks of a pool's segments, and whether no custom block has their size.
SegmentsOf(p) == {b \in Blocks \ custom : size[b] = p}
NoneAdopted(p) == \A b \in custom : size[b] # p

\* The counters of one pool, as CountersExact has them.
Counted(p) ==
    /\ pool[p].inventory = Len(pool[p].free)
    /\ pool[p].total = Cardinality(SegmentsOf(p))
    /\ NoneAdopted(p) => /\ pool[p].total - pool[p].inventory <= pool[p].peak
                         /\ pool[p].peak <= pool[p].total

CountInv == PlaceInv /\ \A p \in pools : Counted(p)

\* Additions below 2^32 do not wrap around, and subtractions of what was added.
LEMMA NoWrap ==
    ASSUME NEW x \in Nat, x < Word
    PROVE  x % Word = x /\ (x + Word) % Word = x
<1>1. Word \in Nat \ {0}
  BY MemMgrAssumption
<1> QED
  BY <1>1

\* A list of different blocks, or a set of blocks, is shorter than the counters.
LEMMA Countable ==
    ASSUME Cardinality(Blocks) < Word
    PROVE  /\ \A q \in Seq(Blocks) : IsInjective(q) => Len(q) \in Nat /\ Len(q) < Word
           /\ \A S \in SUBSET Blocks :
                  IsFiniteSet(S) /\ Cardinality(S) \in Nat /\ Cardinality(S) < Word
<1>1. IsFiniteSet(Blocks) /\ Cardinality(Blocks) \in Nat /\ Word \in Nat
  BY MemMgrAssumption, FS_CardinalityType
<1>2. ASSUME NEW S \in SUBSET Blocks
      PROVE  IsFiniteSet(S) /\ Cardinality(S) \in Nat /\ Cardinality(S) < Word
  <2>1. IsFiniteSet(S) /\ Cardinality(S) <= Cardinality(Blocks)
    BY <1>1, FS_Subset
  <2>2. Cardinality(S) \in Nat
    BY <2>1, FS_CardinalityType
  <2> QED
    BY <2>1, <2>2, <1>1
<1>3. ASSUME NEW q \in Seq(Blocks), IsInjective(q) PROVE Len(q) \in Nat /\ Len(q) < Word
  <2>1. ToSet(q) \subseteq Blocks /\ Cardinality(ToSet(q)) = Len(q)
    BY <1>3, InjectiveLength
  <2> QED
    BY <2>1, <1>2
<1> QED
  BY <1>2, <1>3

\* The constructor's pool counts its blocks.
LEMMA CountInit == Cardinality(Blocks) < Word /\ Init => CountInv
<1> SUFFICES ASSUME Cardinality(Blocks) < Word, Init PROVE CountInv
  OBVIOUS
<1> DEFINE seg == SubSeq(SetToSeq(Blocks), 1, InitCount)
<1>1. /\ seg \in Seq(Blocks) /\ IsInjective(seg) /\ ToSet(seg) \subseteq Blocks
      /\ Cardinality(ToSet(seg)) = Len(seg)
  <2>1. /\ SetToSeq(Blocks) \in Seq(Blocks) /\ IsInjective(SetToSeq(Blocks))
        /\ Len(SetToSeq(Blocks)) = Cardinality(Blocks) /\ Cardinality(Blocks) \in Nat
    BY MemMgrAssumption, SetToSeqLists
  <2>2. InitCount \in 0 .. Len(SetToSeq(Blocks)) /\ InitCount \in Nat
    BY <2>1, MemMgrAssumption
  <2>3. seg \in Seq(Blocks) /\ IsInjective(seg)
    BY <2>1, <2>2, PrefixDistinct
  <2> HIDE DEF seg
  <2> QED
    BY <2>3, InjectiveLength
<1>2. /\ pool = [n \in Sizes |-> IF n = InitSize THEN NewPool(seg, InitCount) ELSE EmptyPool]
      /\ size = [b \in Blocks |-> IF b \in ToSet(seg) THEN InitSize ELSE 0]
      /\ pools = {InitSize} /\ custom = {}
  BY DEF Init
<1> HIDE DEF seg
<1>3. InitCount \in Nat /\ InitSize \in Sizes /\ InitSize # 0
  BY MemMgrAssumption
<1>4. Len(seg) \in Nat /\ Len(seg) < Word
  BY <1>1, Countable
<1>5. Len(seg) % Word = Len(seg)
  BY <1>4, NoWrap
<1>6. /\ pool[InitSize].free = seg /\ pool[InitSize].total = Len(seg)
      /\ pool[InitSize].inventory = Len(seg) /\ pool[InitSize].peak = 0
  BY <1>1, <1>2, <1>3, <1>5, NewPoolProperties
<1>7. SegmentsOf(InitSize) = ToSet(seg)
  BY <1>1, <1>2, <1>3 DEF SegmentsOf
<1>8. Counted(InitSize)
  BY <1>1, <1>4, <1>6, <1>7 DEF Counted
<1> QED
  BY <1>2, <1>8, PlaceInit DEF CountInv

\* A Get counts the blocks of a new segment, the delivered one down, and the peak up
\* if more are in use than ever.
LEMMA GetCounted ==
    ASSUME Cardinality(Blocks) < Word, CountInv, NEW t \in Threads, NEW n \in Sizes,
           GetFromPool(t, n), NEW q \in pools
    PROVE  Counted(q)'
<1>0. TypeOK /\ PlaceInv /\ \A m \in Sizes : m # 0
  BY MemMgrAssumption DEF CountInv, PlaceInv
<1>1. PICK p \in pools, seg \in Seq(Blocks) :
            /\ p \in Sizes /\ pool[p] \in PoolRecords
            /\ IsInjective(seg) /\ ToSet(seg) \subseteq Unused
            /\ AllocateSegment(pool[p], seg).free # <<>>
            /\ pool' = [pool EXCEPT ![p] = TakeHead(AllocateSegment(pool[p], seg))]
            /\ size' = Sized(seg, p)
  BY <1>0, GetShape
<1>2. UNCHANGED custom /\ custom \subseteq Blocks /\ q \in Sizes
  BY <1>0 DEF GetFromPool, TypeOK
<1>3. \A b \in Blocks : size'[b] = IF b \in ToSet(seg) THEN p ELSE size[b]
  BY <1>0, <1>1, SizedProperties
<1>4. \A b \in ToSet(seg) : b \in Blocks /\ size[b] = 0 /\ b \notin custom
  BY <1>0, <1>1 DEF Unused, PlaceInv, PoolsKnown
<1>5. NoneAdopted(q)' <=> NoneAdopted(q)
  BY <1>2, <1>3, <1>4 DEF NoneAdopted
<1>6. CASE q # p
  <2>1. pool'[q] = pool[q]
    BY <1>0, <1>1, <1>2, <1>6 DEF TypeOK
  <2>2. SegmentsOf(q)' = SegmentsOf(q)
    BY <1>0, <1>2, <1>3, <1>4, <1>6 DEF SegmentsOf
  <2> QED
    BY <2>1, <2>2, <1>5 DEF Counted, CountInv
<1>7. CASE q = p
  <2> DEFINE stocked == AllocateSegment(pool[p], seg)
             list == stocked.free
  <2>1. /\ list \in Seq(Blocks) /\ IsInjective(list)
        /\ ToSet(list) = ToSet(pool[p].free) \cup ToSet(seg)
    BY <1>0, <1>1, Stocked
  <2>2. /\ stocked \in PoolRecords /\ list = pool[p].free \o seg
        /\ stocked.total = (pool[p].total + Len(seg)) % Word
        /\ stocked.inventory = (pool[p].inventory + Len(seg)) % Word
        /\ stocked.peak = pool[p].peak
    BY <1>1, AllocateProperties
  <2>3. /\ pool'[p].free = Tail(list) /\ pool'[p].total = stocked.total
        /\ pool'[p].inventory = (stocked.inventory + Word - 1) % Word
        /\ LET used == (stocked.total + Word - pool'[p].inventory) % Word
           IN  pool'[p].peak = IF used > stocked.peak THEN used ELSE stocked.peak
    <3>1. pool'[p] = TakeHead(stocked)
      BY <1>0, <1>1 DEF TypeOK
    <3> QED
      BY <3>1, <2>2, <1>1, TakeProperties
  <2>4. list # <<>>
    BY <1>1
  <2> HIDE DEF stocked, list
  <2>5. /\ Tail(list) \in Seq(Blocks) /\ IsInjective(Tail(list))
        /\ Len(list) \in Nat \ {0} /\ Len(Tail(list)) = Len(list) - 1
        /\ ToSet(Tail(list)) \subseteq ToSet(list)
    BY <2>1, <2>4, TailDistinct
  <2>6. /\ pool[p].free \in Seq(Blocks) /\ IsInjective(pool[p].free)
        /\ pool[p].inventory = Len(pool[p].free) /\ pool[p].total = Cardinality(SegmentsOf(p))
        /\ pool[p].peak \in Nat
    BY <1>0, <1>1 DEF CountInv, Counted, PlaceInv, OnceListed, PoolRecords, Words
  <2>7. /\ Len(pool[p].free) \in Nat /\ Len(seg) \in Nat
        /\ Len(list) = Len(pool[p].free) + Len(seg) /\ Len(list) < Word /\ Word \in Nat
    <3>1. Len(list) < Word /\ Word \in Nat
      BY <2>1, Countable, MemMgrAssumption
    <3>2. Len(pool[p].free) \in Nat /\ Len(seg) \in Nat
      BY <2>6, <1>1, LenProperties
    <3>3. Len(list) = Len(pool[p].free) + Len(seg)
      BY <2>2, <2>6, <1>1, ConcatProperties
    <3> QED
      BY <3>1, <3>2, <3>3
  <2>8. stocked.inventory = Len(list)
    <3>1. stocked.inventory = Len(list) % Word
      BY <2>2, <2>6, <2>7
    <3> QED
      BY <3>1, <2>5, <2>7, NoWrap
  <2>9. pool'[p].inventory = Len(list) - 1
    <3>1. Len(list) - 1 \in Nat /\ Len(list) - 1 < Word /\ Len(list) + Word - 1 = (Len(list) - 1) + Word
      BY <2>5, <2>7
    <3> QED
      BY <3>1, <2>3, <2>8, NoWrap
  <2>10. SegmentsOf(p)' = SegmentsOf(p) \cup ToSet(seg) /\ SegmentsOf(p) \cap ToSet(seg) = {}
    BY <1>0, <1>1, <1>2, <1>3, <1>4 DEF SegmentsOf
  <2>11. /\ SegmentsOf(p) \subseteq Blocks /\ ToSet(seg) \subseteq Blocks
         /\ SegmentsOf(p)' \subseteq Blocks /\ Cardinality(ToSet(seg)) = Len(seg)
    BY <1>1, <1>4, InjectiveLength DEF SegmentsOf
  <2> DEFINE old == SegmentsOf(p)
             new == SegmentsOf(p)'
  <2>12. /\ Cardinality(old) \in Nat /\ Cardinality(new) \in Nat /\ Cardinality(new) < Word
         /\ Cardinality(new) = Cardinality(old) + Len(seg)
    <3> HIDE DEF old, new
    <3>1. /\ IsFiniteSet(old) /\ IsFiniteSet(new) /\ IsFiniteSet(ToSet(seg))
          /\ Cardinality(old) \in Nat /\ Cardinality(new) \in Nat /\ Cardinality(new) < Word
      BY <2>11, Countable DEF old, new
    <3>2. new = old \cup ToSet(seg) /\ old \cap ToSet(seg) = {}
      BY <2>10 DEF old, new
    <3>3. Cardinality(old \cup ToSet(seg))
            = Cardinality(old) + Cardinality(ToSet(seg)) - Cardinality(old \cap ToSet(seg))
      BY <3>1, FS_Union
    <3>4. Cardinality(old \cap ToSet(seg)) = 0
      BY <3>2, FS_EmptySet
    <3> QED
      BY <3>1, <3>2, <3>3, <3>4, <2>7, <2>11
  <2>13. stocked.total = Cardinality(new)
    BY <2>2, <2>6, <2>7, <2>12, NoWrap
  <2>14. pool'[p].total = Cardinality(new) /\ pool'[p].inventory = Len(pool'[p].free)
    BY <2>3, <2>5, <2>9, <2>13
  <2>15. ASSUME NoneAdopted(p)'
         PROVE  /\ pool'[p].total - pool'[p].inventory <= pool'[p].peak
                /\ pool'[p].peak <= pool'[p].total
    <3>1. pool[p].peak <= pool[p].total
      BY <2>15, <1>5, <1>7 DEF CountInv, Counted
    <3>2. ToSet(list) \subseteq new
      <4>1. ASSUME NEW b \in ToSet(pool[p].free) PROVE b \in SegmentsOf(p)
        <5>1. b \in Blocks /\ size[b] = p
          BY <2>6, <1>0, <1>1, InjectiveLength DEF PlaceInv, Listing
        <5> QED
          BY <5>1, <2>15, <1>5, <1>7 DEF NoneAdopted, SegmentsOf
      <4> QED
        BY <4>1, <2>1, <2>10
    <3>3. Len(list) <= Cardinality(new)
      <4> HIDE DEF old, new
      <4>1. Cardinality(ToSet(list)) = Len(list) /\ IsFiniteSet(new)
        BY <2>1, <2>11, InjectiveLength, Countable DEF new
      <4> QED
        BY <4>1, <3>2, FS_Subset
    <3> DEFINE used == Cardinality(new) - (Len(list) - 1)
    <3> HIDE DEF new, old
    <3>4. /\ used \in Nat /\ used < Word /\ used <= Cardinality(new)
          /\ Cardinality(new) + Word - (Len(list) - 1) = used + Word
      <4>1. ASSUME NEW c \in Nat, NEW l \in Nat \ {0}, l <= c, c < Word
            PROVE  /\ c - (l - 1) \in Nat /\ c - (l - 1) < Word /\ c - (l - 1) <= c
                   /\ c + Word - (l - 1) = c - (l - 1) + Word
        BY <4>1, <2>7
      <4>2. Cardinality(new) \in Nat /\ Cardinality(new) < Word
        BY <2>12
      <4> QED
        BY <4>1, <4>2, <3>3, <2>5
    <3>5. pool'[p].peak = IF used > pool[p].peak THEN used ELSE pool[p].peak
      <4> HIDE DEF used
      <4>1. (used + Word) % Word = used
        BY <3>4, NoWrap
      <4> QED
        BY <4>1, <3>4, <2>2, <2>3, <2>9, <2>13
    <3>6. pool[p].peak <= Cardinality(new)
      <4>1. pool[p].total = Cardinality(old)
        BY <2>6 DEF old
      <4>2. Cardinality(old) <= Cardinality(new)
        BY <2>7, <2>12
      <4> QED
        BY <4>1, <4>2, <3>1, <2>6, <2>12
    <3>7. pool'[p].total - pool'[p].inventory = used
      BY <2>9, <2>14
    <3> HIDE DEF used
    <3> QED
      BY <3>4, <3>5, <3>6, <3>7, <2>6, <2>14
  <2> QED
    BY <2>14, <2>15, <1>7 DEF Counted
<1> QED
  BY <1>6, <1>7

\* A returned block is counted in the inventory of its pool; a custom one was never
\* counted in a total.
LEMMA PutCounted ==
    ASSUME Cardinality(Blocks) < Word, CountInv, PlaceInv', NEW t \in Threads,
           PutInPool(t) \/ PutCustom(t), NEW q \in pools
    PROVE  Counted(q)'
<1>0. TypeOK /\ PlaceInv /\ Counted(q) /\ q \in Sizes /\ \A m \in Sizes : m # 0 /\ m \in Nat
  BY MemMgrAssumption DEF CountInv, PlaceInv, TypeOK
<1> DEFINE h == call[t].block
<1>1. call[t].at = "put" /\ h \in Blocks /\ holder[h] = t /\ size[h] # 0 /\ size[h] \in Nat
  <2>1. call[t].at = "put" /\ h \in Blocks
    BY <1>0 DEF PutInPool, PutCustom, TypeOK, Idle
  <2>2. holder[h] = t
    BY <2>1, <1>0 DEF PlaceInv, CallsHold
  <2> QED
    BY <2>1, <2>2, <1>0, MemMgrAssumption DEF PlaceInv, AllGuarded, Guarded, TypeOK
<1>2. PutInPool(t) => /\ PoolsFor(size[h]) # {} /\ PoolGet(size[h]) = size[h]
                      /\ pool' = [pool EXCEPT ![size[h]] = PutTail(@, h)]
                      /\ UNCHANGED <<size, custom>>
  BY DEF PutInPool
<1>3. PutCustom(t) => /\ PoolsFor(size[h]) = {} /\ size' = [size EXCEPT ![h] = 0]
                      /\ custom' = custom \ {h} /\ UNCHANGED pool
  BY DEF PutCustom
<1> HIDE DEF h
<1>4. CASE PutInPool(t)
  <2>1. size[h] \in Sizes
    BY <1>0, <1>1, <1>2, <1>4, PoolGetSmallest
  <2>2. NoneAdopted(q)' <=> NoneAdopted(q)
    BY <1>2, <1>4 DEF NoneAdopted
  <2>3. SegmentsOf(q)' = SegmentsOf(q)
    BY <1>2, <1>4 DEF SegmentsOf
  <2>4. CASE q # size[h]
    <3>1. pool'[q] = pool[q]
      BY <2>1, <2>4, <1>0, <1>2, <1>4 DEF TypeOK
    <3> QED
      BY <3>1, <2>2, <2>3, <1>0 DEF Counted
  <2>5. CASE q = size[h]
    <3>1. pool[q] \in PoolRecords /\ pool'[q] = PutTail(pool[q], h)
      BY <2>5, <1>0, <1>2, <1>4 DEF TypeOK, PoolRecords
    <3>2. /\ pool'[q].free = Append(pool[q].free, h) /\ pool'[q].total = pool[q].total
          /\ pool'[q].inventory = (pool[q].inventory + 1) % Word
          /\ pool'[q].peak = pool[q].peak
      BY <3>1, <1>1, PutProperties
    <3>3. /\ pool[q].free \in Seq(Blocks) /\ pool[q].inventory \in Nat
          /\ pool[q].total \in Nat /\ pool[q].peak \in Nat
      BY <3>1 DEF PoolRecords, Words
    <3>4. Len(pool'[q].free) = Len(pool[q].free) + 1 /\ Len(pool[q].free) \in Nat
      BY <3>2, <3>3, <1>1, AppendProperties, LenProperties
    <3>5. Len(pool'[q].free) \in Nat /\ Len(pool'[q].free) < Word
      <4>1. pool'[q].free \in Seq(Blocks) /\ IsInjective(pool'[q].free)
        BY <1>0, <3>2, <3>3, <1>1, AppendProperties DEF PlaceInv, OnceListed
      <4> QED
        BY <4>1, Countable
    <3>6. pool'[q].inventory = Len(pool'[q].free)
      <4>1. pool'[q].inventory = Len(pool'[q].free) % Word
        BY <3>2, <3>4, <1>0 DEF Counted
      <4> QED
        BY <4>1, <3>5, NoWrap
    <3>7. pool'[q].inventory = pool[q].inventory + 1
      BY <3>4, <3>6, <1>0 DEF Counted
    <3>8. NoneAdopted(q) => /\ pool'[q].total - pool'[q].inventory <= pool'[q].peak
                            /\ pool'[q].peak <= pool'[q].total
      BY <3>2, <3>3, <3>7, <1>0 DEF Counted
    <3> QED
      BY <3>2, <3>6, <3>8, <2>2, <2>3, <1>0 DEF Counted
  <2> QED
    BY <2>4, <2>5
<1>5. CASE PutCustom(t)
  <2>1. size[h] \notin pools
    BY <1>1, <1>3, <1>5 DEF PoolsFor
  <2>2. h \in custom
    BY <2>1, <1>0, <1>1 DEF PlaceInv, PoolsKnown
  <2>3. \A b \in Blocks : size'[b] = IF b = h THEN 0 ELSE size[b]
    BY <1>0, <1>1, <1>3, <1>5 DEF TypeOK
  <2>4. SegmentsOf(q)' = SegmentsOf(q)
    BY <2>2, <2>3, <1>0, <1>3, <1>5 DEF SegmentsOf
  <2>5. NoneAdopted(q)' <=> NoneAdopted(q)
    <3>1. size[h] # q /\ custom \subseteq Blocks
      BY <2>1, <1>0 DEF TypeOK
    <3> QED
      BY <3>1, <2>3, <1>0, <1>3, <1>5 DEF NoneAdopted
  <2> QED
    BY <2>4, <2>5, <1>0, <1>3, <1>5 DEF Counted
<1> QED
  BY <1>4, <1>5

\* A custom block is of a size that no pool counts.
LEMMA CustomCounted ==
    ASSUME CountInv, NEW t \in Threads, NEW n \in Sizes, GetCustom(t, n), NEW q \in pools
    PROVE  Counted(q)'
<1>0. TypeOK /\ Counted(q) /\ q \in Sizes /\ \A m \in Sizes : m # 0 /\ m \in Nat
  BY MemMgrAssumption DEF CountInv, PlaceInv, TypeOK
<1>1. PICK h \in Unused :
            /\ h \in Blocks /\ PoolsFor(n) = {}
            /\ size' = [size EXCEPT ![h] = n] /\ custom' = custom \cup {h}
  BY <1>0, CustomShape
<1>2. size[h] = 0 /\ \A b \in Blocks : size'[b] = IF b = h THEN n ELSE size[b]
  BY <1>0, <1>1 DEF Unused, TypeOK
<1>3. n # q /\ UNCHANGED pool
  BY <1>0, <1>1 DEF PoolsFor, GetCustom
<1>4. SegmentsOf(q)' = SegmentsOf(q)
  BY <1>0, <1>1, <1>2, <1>3 DEF SegmentsOf
<1>5. NoneAdopted(q)' <=> NoneAdopted(q)
  <2>1. custom \subseteq Blocks
    BY <1>0 DEF TypeOK
  <2> QED
    BY <2>1, <1>0, <1>1, <1>2, <1>3 DEF NoneAdopted
<1> QED
  BY <1>0, <1>3, <1>4, <1>5 DEF Counted

\* A new pool counts its first segment, and no other block is of its size but
\* custom ones.
LEMMA CreateCounted ==
    ASSUME Cardinality(Blocks) < Word, CountInv, NEW n \in Sizes, NEW i \in Nat, NEW j \in Nat,
           CreatePool(n, i, j), NEW q \in pools'
    PROVE  Counted(q)'
<1> DEFINE seg == NewSegment(i)
<1>0. TypeOK /\ PlaceInv /\ pools \subseteq Sizes /\ \A m \in Sizes : m # 0 /\ m \in Nat
  BY MemMgrAssumption DEF CountInv, PlaceInv, TypeOK
<1>1. /\ seg \in Seq(Blocks) /\ IsInjective(seg) /\ ToSet(seg) \subseteq Unused
  BY <1>0, SegmentProperties
<1>2. /\ n \notin pools /\ pools' = pools \cup {n} /\ UNCHANGED custom
      /\ pool' = [pool EXCEPT ![n] = NewPool(seg, j)] /\ size' = Sized(seg, n)
  BY DEF CreatePool
<1> HIDE DEF seg
<1>3. \A b \in Blocks : size'[b] = IF b \in ToSet(seg) THEN n ELSE size[b]
  BY <1>0, <1>1, <1>2, SizedProperties
<1>4. \A b \in ToSet(seg) : b \in Blocks /\ size[b] = 0 /\ b \notin custom
  BY <1>0, <1>1 DEF Unused, PlaceInv, PoolsKnown
<1>5. NoneAdopted(q)' <=> NoneAdopted(q)
  <2>1. custom \subseteq Blocks
    BY <1>0 DEF TypeOK
  <2> QED
    BY <2>1, <1>2, <1>3, <1>4 DEF NoneAdopted
<1>6. CASE q \in pools
  <2>1. pool'[q] = pool[q] /\ q # n
    BY <1>0, <1>2, <1>6 DEF TypeOK
  <2>2. SegmentsOf(q)' = SegmentsOf(q)
    BY <2>1, <1>0, <1>2, <1>3, <1>4, <1>6 DEF SegmentsOf
  <2> QED
    BY <2>1, <2>2, <1>5, <1>6 DEF Counted, CountInv
<1>7. CASE q = n
  <2>1. /\ pool'[n].free = seg /\ pool'[n].total = Len(seg) % Word
        /\ pool'[n].inventory = Len(seg) % Word /\ pool'[n].peak = 0
    BY <1>0, <1>1, <1>2, NewPoolProperties DEF TypeOK
  <2>2. Len(seg) \in Nat /\ Len(seg) % Word = Len(seg)
    BY <1>1, Countable, NoWrap
  <2>3. SegmentsOf(n)' = ToSet(seg)
    <3>1. ASSUME NEW b \in SegmentsOf(n)' PROVE b \in ToSet(seg)
      <4>1. b \in Blocks /\ b \notin custom /\ size'[b] = n
        BY <3>1, <1>2 DEF SegmentsOf
      <4>2. size[b] = n => size[b] \in pools
        BY <4>1, <1>0 DEF PlaceInv, PoolsKnown
      <4> QED
        BY <4>1, <4>2, <1>2, <1>3
    <3>2. ASSUME NEW b \in ToSet(seg) PROVE b \in SegmentsOf(n)'
      BY <3>2, <1>2, <1>3, <1>4 DEF SegmentsOf
    <3> QED
      BY <3>1, <3>2
  <2>4. Cardinality(ToSet(seg)) = Len(seg)
    BY <1>1, InjectiveLength
  <2> QED
    BY <2>1, <2>2, <2>3, <2>4, <1>7 DEF Counted
<1> QED
  BY <1>2, <1>6, <1>7

\* Every step keeps the counters of every pool exact.
LEMMA CountStep == Cardinality(Blocks) < Word /\ CountInv /\ [Next]_vars => CountInv'
<1> SUFFICES ASSUME Cardinality(Blocks) < Word, CountInv, [Next]_vars PROVE CountInv'
  OBVIOUS
<1>0. PlaceInv'
  BY PlaceStep DEF CountInv
<1>1. ASSUME NEW t \in Threads, NEW n \in Sizes, GetFromPool(t, n) PROVE CountInv'
  <2>1. UNCHANGED pools
    BY <1>1 DEF GetFromPool
  <2> QED
    BY <2>1, <1>0, <1>1, GetCounted DEF CountInv
<1>2. ASSUME NEW t \in Threads, NEW n \in Sizes, GetCustom(t, n) PROVE CountInv'
  <2>1. UNCHANGED pools
    BY <1>2 DEF GetCustom
  <2> QED
    BY <2>1, <1>0, <1>2, CustomCounted DEF CountInv
<1>3. ASSUME NEW t \in Threads, PutInPool(t) \/ PutCustom(t) PROVE CountInv'
  <2>1. UNCHANGED pools
    BY <1>3 DEF PutInPool, PutCustom
  <2> QED
    BY <2>1, <1>0, <1>3, PutCounted DEF CountInv
<1>4. ASSUME NEW n \in Sizes, NEW i \in 0 .. MaxSegment, NEW j \in 0 .. MaxSegment,
             CreatePool(n, i, j)
      PROVE  CountInv'
  <2>1. i \in Nat /\ j \in Nat
    BY MemMgrAssumption
  <2> QED
    BY <1>0, <1>4, <2>1, CreateCounted DEF CountInv
<1>5. ASSUME UNCHANGED <<pools, pool, size, custom>> PROVE CountInv'
  BY <1>0, <1>5 DEF CountInv, Counted, SegmentsOf, NoneAdopted
<1>6. ASSUME NEW t \in Threads,
             \/ GuardOn(t) \/ PutRefused(t)
             \/ (\E b \in Blocks : PutCheck(t, b)) \/ (\E n \in Sizes : GetNothing(t, n))
      PROVE  CountInv'
  BY <1>5, <1>6 DEF GuardOn, PutRefused, PutCheck, GetNothing
<1>7. CASE UNCHANGED vars
  BY <1>5, <1>7 DEF vars
<1> QED
  BY <1>1, <1>2, <1>3, <1>4, <1>6, <1>7 DEF Next

\* While there are fewer blocks than a counter of 32 bits can count, the inventory
\* and the total of every pool tell the truth, and so does the peak of a pool that
\* has adopted no custom block.
THEOREM CountersAreExact ==
    ASSUME Cardinality(Blocks) < Word
    PROVE  Spec => []CountersExact
<1>1. CountInv => CountersExact
  BY DEF CountInv, PlaceInv, Counted, SegmentsOf, NoneAdopted, CountersExact
<1>2. Init => CountInv
  BY CountInit
<1>3. CountInv /\ [Next]_vars => CountInv'
  BY CountStep
<1> QED
  BY <1>1, <1>2, <1>3, PTL DEF Spec

-----------------------------------------------------------------------------
(* What is deployed.                                                       *)

\* The blocks that clients hold, and their size.
Held == {b \in Blocks : holder[b] # None}
DeployInv == PlaceInv /\ deployed = Total(size, Held) % Word

\* That says what DeployedExact says.
LEMMA DeployImplies == DeployInv => DeployedExact
BY DEF DeployInv, DeployedExact, Held, Total

\* Sizes are added and subtracted in any representative of the counter.
LEMMA Discount ==
    ASSUME NEW x \in Nat, NEW n \in Nat, n < Word
    PROVE  /\ ((x % Word) + n) % Word = (n + x) % Word
           /\ (((n + x) % Word) + Word - n) % Word = x % Word
<1>1. Word \in Nat \ {0}
  BY MemMgrAssumption
<1>2. PICK q \in Int, r \in 0 .. Word - 1 : x = Word * q + r /\ x % Word = r
  <2>1. x \div Word \in Int /\ x % Word \in 0 .. Word - 1 /\ x = Word * (x \div Word) + (x % Word)
    BY <1>1
  <2> QED
    BY <2>1
<1>3. PICK p \in Int, s \in 0 .. Word - 1 : n + x = Word * p + s /\ (n + x) % Word = s
  <2>0. n + x \in Nat
    OBVIOUS
  <2>1. (n + x) \div Word \in Int /\ (n + x) % Word \in 0 .. Word - 1
        /\ n + x = Word * ((n + x) \div Word) + ((n + x) % Word)
    BY <1>1, <2>0
  <2> QED
    BY <2>1
<1>4. \A k \in Int, y \in 0 .. Word - 1 : (Word * k + y) % Word = y
  BY <1>1
<1>5. PICK a \in Int, b \in Int : a = Word * q /\ b = Word * p
  BY <1>1
<1>6. (r + n) % Word = s
  <2>1. PICK k \in Int : k = p - q
    OBVIOUS
  <2>2. Word * k = b - a
    BY <1>1, <1>5, <2>1
  <2>3. r + n = Word * k + s
    BY <1>1, <1>2, <1>3, <1>5, <2>2
  <2>4. (Word * k + s) % Word = s
    BY <1>4
  <2> QED
    BY <2>3, <2>4
<1>7. (s + Word - n) % Word = r
  <2>1. PICK k \in Int : k = q - p + 1
    OBVIOUS
  <2>2. Word * k = (a - b) + Word
    BY <1>1, <1>5, <2>1
  <2>3. s + Word - n = Word * k + r
    BY <1>1, <1>2, <1>3, <1>5, <2>2
  <2>4. (Word * k + r) % Word = r
    BY <1>4
  <2> QED
    BY <2>3, <2>4
<1> QED
  BY <1>2, <1>3, <1>6, <1>7

\* A block that becomes held counts with its size, and one returned no longer.
LEMMA HeldCount ==
    ASSUME TypeOK, NEW b \in Blocks, NEW w \in [Blocks -> Nat], NEW H \in SUBSET Blocks, b \notin H,
           \A a \in H : w[a] = size[a]
    PROVE  Total(w, H \cup {b}) = w[b] + Total(size, H) /\ Total(size, H) \in Nat
<1>1. IsFiniteSet(H) /\ IsFiniteSet(H \cup {b})
  BY MemMgrAssumption, FS_Subset, FS_AddElement
<1>2. \A a \in H \cup {b} : w[a] \in Nat
  OBVIOUS
<1>3. Total(w, H \cup {b}) = w[b] + Total(w, (H \cup {b}) \ {b})
  BY <1>1, <1>2, TotalRemove
<1>4. (H \cup {b}) \ {b} = H
  OBVIOUS
<1>5. Total(w, H) = Total(size, H)
  BY <1>1, TotalSame
<1>6. Total(w, H) \in Nat
  BY <1>1, <1>2, TotalType
<1> QED
  BY <1>3, <1>4, <1>5, <1>6

\* Sizes are numbers, and stay in one word.
LEMMA SizesFit == TypeOK => size \in [Blocks -> Nat] /\ \A b \in Blocks : size[b] < Word
BY MemMgrAssumption DEF TypeOK

\* No block is held at first.
LEMMA DeployInit == Init => DeployInv
<1> SUFFICES ASSUME Init PROVE DeployInv
  OBVIOUS
<1>1. Held = {} /\ deployed = 0
  BY DEF Init, Held
<1>2. 0 % Word = 0
  BY MemMgrAssumption
<1> QED
  BY <1>1, <1>2, PlaceInit, TotalEmpty DEF DeployInv

\* A delivery counts the block's size.
LEMMA DeliverCounts ==
    ASSUME DeployInv, TypeOK', NEW t \in Threads, NEW h \in Blocks, holder[h] = None,
           Deliver(t, h, size'[h]), \A a \in Held : size'[a] = size[a]
    PROVE  deployed' = Total(size', Held') % Word
<1>0. TypeOK /\ None \notin Threads
  BY MemMgrAssumption DEF DeployInv, PlaceInv
<1>1. Held' = Held \cup {h} /\ h \notin Held /\ Held \in SUBSET Blocks
  BY <1>0 DEF Deliver, Held, TypeOK
<1>2. PICK w : w = size'
  OBVIOUS
<1>3. w \in [Blocks -> Nat] /\ w[h] \in Nat /\ w[h] < Word
  BY <1>2, MemMgrAssumption DEF TypeOK
<1>4. \A a \in Held : w[a] = size[a]
  BY <1>2
<1>5. PICK H : H = Held
  OBVIOUS
<1>6. PICK x : x = Total(size, H)
  OBVIOUS
<1>7. Total(w, H \cup {h}) = w[h] + x /\ x \in Nat
  BY <1>0, <1>1, <1>3, <1>4, <1>5, <1>6, HeldCount
<1>8. deployed = x % Word /\ deployed' = (deployed + w[h]) % Word
  BY <1>2, <1>5, <1>6 DEF DeployInv, Deliver
<1>9. deployed' = (w[h] + x) % Word
  BY <1>3, <1>7, <1>8, Discount
<1> QED
  BY <1>1, <1>2, <1>5, <1>7, <1>9

\* What is given back was counted.
LEMMA UndeployCounts ==
    ASSUME DeployInv, NEW t \in Threads, NEW h \in Blocks, holder[h] = t,
           Undeploy(t, h), \A a \in Blocks \ {h} : size'[a] = size[a], TypeOK'
    PROVE  deployed' = Total(size', Held') % Word
<1>0. TypeOK /\ None \notin Threads
  BY MemMgrAssumption DEF DeployInv, PlaceInv
<1>1. Held = Held' \cup {h} /\ h \notin Held' /\ Held' \in SUBSET Blocks
  BY <1>0 DEF Undeploy, Held, TypeOK
<1>2. PICK w, H : w = size' /\ H = Held'
  OBVIOUS
<1>3. size[h] \in Nat /\ size[h] < Word /\ size \in [Blocks -> Nat]
  BY <1>0, SizesFit
<1>4. \A a \in H : w[a] = size[a]
  BY <1>1, <1>2
<1>5. PICK x : x = Total(size, H)
  OBVIOUS
<1>6. Total(size, H \cup {h}) = size[h] + x /\ x \in Nat
  BY <1>0, <1>1, <1>2, <1>3, <1>5, HeldCount
<1>7. IsFiniteSet(H)
  BY <1>1, <1>2, MemMgrAssumption, FS_Subset
<1>8. Total(w, H) = x
  BY <1>4, <1>5, <1>7, TotalSame
<1>9. deployed = (size[h] + x) % Word /\ deployed' = (deployed + Word - size[h]) % Word
  BY <1>1, <1>2, <1>6 DEF DeployInv, Undeploy
<1>10. deployed' = x % Word
  BY <1>3, <1>6, <1>9, Discount
<1> QED
  BY <1>2, <1>8, <1>10

\* What does not move a block, or its size, keeps the count.
LEMMA DeployStays ==
    ASSUME DeployInv, UNCHANGED <<holder, deployed>>, \A a \in Held : size'[a] = size[a]
    PROVE  deployed' = Total(size', Held') % Word
<1>1. PICK w, H : w = size' /\ H = Held
  OBVIOUS
<1>2. Held' = H /\ \A a \in H : w[a] = size[a]
  BY <1>1 DEF Held
<1>3. IsFiniteSet(H)
  BY <1>1, MemMgrAssumption, FS_Subset DEF Held
<1>4. Total(w, H) = Total(size, H)
  BY <1>2, <1>3, TotalSame
<1> QED
  BY <1>1, <1>2, <1>4 DEF DeployInv

\* Every step keeps m_DeployedSize exact.
LEMMA DeployStep == DeployInv /\ [Next]_vars => DeployInv'
<1> SUFFICES ASSUME DeployInv, [Next]_vars PROVE DeployInv'
  OBVIOUS
<1>0. PlaceInv' /\ TypeOK'
  BY PlaceStep DEF DeployInv, PlaceInv
<1> SUFFICES deployed' = Total(size', Held') % Word
  BY <1>0 DEF DeployInv
<1>1. TypeOK /\ None \notin Threads /\ \A m \in Sizes : m # 0
  BY MemMgrAssumption DEF DeployInv, PlaceInv
<1>2. \A a \in Held : size[a] # 0 /\ a \notin Unused
  BY DEF Held, Unused, DeployInv, PlaceInv, AllGuarded, Guarded
<1>3. ASSUME NEW t \in Threads, NEW n \in Sizes, GetFromPool(t, n)
      PROVE  deployed' = Total(size', Held') % Word
  <2>1. PICK p \in pools, seg \in Seq(Blocks) :
            /\ p \in Sizes /\ pool[p] \in PoolRecords
            /\ IsInjective(seg) /\ ToSet(seg) \subseteq Unused
            /\ AllocateSegment(pool[p], seg).free # <<>>
            /\ pool' = [pool EXCEPT ![p] = TakeHead(AllocateSegment(pool[p], seg))]
            /\ size' = Sized(seg, p)
            /\ Deliver(t, Head(AllocateSegment(pool[p], seg).free), p)
    BY <1>1, <1>3, GetShape
  <2>2. /\ AllocateSegment(pool[p], seg).free \in Seq(Blocks)
        /\ IsInjective(AllocateSegment(pool[p], seg).free)
        /\ ToSet(AllocateSegment(pool[p], seg).free) = ToSet(pool[p].free) \cup ToSet(seg)
    BY <2>1, Stocked DEF DeployInv
  <2>3. PICK h \in Blocks : h = Head(AllocateSegment(pool[p], seg).free) /\ h \in ToSet(pool[p].free) \cup ToSet(seg)
    BY <2>1, <2>2, TailDistinct
  <2>4. \A b \in Blocks : size'[b] = IF b \in ToSet(seg) THEN p ELSE size[b]
    BY <1>1, <2>1, SizedProperties
  <2>5. h \in ToSet(seg) => h \in Unused
    BY <2>1
  <2>6. holder[h] = None /\ size'[h] = p
    BY <2>1, <2>3, <2>4, <2>5 DEF Unused, DeployInv, PlaceInv, Listing, AllGuarded, Guarded
  <2>7. \A a \in Held : size'[a] = size[a]
    BY <1>2, <2>1, <2>4 DEF Held
  <2> QED
    BY <1>0, <2>1, <2>3, <2>6, <2>7, DeliverCounts
<1>4. ASSUME NEW t \in Threads, NEW n \in Sizes, GetCustom(t, n)
      PROVE  deployed' = Total(size', Held') % Word
  <2>1. PICK h \in Unused :
            /\ h \in Blocks /\ PoolsFor(n) = {}
            /\ size' = [size EXCEPT ![h] = n] /\ custom' = custom \cup {h}
            /\ Deliver(t, h, n)
    BY <1>1, <1>4, CustomShape
  <2>2. \A b \in Blocks : size'[b] = IF b = h THEN n ELSE size[b]
    BY <1>1, <2>1 DEF TypeOK
  <2>3. holder[h] = None /\ h \notin Held
    BY <2>1 DEF Unused, Held, DeployInv, PlaceInv, AllGuarded, Guarded
  <2>4. \A a \in Held : size'[a] = size[a]
    BY <2>2, <2>3 DEF Held
  <2> QED
    BY <1>0, <2>1, <2>2, <2>3, <2>4, DeliverCounts
<1>5. ASSUME NEW t \in Threads, PutInPool(t) \/ PutCustom(t)
      PROVE  deployed' = Total(size', Held') % Word
  <2>1. PICK h : h = call[t].block
    OBVIOUS
  <2>2. h \in Blocks /\ holder[h] = t /\ Undeploy(t, h)
    BY <1>1, <1>5, <2>1 DEF PutInPool, PutCustom, TypeOK, DeployInv, PlaceInv, CallsHold, Idle
  <2>3. \A a \in Blocks \ {h} : size'[a] = size[a]
    BY <1>1, <1>5, <2>1 DEF PutInPool, PutCustom, TypeOK
  <2> QED
    BY <1>0, <2>2, <2>3, UndeployCounts
<1>6. ASSUME NEW t \in Threads,
             \/ \E n \in Sizes : GetNothing(t, n)
             \/ GuardOn(t) \/ PutRefused(t)
             \/ \E b \in Blocks : PutCheck(t, b)
      PROVE  deployed' = Total(size', Held') % Word
  <2>1. UNCHANGED <<size, holder, deployed>>
    BY <1>6 DEF GetNothing, GuardOn, PutRefused, PutCheck
  <2> QED
    BY <2>1, DeployStays
<1>7. ASSUME NEW n \in Sizes, NEW i \in 0 .. MaxSegment, NEW j \in 0 .. MaxSegment, CreatePool(n, i, j)
      PROVE  deployed' = Total(size', Held') % Word
  <2>1. UNCHANGED <<holder, deployed>> /\ size' = Sized(NewSegment(i), n)
    BY <1>7 DEF CreatePool
  <2>2. i \in Nat
    BY MemMgrAssumption
  <2>3. PICK seg \in Seq(Blocks) : seg = NewSegment(i) /\ ToSet(seg) \subseteq Unused
    BY <1>1, <2>2, SegmentProperties
  <2>4. \A b \in Blocks : size'[b] = IF b \in ToSet(seg) THEN n ELSE size[b]
    BY <1>1, <2>1, <2>3, SizedProperties
  <2>5. \A a \in Held : size'[a] = size[a]
    BY <1>2, <2>3, <2>4 DEF Held
  <2> QED
    BY <2>1, <2>5, DeployStays
<1>8. CASE UNCHANGED vars
  BY <1>8, DeployStays DEF vars
<1> QED
  BY <1>3, <1>4, <1>5, <1>6, <1>7, <1>8 DEF Next

\* What MemBlockGet adds to m_DeployedSize and MemBlockPut takes off is at any time the
\* size of the blocks that clients hold, whatever pools adopt a block meanwhile.
THEOREM DeployedIsExact == Spec => []DeployedExact
<1>1. Init => DeployInv
  BY DeployInit
<1>2. DeployInv /\ [Next]_vars => DeployInv'
  BY DeployStep
<1>3. DeployInv => DeployedExact
  BY DeployImplies
<1> QED
  BY <1>1, <1>2, <1>3, PTL DEF Spec

-----------------------------------------------------------------------------
(* Buffer (cpBuffer.cpp), the component that takes its blocks from the     *)
(* memory manager: for any buffers, blocks and data.                       *)

\* The types of the variables; a block has as many octets as its size says.
BufferTypeOK ==
    /\ block \in [Buffers -> Buf!Blocks \cup {NoMemory}] /\ len \in [Buffers -> Nat]
    /\ DOMAIN memory = Buf!Blocks
    /\ \A k \in Buf!Blocks : memory[k] \in Seq(Buf!Octets) /\ Len(memory[k]) = Size[k]
    /\ taken \subseteq Buf!Blocks /\ loose \in Buf!Blocks \cup {NoMemory}
    /\ want \in [Buffers -> Seq(Buf!Octets)] /\ nullUsed \in BOOLEAN

\* A buffer's block begins with what the buffer was given last, ...
Holds(b) ==
    /\ Len(want[b]) = len[b]
    /\ block[b] = NoMemory => len[b] = 0
    /\ block[b] # NoMemory =>
          /\ len[b] <= Size[block[b]]
          /\ \A i \in 1 .. len[b] : want[b][i] = memory[block[b]][i]

\* ... and a block that has been taken has one owner.
OneOwner ==
    /\ \A k \in Buf!Blocks : k \in taken <=> k = loose \/ \E b \in Buffers : block[b] = k
    /\ \A b, c \in Buffers : block[b] = block[c] /\ block[b] # NoMemory => b = c
    /\ \A b \in Buffers : block[b] = loose => loose = NoMemory

BufferIInv == BufferTypeOK /\ OneOwner /\ \A b \in Buffers : Holds(b)

\* The invariant says what BufferKeepsData says.
LEMMA BufferInvariant ==
    ASSUME Buf!BufferConstants, BufferIInv PROVE Buf!BufferKeepsData
<1> USE DEF Buf!BufferConstants, Buf!Blocks
<1>1. ASSUME NEW b \in Buffers
      PROVE  IF block[b] = NoMemory THEN len[b] = 0 /\ want[b] = <<>>
             ELSE len[b] <= Size[block[b]] /\ SubSeq(memory[block[b]], 1, len[b]) = want[b]
  <2>1. CASE block[b] = NoMemory
    <3>1. want[b] \in Seq(Buf!Octets) /\ Len(want[b]) = 0
      BY <2>1 DEF BufferIInv, BufferTypeOK, Holds
    <3> QED
      BY <2>1, <3>1, EmptySeq DEF BufferIInv, Holds
  <2>2. CASE block[b] # NoMemory
    <3>1. /\ memory[block[b]] \in Seq(Buf!Octets) /\ len[b] <= Len(memory[block[b]]) /\ len[b] \in Nat
          /\ want[b] \in Seq(Buf!Octets) /\ Len(want[b]) = len[b]
          /\ \A i \in 1 .. len[b] : want[b][i] = memory[block[b]][i]
      BY <2>2 DEF BufferIInv, BufferTypeOK, Holds
    <3>2. SubSeq(memory[block[b]], 1, len[b]) = want[b]
      BY <3>1, SeqEqual, SubSeqProperties
    <3> QED
      BY <2>2, <3>2 DEF BufferIInv, Holds
  <2> QED
    BY <2>1, <2>2
<1>2. taken = (Buf!Range(block) \cup {loose}) \ {NoMemory}
  <2>1. Buf!Range(block) = {block[b] : b \in Buffers}
    BY DEF Buf!Range, BufferIInv, BufferTypeOK
  <2> QED
    BY <2>1 DEF BufferIInv, BufferTypeOK, OneOwner
<1>3. loose # NoMemory => loose \notin Buf!Range(block)
  BY DEF Buf!Range, BufferIInv, BufferTypeOK, OneOwner
<1> QED
  BY <1>1, <1>2, <1>3 DEF Buf!BufferKeepsData, BufferIInv, OneOwner

\* A cleared block has as many octets as its size says.
LEMMA ZerosFill ==
    ASSUME Buf!BufferConstants, NEW k \in Buf!Blocks
    PROVE  Buf!Zeros(k) \in Seq(Buf!Octets) /\ Len(Buf!Zeros(k)) = Size[k]
BY FunctionIsSeq DEF Buf!Zeros, Buf!Octets, Buf!BufferConstants, Buf!Blocks

\* A run begins with empty buffers.
LEMMA BufferBegins == Buf!BufferConstants /\ Buf!BufferInit => BufferIInv
<1> SUFFICES ASSUME Buf!BufferConstants, Buf!BufferInit PROVE BufferIInv
  OBVIOUS
<1> USE DEF Buf!BufferConstants, Buf!BufferInit, Buf!Blocks
<1>1. ASSUME NEW k \in Buf!Blocks
      PROVE  memory[k] \in Seq(Buf!Octets) /\ Len(memory[k]) = Size[k]
  BY <1>1, ZerosFill
<1>2. <<>> \in Seq(Buf!Octets) /\ Len(<<>>) = 0
  BY EmptySeq
<1>3. BufferTypeOK
  BY <1>1, <1>2 DEF BufferTypeOK
<1> QED
  BY <1>2, <1>3 DEF BufferIInv, OneOwner, Holds

\* What Resize asks of the memory manager is not another buffer's, nor the client's.
LEMMA DeliveredIsFree ==
    ASSUME Buf!BufferConstants, BufferIInv, NEW b \in Buffers, NEW n \in Nat,
           NEW k \in Buf!Delivered(b, n)
    PROVE  /\ k \in Buf!Blocks \cup {NoMemory}
           /\ k # NoMemory => /\ Size[k] >= n /\ k # loose
                             /\ \A c \in Buffers : block[c] = k => c = b
BY DEF Buf!Delivered, Buf!Returned, Buf!BufferConstants, Buf!Blocks, BufferIInv, BufferTypeOK, OneOwner

\* Each block has one owner also when a buffer has changed its own for a free one.
LEMMA ExchangeKeepsOwners ==
    ASSUME Buf!BufferConstants, BufferIInv, NEW b \in Buffers, NEW n \in Nat,
           NEW k, Buf!Changes(b, n, k), UNCHANGED loose
    PROVE  /\ OneOwner' /\ taken' \subseteq Buf!Blocks
           /\ block' \in [Buffers -> Buf!Blocks \cup {NoMemory}]
<1>1. /\ k \in Buf!Blocks \cup {NoMemory}
      /\ k # NoMemory => k # loose /\ \A c \in Buffers : block[c] = k => c = b
  BY DeliveredIsFree DEF Buf!Changes
<1>2. /\ block' \in [Buffers -> Buf!Blocks \cup {NoMemory}]
      /\ block'[b] = k /\ \A c \in Buffers : c # b => block'[c] = block[c]
  BY <1>1 DEF Buf!Changes, BufferIInv, BufferTypeOK
<1>3. taken' \subseteq Buf!Blocks
  BY <1>1 DEF Buf!Changes, Buf!Returned, BufferIInv, BufferTypeOK
<1>4. NoMemory \notin Buf!Blocks
  BY DEF Buf!BufferConstants, Buf!Blocks
<1>5. ASSUME NEW j \in Buf!Blocks
      PROVE  j \in taken' <=> j = loose' \/ \E c \in Buffers : block'[c] = j
  <2>1. j \in taken' <=> (j \in taken /\ j # block[b]) \/ j = k
    BY <1>4 DEF Buf!Changes, Buf!Returned
  <2>2. j \in taken <=> j = loose \/ \E c \in Buffers : block[c] = j
    BY DEF BufferIInv, OneOwner
  <2>3. j = loose => j # block[b]
    BY <1>4 DEF BufferIInv, OneOwner
  <2>4. \A c \in Buffers : block[c] = j /\ c # b => j # block[b]
    BY <1>4 DEF BufferIInv, OneOwner
  <2> QED
    BY <1>1, <1>2, <1>4, <2>1, <2>2, <2>3, <2>4
<1> QED
  BY <1>1, <1>2, <1>3, <1>5 DEF BufferIInv, OneOwner

\* A buffer that a step leaves alone holds what it held.
LEMMA OthersHold ==
    ASSUME NEW b \in Buffers, Holds(b),
           block'[b] = block[b], len'[b] = len[b], want'[b] = want[b],
           block[b] # NoMemory => memory'[block[b]] = memory[block[b]]
    PROVE  Holds(b)'
BY DEF Holds

\* Receive: what has been given is there, in the block the buffer keeps or in its new
\* one.
LEMMA ReceiveKeepsInvariant ==
    ASSUME Buf!BufferConstants, BufferIInv, NEW b \in Buffers, NEW s \in Seq(Buf!Octets),
           Buf!Receive(b, s), UNCHANGED <<loose, nullUsed>>
    PROVE  BufferIInv'
<1> USE DEF BufferIInv, BufferTypeOK, Buf!BufferConstants, Buf!Blocks
<1>0. /\ Len(s) \in Nat /\ DOMAIN s = 1 .. Len(s) /\ \A i \in 1 .. Len(s) : s[i] \in Buf!Octets
      /\ NoMemory \notin DOMAIN Size
  BY LenProperties, ElementOfSeq
<1>1. CASE /\ Buf!Keeps(b, Len(s))
           /\ memory' = [memory EXCEPT ![block[b]] =
                            [i \in DOMAIN @ |-> IF i <= Len(s) THEN s[i] ELSE @[i]]]
           /\ len' = [len EXCEPT ![b] = Len(s)] /\ want' = [want EXCEPT ![b] = s]
           /\ UNCHANGED <<block, taken>>
  <2> DEFINE k == block[b]
  <2>1. k \in Buf!Blocks /\ Len(s) <= Size[k] /\ \A c \in Buffers : c # b => block[c] # k
    BY <1>0, <1>1 DEF Buf!Keeps, Buf!Fits, OneOwner
  <2>2. DOMAIN memory[k] = 1 .. Size[k] /\ \A i \in 1 .. Size[k] : memory[k][i] \in Buf!Octets
    BY <2>1, LenProperties, ElementOfSeq
  <2>3. /\ memory'[k] = [i \in 1 .. Size[k] |-> IF i <= Len(s) THEN s[i] ELSE memory[k][i]]
        /\ DOMAIN memory' = Buf!Blocks
        /\ \A j \in Buf!Blocks : j # k => memory'[j] = memory[j]
    BY <1>1, <2>1, <2>2
  <2>4. memory'[k] \in [1 .. Size[k] -> Buf!Octets] /\ Size[k] \in Nat
    BY <1>0, <2>1, <2>2, <2>3
  <2>5. memory'[k] \in Seq(Buf!Octets) /\ Len(memory'[k]) = Size[k]
    BY <2>4, FunctionIsSeq
  <2>6. BufferTypeOK'
    BY <1>0, <1>1, <2>3, <2>5
  <2>7. Holds(b)'
    BY <1>0, <1>1, <2>1, <2>3 DEF Holds
  <2>8. \A c \in Buffers : c # b => Holds(c)'
    BY <1>1, <2>1, <2>3, OthersHold
  <2> QED
    BY <1>1, <2>6, <2>7, <2>8 DEF OneOwner
<1>2. ASSUME NEW k \in Buf!Blocks \cup {NoMemory}, NEW got,
             got = IF k = NoMemory THEN <<>> ELSE s,
             Buf!Changes(b, Len(s), k),
             memory' = [j \in Buf!Blocks |->
                IF j = k THEN [i \in 1 .. Size[j] |-> IF i <= Len(s) THEN s[i] ELSE Zero] ELSE memory[j]],
             len' = [len EXCEPT ![b] = Len(got)], want' = [want EXCEPT ![b] = got]
      PROVE  BufferIInv'
  <2>1. /\ k # NoMemory => Size[k] >= Len(s) /\ \A c \in Buffers : block[c] = k => c = b
        /\ OneOwner' /\ taken' \subseteq Buf!Blocks
        /\ block' \in [Buffers -> Buf!Blocks \cup {NoMemory}]
    BY <1>0, <1>2, DeliveredIsFree, ExchangeKeepsOwners DEF Buf!Changes
  <2>2. block' = [block EXCEPT ![b] = k]
    BY <1>2 DEF Buf!Changes
  <2>3. got \in Seq(Buf!Octets) /\ Len(got) \in Nat /\ (k = NoMemory => Len(got) = 0)
    BY <1>0, <1>2, EmptySeq
  <2>4. ASSUME k # NoMemory
        PROVE  memory'[k] \in Seq(Buf!Octets) /\ Len(memory'[k]) = Size[k]
    <3>1. memory'[k] \in [1 .. Size[k] -> Buf!Octets] /\ Size[k] \in Nat
      BY <1>0, <1>2, <2>4 DEF Buf!Octets
    <3> QED
      BY <3>1, FunctionIsSeq
  <2>5. BufferTypeOK'
    BY <1>2, <2>1, <2>3, <2>4
  <2>6. Holds(b)'
    BY <1>0, <1>2, <2>1, <2>2, <2>3 DEF Holds
  <2>7. \A c \in Buffers : c # b => Holds(c)'
    BY <1>2, <2>1, <2>2, OthersHold
  <2> QED
    BY <2>1, <2>5, <2>6, <2>7
<1> QED
  BY <1>1, <1>2 DEF Buf!Receive

LEMMA ResizeKeepsInvariant ==
    ASSUME Buf!BufferConstants, BufferIInv, NEW b \in Buffers, NEW n \in Lengths, Buf!Resize(b, n)
    PROVE  BufferIInv'
<1> USE DEF BufferIInv, BufferTypeOK, Buf!BufferConstants, Buf!Blocks
<1>1. CASE UNCHANGED <<block, len, memory, taken, want, loose, nullUsed>>
  BY <1>1 DEF OneOwner, Holds
<1>2. ASSUME NEW k \in Buf!Blocks \cup {NoMemory}, Buf!Changes(b, n, k),
             memory' = [j \in Buf!Blocks |-> IF j = k THEN Buf!Zeros(j) ELSE memory[j]],
             len' = [len EXCEPT ![b] = 0], want' = [want EXCEPT ![b] = <<>>],
             UNCHANGED <<loose, nullUsed>>
      PROVE  BufferIInv'
  <2>1. /\ k # NoMemory => \A c \in Buffers : block[c] = k => c = b
        /\ OneOwner' /\ taken' \subseteq Buf!Blocks
        /\ block' \in [Buffers -> Buf!Blocks \cup {NoMemory}]
    BY <1>2, DeliveredIsFree, ExchangeKeepsOwners DEF Buf!Changes
  <2>2. block' = [block EXCEPT ![b] = k]
    BY <1>2 DEF Buf!Changes
  <2>3. ASSUME k # NoMemory
        PROVE  memory'[k] \in Seq(Buf!Octets) /\ Len(memory'[k]) = Size[k]
    BY <1>2, <2>3, ZerosFill
  <2>4. <<>> \in Seq(Buf!Octets) /\ Len(<<>>) = 0
    BY EmptySeq
  <2>5. BufferTypeOK'
    BY <1>2, <2>1, <2>3, <2>4
  <2>6. Holds(b)'
    BY <1>2, <2>2, <2>4 DEF Holds
  <2>7. \A c \in Buffers : c # b => Holds(c)'
    BY <1>2, <2>1, <2>2, OthersHold
  <2> QED
    BY <2>1, <2>5, <2>6, <2>7
<1> QED
  BY <1>1, <1>2 DEF Buf!Resize

\* The sources of copies: arrays, strings and other buffers.
LEMMA CopiesKeepInvariant ==
    ASSUME Buf!BufferConstants, BufferIInv, NEW b \in Buffers,
           \/ \E s \in Sources : Buf!CopyIn(b, s) \/ Buf!AssignString(b, s)
           \/ \E c \in Buffers : Buf!Assign(b, c)
    PROVE  BufferIInv'
<1> USE DEF BufferIInv, BufferTypeOK, Buf!BufferConstants, Buf!Blocks
<1>1. Sources \subseteq Seq(Buf!Octets) /\ Zero \in Buf!Octets
  BY DEF Buf!Octets
<1>2. ASSUME NEW s \in Sources, Buf!CopyIn(b, s) PROVE BufferIInv'
  <2>1. CASE s = <<>>
    BY <1>2, <2>1 DEF Buf!CopyIn, OneOwner, Holds
  <2> QED
    BY <1>1, <1>2, <2>1, ReceiveKeepsInvariant DEF Buf!CopyIn
<1>3. ASSUME NEW s \in Sources, Buf!AssignString(b, s) PROVE BufferIInv'
  <2>1. PICK n \in 0 .. Len(s) : Buf!Receive(b, Append(SubSeq(s, 1, n), Zero))
    BY <1>3 DEF Buf!AssignString
  <2>2. SubSeq(s, 1, n) \in Seq(Buf!Octets)
    BY <1>1, LenProperties, ElementOfSeq, SubSeqProperties
  <2>3. Append(SubSeq(s, 1, n), Zero) \in Seq(Buf!Octets)
    BY <1>1, <2>2, AppendProperties
  <2> QED
    BY <1>3, <2>1, <2>3, ReceiveKeepsInvariant DEF Buf!AssignString
<1>4. ASSUME NEW c \in Buffers, Buf!Assign(b, c) PROVE BufferIInv'
  <2>1. ASSUME block[c] # NoMemory PROVE SubSeq(memory[block[c]], 1, len[c]) \in Seq(Buf!Octets)
    <3>1. memory[block[c]] \in Seq(Buf!Octets) /\ len[c] \in Nat /\ len[c] <= Len(memory[block[c]])
      BY <2>1 DEF Holds
    <3> QED
      BY <3>1, LenProperties, ElementOfSeq, SubSeqProperties
  <2>2. (IF block[c] = NoMemory THEN <<>> ELSE SubSeq(memory[block[c]], 1, len[c])) \in Seq(Buf!Octets)
    BY <2>1, EmptySeq
  <2> QED
    BY <1>4, <2>2, ReceiveKeepsInvariant DEF Buf!Assign
<1> QED
  BY <1>2, <1>3, <1>4

LEMMA ClearKeepsInvariant ==
    ASSUME Buf!BufferConstants, BufferIInv, NEW b \in Buffers, Buf!Clear(b)
    PROVE  BufferIInv'
<1> USE DEF BufferIInv, BufferTypeOK, Buf!BufferConstants, Buf!Blocks, Buf!Clear
<1>1. <<>> \in Seq(Buf!Octets) /\ Len(<<>>) = 0
  BY EmptySeq
<1>2. OneOwner'
  BY DEF OneOwner
<1>3. \A k \in Buf!Blocks : Buf!Zeros(k) \in Seq(Buf!Octets) /\ Len(Buf!Zeros(k)) = Size[k]
  BY ZerosFill
<1>4. BufferTypeOK'
  BY <1>1, <1>3
<1>5. Holds(b)'
  BY <1>1 DEF Holds
<1>6. \A c \in Buffers : c # b => Holds(c)'
  BY OthersHold DEF OneOwner
<1> QED
  BY <1>2, <1>4, <1>5, <1>6

\* LenSet: what the block holds beyond the data becomes data.
LEMMA LenSetKeepsInvariant ==
    ASSUME Buf!BufferConstants, BufferIInv, NEW b \in Buffers, NEW n \in Lengths, Buf!LenSet(b, n)
    PROVE  BufferIInv'
<1> USE DEF BufferIInv, BufferTypeOK, Buf!BufferConstants, Buf!Blocks
<1> DEFINE m == IF block[b] = NoMemory THEN 0 ELSE Buf!Upto(n, Size[block[b]])
           old == SubSeq(want[b], 1, Buf!Upto(m, Len(want[b])))
           new == IF m > len[b] THEN SubSeq(memory[block[b]], len[b] + 1, m) ELSE <<>>
<1>1. /\ want[b] \in Seq(Buf!Octets) /\ Len(want[b]) = len[b] /\ len[b] \in Nat /\ m \in Nat
      /\ block[b] = NoMemory => m = 0
      /\ block[b] # NoMemory =>
            /\ m <= Size[block[b]] /\ memory[block[b]] \in Seq(Buf!Octets)
            /\ Len(memory[block[b]]) = Size[block[b]]
            /\ \A i \in 1 .. len[b] : want[b][i] = memory[block[b]][i]
  BY DEF Buf!Upto, Holds
<1> DEFINE p == Buf!Upto(m, Len(want[b]))
<1>2. p \in Nat /\ p <= m /\ p <= len[b] /\ (m <= len[b] => p = m) /\ (m > len[b] => p = len[b])
  BY <1>1 DEF Buf!Upto
<1>3. /\ old \in Seq(Buf!Octets) /\ Len(old) = p /\ \A i \in 1 .. p : old[i] = want[b][i]
  <2> HIDE DEF p
  <2>1. \A i \in 1 .. p : want[b][i] \in Buf!Octets
    BY <1>1, <1>2, ElementOfSeq
  <2> QED
    BY <1>2, <2>1, SubSeqProperties DEF p
<1>4. /\ new \in Seq(Buf!Octets) /\ Len(new) = m - p
      /\ \A i \in 1 .. m - p : new[i] = memory[block[b]][p + i]
  <2> HIDE DEF p, m
  <2>1. CASE m > len[b]
    <3>1. block[b] # NoMemory /\ \A i \in len[b] + 1 .. m : memory[block[b]][i] \in Buf!Octets
      BY <1>1, <2>1, ElementOfSeq
    <3>2. new = SubSeq(memory[block[b]], len[b] + 1, m) /\ p = len[b] /\ len[b] + 1 \in Int /\ m \in Int
      BY <1>1, <1>2, <2>1
    <3> QED
      BY <1>1, <2>1, <3>1, <3>2, SubSeqProperties
  <2>2. CASE ~(m > len[b])
    BY <1>1, <1>2, <2>2, EmptySeq
  <2> QED
    BY <2>1, <2>2
<1>5. len' = [len EXCEPT ![b] = m] /\ want' = [want EXCEPT ![b] = old \o new]
  BY DEF Buf!LenSet
<1> HIDE DEF p, m, old, new
<1>6. /\ old \o new \in Seq(Buf!Octets) /\ Len(old \o new) = m
      /\ \A i \in 1 .. m : (old \o new)[i] = IF i <= p THEN old[i] ELSE new[i - p]
  <2>1. p + (m - p) = m /\ m - p \in Nat
    BY <1>1, <1>2
  <2>2. /\ old \o new \in Seq(Buf!Octets) /\ Len(old \o new) = Len(old) + Len(new)
        /\ \A i \in 1 .. Len(old) + Len(new) :
              (old \o new)[i] = IF i <= Len(old) THEN old[i] ELSE new[i - Len(old)]
    <3> HIDE DEF BufferIInv, BufferTypeOK, Buf!BufferConstants, Buf!Blocks
    <3> QED
      BY <1>3, <1>4, ConcatProperties
  <2> QED
    BY <1>3, <1>4, <2>1, <2>2
<1>7. UNCHANGED <<block, memory, taken, loose, nullUsed>> /\ len'[b] = m /\ want'[b] = old \o new
  BY <1>5 DEF Buf!LenSet
<1>8. BufferTypeOK'
  BY <1>1, <1>5, <1>6, <1>7
<1>9. OneOwner'
  BY <1>7 DEF OneOwner
<1>10. Holds(b)'
  <2>1. ASSUME NEW i \in 1 .. m PROVE (old \o new)[i] = memory[block[b]][i]
    <3>1. block[b] # NoMemory
      BY <1>1, <2>1
    <3>2. CASE i <= p
      BY <1>1, <1>2, <1>3, <1>6, <3>1, <3>2
    <3>3. CASE ~(i <= p)
      BY <1>2, <1>4, <1>6, <3>3
    <3> QED
      BY <3>2, <3>3
  <2> QED
    BY <1>1, <1>6, <1>7, <2>1 DEF Holds
<1>11. \A c \in Buffers : c # b => Holds(c)'
  BY <1>5, <1>7, OthersHold
<1> QED
  BY <1>8, <1>9, <1>10, <1>11

\* Poke: the octet a client writes is the first of one buffer's data.
LEMMA PokeKeepsInvariant ==
    ASSUME Buf!BufferConstants, BufferIInv, NEW b \in Buffers, Buf!Poke(b)
    PROVE  BufferIInv'
<1> USE DEF BufferIInv, BufferTypeOK, Buf!BufferConstants, Buf!Blocks
<1> DEFINE k == block[b]
<1>1. k \in Buf!Blocks /\ \A c \in Buffers : c # b => block[c] # k
  BY DEF Buf!Poke, OneOwner
<1>2. 1 \in 1 .. Len(memory[k]) /\ Fresh \in Buf!Octets
  <2>1. Size[k] \in Nat \ {0} /\ Len(memory[k]) = Size[k]
    BY <1>1
  <2> QED
    BY <2>1 DEF Buf!Octets
<1>3. /\ memory' = [memory EXCEPT ![k] = [@ EXCEPT ![1] = Fresh]]
      /\ want' = [want EXCEPT ![b] = IF @ = <<>> THEN @ ELSE <<Fresh>> \o Tail(@)]
      /\ UNCHANGED <<block, len, taken, loose, nullUsed>>
  BY DEF Buf!Poke
<1>4. /\ memory'[k] \in Seq(Buf!Octets) /\ Len(memory'[k]) = Size[k]
      /\ \A i \in 1 .. Size[k] : memory'[k][i] = IF i = 1 THEN Fresh ELSE memory[k][i]
      /\ \A j \in Buf!Blocks : j # k => memory'[j] = memory[j]
      /\ DOMAIN memory' = Buf!Blocks
  BY <1>1, <1>2, <1>3, ExceptSeq
<1>5. /\ want'[b] \in Seq(Buf!Octets) /\ Len(want'[b]) = len[b]
      /\ \A i \in 1 .. len[b] : want'[b][i] = IF i = 1 THEN Fresh ELSE want[b][i]
  <2>1. want[b] \in Seq(Buf!Octets) /\ Len(want[b]) = len[b] /\ len[b] \in Nat
    BY DEF Holds
  <2>2. CASE want[b] = <<>>
    BY <1>3, <2>1, <2>2, EmptySeq
  <2>3. CASE want[b] # <<>>
    <3>1. /\ Tail(want[b]) \in Seq(Buf!Octets) /\ Len(Tail(want[b])) = len[b] - 1
          /\ \A i \in 1 .. len[b] - 1 : Tail(want[b])[i] = want[b][i + 1]
      BY <2>1, <2>3, HeadTailProperties
    <3>2. want'[b] = <<Fresh>> \o Tail(want[b])
      BY <1>3, <2>3
    <3> HIDE DEF k
    <3>3. <<Fresh>> \in Seq(Buf!Octets) /\ Len(<<Fresh>>) = 1 /\ <<Fresh>>[1] = Fresh
      BY <1>2
    <3>4. /\ want'[b] \in Seq(Buf!Octets) /\ Len(want'[b]) = len[b]
          /\ \A i \in 1 .. len[b] : want'[b][i] = IF i <= 1 THEN <<Fresh>>[i] ELSE Tail(want[b])[i - 1]
      BY <2>1, <3>1, <3>2, <3>3, ConcatProperties
    <3> QED
      BY <2>1, <3>1, <3>3, <3>4
  <2> QED
    BY <2>2, <2>3
<1>6. BufferTypeOK' /\ OneOwner'
  BY <1>3, <1>4, <1>5 DEF OneOwner
<1>7. Holds(b)'
  BY <1>1, <1>3, <1>4, <1>5 DEF Holds
<1>8. \A c \in Buffers : c # b => Holds(c)'
  BY <1>1, <1>3, <1>4, OthersHold
<1> QED
  BY <1>6, <1>7, <1>8

\* The moves of blocks: from buffer to buffer, to the client and from it.
LEMMA MovesKeepInvariant ==
    ASSUME Buf!BufferConstants, BufferIInv, NEW b \in Buffers, NEW c \in Buffers,
           Buf!XferMemBlk(b, c) \/ Buf!GetMemBlk(b) \/ Buf!SetMemBlk(b)
    PROVE  BufferIInv'
<1> USE DEF BufferIInv, BufferTypeOK, Buf!BufferConstants, Buf!Blocks
<1>1. <<>> \in Seq(Buf!Octets) /\ Len(<<>>) = 0
  BY EmptySeq
<1>2. CASE Buf!XferMemBlk(b, c)
  <2> DEFINE k == IF b = c THEN NoMemory ELSE block[b]
  <2>0. /\ UNCHANGED <<memory, loose, nullUsed>> /\ taken' = taken \ {block[c]}
        /\ block'[b] = NoMemory /\ block'[c] = k
        /\ \A a \in Buffers \ {b, c} : block'[a] = block[a]
        /\ len'[b] = 0 /\ want'[b] = <<>>
        /\ b # c => len'[c] = len[b] /\ want'[c] = want[b]
        /\ NoMemory \notin DOMAIN Size
    BY <1>2 DEF Buf!XferMemBlk, Buf!Returned
  <2>1. BufferTypeOK'
    BY <1>1, <1>2 DEF Buf!XferMemBlk, Buf!Returned
  <2>2. OneOwner'
    <3>1. ASSUME NEW j \in Buf!Blocks
          PROVE  j \in taken' <=> j = loose' \/ \E a \in Buffers : block'[a] = j
      <4>1. j \in taken <=> j = loose \/ \E a \in Buffers : block[a] = j
        BY DEF OneOwner
      <4>2. CASE j = block[c]
        <5>1. j # loose /\ \A a \in Buffers : block[a] = j => a = c
          BY <2>0, <4>2 DEF OneOwner
        <5> QED
          BY <2>0, <4>2, <5>1
      <4>3. CASE j # block[c]
        BY <2>0, <4>1, <4>3
      <4> QED
        BY <4>2, <4>3
    <3>2. ASSUME NEW a \in Buffers, NEW d \in Buffers, block'[a] = block'[d], block'[a] # NoMemory
          PROVE  a = d
      <4>1. a # b /\ d # b
        BY <2>0, <3>2
      <4>2. /\ block'[a] = IF a = c THEN block[b] ELSE block[a]
            /\ block'[d] = IF d = c THEN block[b] ELSE block[d]
        BY <2>0, <4>1
      <4>3. \A x, y \in Buffers : block[x] = block[y] /\ block[x] # NoMemory => x = y
        BY DEF OneOwner
      <4> QED
        BY <3>2, <4>1, <4>2, <4>3
    <3>3. ASSUME NEW a \in Buffers, block'[a] = loose' PROVE loose' = NoMemory
      BY <2>0, <3>3 DEF OneOwner
    <3> QED
      BY <3>1, <3>2, <3>3 DEF OneOwner
  <2>3. Holds(b)' /\ Holds(c)'
    BY <1>1, <2>0 DEF Holds
  <2>4. \A a \in Buffers \ {b, c} : Holds(a)'
    BY <1>2, OthersHold DEF Buf!XferMemBlk
  <2> QED
    BY <2>1, <2>2, <2>3, <2>4
<1>3. CASE Buf!GetMemBlk(b)
  <2>1. BufferTypeOK' /\ OneOwner'
    BY <1>1, <1>3 DEF Buf!GetMemBlk, OneOwner
  <2>2. Holds(b)'
    BY <1>1, <1>3 DEF Buf!GetMemBlk, Holds
  <2>3. \A a \in Buffers \ {b} : Holds(a)'
    BY <1>3, OthersHold DEF Buf!GetMemBlk
  <2> QED
    BY <2>1, <2>2, <2>3
<1>4. CASE Buf!SetMemBlk(b)
  <2>1. BufferTypeOK' /\ OneOwner'
    BY <1>1, <1>4 DEF Buf!SetMemBlk, Buf!Returned, OneOwner
  <2>2. Holds(b)'
    BY <1>1, <1>4 DEF Buf!SetMemBlk, Holds
  <2>3. \A a \in Buffers \ {b} : Holds(a)'
    BY <1>4, OthersHold DEF Buf!SetMemBlk
  <2> QED
    BY <2>1, <2>2, <2>3
<1> QED
  BY <1>2, <1>3, <1>4

\* Whatever is given to buffers, and however their blocks move: each holds what it was
\* given last, and a block has one owner.
THEOREM BuffersKeepData ==
    ASSUME Buf!BufferConstants PROVE Buf!BufferSpec => []BufferKeepsData
<1>1. Buf!BufferInit => BufferIInv
  BY BufferBegins
<1>2. BufferIInv /\ [Buf!BufferNext]_(Buf!bufferVars) => BufferIInv'
  <2> SUFFICES ASSUME BufferIInv, [Buf!BufferNext]_(Buf!bufferVars) PROVE BufferIInv'
    OBVIOUS
  <2>1. CASE UNCHANGED Buf!bufferVars
    BY <2>1 DEF Buf!bufferVars, BufferIInv, BufferTypeOK, OneOwner, Holds
  <2>2. CASE Buf!BufferNext
    <3> PICK b \in Buffers :
           \/ \E n \in Lengths : Buf!Resize(b, n) \/ Buf!ResizeFails(b, n) \/ Buf!LenSet(b, n)
           \/ \E s \in Sources : Buf!CopyIn(b, s) \/ Buf!AssignString(b, s)
           \/ \E c \in Buffers : Buf!Assign(b, c) \/ Buf!XferMemBlk(b, c)
           \/ Buf!Clear(b) \/ Buf!Poke(b) \/ Buf!GetMemBlk(b) \/ Buf!SetMemBlk(b)
      BY <2>2 DEF Buf!BufferNext
    <3>1. ASSUME NEW n, Buf!ResizeFails(b, n) PROVE BufferIInv'
      BY <3>1 DEF Buf!ResizeFails, BufferIInv, BufferTypeOK, OneOwner, Holds
    <3> QED
      BY <3>1, ResizeKeepsInvariant, CopiesKeepInvariant, ClearKeepsInvariant, LenSetKeepsInvariant,
         PokeKeepsInvariant, MovesKeepInvariant
  <2> QED
    BY <2>1, <2>2
<1>3. BufferIInv => BufferKeepsData
  BY BufferInvariant DEF BufferKeepsData
<1> QED
  BY <1>1, <1>2, <1>3, PTL DEF Buf!BufferSpec

-----------------------------------------------------------------------------
(* Stream (cpStreamBase.cpp, cpIpcStreamSeg.cpp), whose blocks are, for a  *)
(* message, the payloads of IPC segments: for any capacity of a segment    *)
(* and any writes.                                                         *)

\* The octets of a stream, its blocks as segments, and its positions.
Values == (UNION {Str!ToSet(o) : o \in Writes}) \cup {Unknown}
SegBlocks == [octets : [1 .. Cap -> Values], frag : Nat, multi : BOOLEAN,
              initial : BOOLEAN, dlen : Nat]
Places == [blk : Nat, pos : 0 .. Cap]
Streams == [blocks : Seq(SegBlocks), cur : Places, last : Places]

\* The number of a segment is as wide as its field.
Frag(i) == i % FragLimit

\* Segments in a stream are numbered, know whether they are alone, and all but the
\* tail count as full.
Numbered(b) ==
    \A i \in 1 .. Len(b) :
        /\ b[i].frag = Frag(i)
        /\ Len(b) = 1 => b[i].multi = FALSE
        /\ Len(b) # 1 => b[i].multi = TRUE
        /\ i < Len(b) => b[i].dlen = Cap

\* Before and after Finalize.
Unsealed(b) == \A i \in 1 .. Len(b) : b[i].initial = FALSE
Sealed(b) ==
    \A i \in 1 .. Len(b) :
        /\ i = Len(b) /\ Len(b) # 1 => b[i].initial = TRUE
        /\ i # Len(b) \/ Len(b) = 1 => b[i].initial = FALSE

\* A stream of segments ends in its last one, and not before the first octet there.
Sound(s) ==
    /\ s \in Streams
    /\ Numbered(s.blocks) /\ (Unsealed(s.blocks) \/ Sealed(s.blocks))
    /\ s.cur.blk <= s.last.blk
    /\ s.blocks = <<>> => s.cur = Str!Start /\ s.last = Str!Start
    /\ s.blocks # <<>> => s.last.blk = Len(s.blocks) - 1 /\ s.last.pos > 0

\* What is in transit may be loaded: it is sealed and its tail has a length.
Loadable(t) ==
    /\ Sound(t) /\ t.blocks # <<>> /\ Sealed(t.blocks)
    /\ t.blocks[Len(t.blocks)].dlen \in 1 .. Cap

StreamIInv ==
    /\ kind = Null => transit = Null
    /\ kind = "seg" =>
           /\ Sound(st)
           /\ transit # Null => Loadable(transit)

\* The segments of such a stream are as the receiver expects.
LEMMA StreamInvariant == StreamIInv => SegmentsNumbered
<1> SUFFICES ASSUME StreamIInv, transit # Null, kind = "seg",
                    NEW i \in DOMAIN transit.blocks
             PROVE  /\ transit.blocks[i].frag = Frag(i)
                    /\ transit.blocks[i].multi = (Len(transit.blocks) > 1)
                    /\ transit.blocks[i].initial = (i = Len(transit.blocks) /\ Len(transit.blocks) > 1)
                    /\ transit.blocks[i].dlen \in (IF i < Len(transit.blocks) THEN {Cap} ELSE 1 .. Cap)
  BY DEF SegmentsNumbered, Str!SegmentsNumbered, Frag
<1>1. PICK b \in Seq(SegBlocks) : b = transit.blocks
  BY DEF StreamIInv, Loadable, Sound, Streams
<1>2. Len(b) \in Nat /\ i \in 1 .. Len(b)
  BY <1>1, LenProperties
<1>3. Numbered(b) /\ Sealed(b) /\ b[Len(b)].dlen \in 1 .. Cap
  BY <1>1 DEF StreamIInv, Loadable, Sound
<1>4. b[i].frag = Frag(i) /\ (i < Len(b) => b[i].dlen = Cap)
  BY <1>2, <1>3 DEF Numbered
<1>5. PICK n \in Nat : n = Len(b) /\ n # 0
  BY <1>2
<1>6. b[i].dlen \in (IF i < Len(b) THEN {Cap} ELSE 1 .. Cap)
  <2>1. CASE i < Len(b)
    BY <1>4, <2>1
  <2>2. CASE i = Len(b)
    <3>1. ~ (i < Len(b))
      BY <1>5, <2>2
    <3> QED
      BY <1>3, <2>2, <3>1
  <2>3. i < n \/ i = n
    BY <1>2, <1>5
  <2> QED
    BY <1>5, <2>1, <2>2, <2>3
<1>7. (n > 1) <=> (n # 1)
  BY <1>5
<1>8. b[i].multi = (Len(b) > 1)
  <2>1. CASE n = 1
    <3>1. b[i].multi = FALSE /\ (n > 1) = FALSE
      BY <1>2, <1>3, <1>5, <1>7, <2>1 DEF Numbered
    <3> QED
      BY <1>5, <3>1, Zenon
  <2>2. CASE n # 1
    <3>1. b[i].multi = TRUE /\ (n > 1) = TRUE
      BY <1>2, <1>3, <1>5, <1>7, <2>2 DEF Numbered
    <3> QED
      BY <1>5, <3>1, Zenon
  <2> QED
    BY <2>1, <2>2
<1>9. b[i].initial = (i = Len(b) /\ Len(b) > 1)
  <2>1. CASE i = n /\ n # 1
    <3>1. b[i].initial = TRUE /\ (i = n /\ n > 1) = TRUE
      BY <1>2, <1>3, <1>5, <1>7, <2>1 DEF Sealed
    <3> QED
      BY <1>5, <3>1, Zenon
  <2>2. CASE ~ (i = n /\ n # 1)
    <3>1. b[i].initial = FALSE /\ (i = n /\ n > 1) = FALSE
      BY <1>2, <1>3, <1>5, <1>7, <2>2 DEF Sealed
    <3> QED
      BY <1>5, <3>1, Zenon
  <2> QED
    BY <2>1, <2>2
<1> QED
  BY <1>1, <1>4, <1>6, <1>8, <1>9

\* Counting up: what holds of 0 and of the next number holds of all.
LEMMA CountingUp ==
    ASSUME NEW G, 0 \in G, \A i \in Nat : i \in G => i + 1 \in G
    PROVE  \A i \in Nat : i \in G
<1> DEFINE Bad == {n \in Nat : n \notin G}
<1> SUFFICES ASSUME Bad # {} PROVE FALSE
  OBVIOUS
<1>1. Bad \in SUBSET Nat
  OBVIOUS
<1>2. PICK k \in Bad : \A n \in Bad : k <= n
  <2> HIDE DEF Bad
  <2> QED
    BY <1>1, MinExists
<1>3. k \in Nat /\ k # 0
  BY <1>1, <1>2
<1>4. PICK n \in Nat : k = n + 1
  <2>1. k - 1 \in Nat /\ k = (k - 1) + 1
    BY <1>3
  <2> QED
    BY <2>1
<1>5. n \in G
  <2>1. ~ (k <= n)
    BY <1>4
  <2> QED
    BY <1>2, <2>1
<1> QED
  BY <1>2, <1>4, <1>5

LEMMA SizesArePositive ==
    ASSUME Str!StreamConstants PROVE Cap \in Nat \ {0} /\ FragLimit \in Nat \ {0}
BY DEF Str!StreamConstants

\* A segment more keeps the numbering.
LEMMA SegmentAdded ==
    ASSUME Str!StreamConstants, NEW b \in Seq(SegBlocks), Numbered(b), Unsealed(b)
    PROVE  /\ Str!AddSegment(b) \in Seq(SegBlocks)
           /\ Len(Str!AddSegment(b)) = Len(b) + 1
           /\ Numbered(Str!AddSegment(b)) /\ Unsealed(Str!AddSegment(b))
<1>0. Len(b) \in Nat /\ Cap \in Nat \ {0} /\ DOMAIN b = 1 .. Len(b)
      /\ \A i \in 1 .. Len(b) : b[i] \in SegBlocks
  BY LenProperties, ElementOfSeq, SizesArePositive
<1>f. \A n \in Nat : Frag(n) \in Nat
  BY SizesArePositive DEF Frag
<1>1. \A n \in Nat, m \in BOOLEAN :
          Str!NewBlock(Cap, n, m) \in SegBlocks
          /\ Str!NewBlock(Cap, n, m).frag = n /\ Str!NewBlock(Cap, n, m).multi = m
          /\ Str!NewBlock(Cap, n, m).initial = FALSE
  <2>1. Unknown \in Values
    BY DEF Values
  <2>5. [i \in 1 .. Cap |-> Unknown] \in [1 .. Cap -> Values]
    BY <2>1
  <2>2. PICK u \in [1 .. Cap -> Values] : u = [i \in 1 .. Cap |-> Unknown]
    BY <2>5
  <2>3. \A n \in Nat, m \in BOOLEAN :
            Str!NewBlock(Cap, n, m) = [octets |-> u, frag |-> n, multi |-> m, initial |-> FALSE, dlen |-> 0]
    BY <2>2 DEF Str!NewBlock
  <2>4. \A n \in Nat, m \in BOOLEAN :
            [octets |-> u, frag |-> n, multi |-> m, initial |-> FALSE, dlen |-> 0] \in SegBlocks
    BY <2>2 DEF SegBlocks
  <2> QED
    BY <2>3, <2>4
<1>2. CASE b = <<>>
  <2>1. PICK x \in SegBlocks : /\ x = Str!NewBlock(Cap, Frag(1), FALSE)
                               /\ x.frag = Frag(1) /\ x.multi = FALSE /\ x.initial = FALSE
    BY <1>1, <1>f
  <2>2. Str!AddSegment(b) = <<x>>
    BY <1>2, <2>1 DEF Str!AddSegment, Frag
  <2>3. PICK c : c = <<x>>
    OBVIOUS
  <2>5. c \in Seq(SegBlocks) /\ Len(c) = 1 /\ c[1] = x
    BY <2>3
  <2>6. \A i \in 1 .. Len(c) : i = 1
    BY <2>5
  <2>7. Numbered(c) /\ Unsealed(c)
    <3>1. ASSUME NEW i \in 1 .. Len(c)
          PROVE  c[i].frag = Frag(i) /\ c[i].multi = FALSE /\ c[i].initial = FALSE /\ ~ (i < Len(c))
      <4>1. i = 1
        BY <2>6
      <4>2. c[i] = x /\ ~ (i < Len(c))
        BY <2>5, <4>1
      <4> QED
        BY <2>1, <4>1, <4>2
    <3> QED
      BY <2>5, <3>1 DEF Numbered, Unsealed
  <2>4. Len(b) = 0
    BY <1>2
  <2> QED
    BY <2>2, <2>3, <2>4, <2>5, <2>7
<1>3. CASE b # <<>>
  <2>1. Len(b) >= 1
    BY <1>0, <1>3, EmptySeq
  <2> DEFINE old == IF Len(b) = 1 THEN [b EXCEPT ![1].multi = TRUE] ELSE b
             front == [old EXCEPT ![Len(old)].dlen = Cap]
             x == [Str!NewBlock(Cap, Frag(Len(b) + 1), Str!Last(old).multi)
                       EXCEPT !.initial = Str!Last(old).initial]
  <2>2. /\ old \in Seq(SegBlocks) /\ Len(old) = Len(b)
        /\ \A i \in 1 .. Len(b) : old[i].frag = Frag(i) /\ old[i].multi = TRUE
                                  /\ old[i].initial = FALSE /\ old[i].dlen = b[i].dlen
    <3>0. \A i \in 1 .. Len(b) : b[i].frag = Frag(i) /\ b[i].initial = FALSE
      BY DEF Numbered, Unsealed
    <3>1. CASE Len(b) = 1
      <4>1. PICK y \in SegBlocks : y = b[1]
        BY <1>0, <2>1
      <4>2. PICK z \in SegBlocks :
                /\ z = [y EXCEPT !.multi = TRUE]
                /\ z.frag = y.frag /\ z.multi = TRUE /\ z.initial = y.initial /\ z.dlen = y.dlen
        <5>1. [y EXCEPT !.multi = TRUE] \in SegBlocks
              /\ [y EXCEPT !.multi = TRUE].frag = y.frag
              /\ [y EXCEPT !.multi = TRUE].multi = TRUE
              /\ [y EXCEPT !.multi = TRUE].initial = y.initial
              /\ [y EXCEPT !.multi = TRUE].dlen = y.dlen
          BY DEF SegBlocks
        <5> QED
          BY <5>1
      <4>3. old = [b EXCEPT ![1] = z]
        BY <3>1, <4>1, <4>2
      <4>4. 1 \in 1 .. Len(b)
        BY <1>0, <2>1
      <4>5. /\ old \in Seq(SegBlocks) /\ Len(old) = Len(b)
            /\ \A i \in 1 .. Len(b) : old[i] = IF i = 1 THEN z ELSE b[i]
        <5>1. /\ [b EXCEPT ![1] = z] \in Seq(SegBlocks) /\ Len([b EXCEPT ![1] = z]) = Len(b)
              /\ \A i \in 1 .. Len(b) : [b EXCEPT ![1] = z][i] = IF i = 1 THEN z ELSE b[i]
          <6> HIDE DEF old
          <6> QED
            BY <4>2, <4>4, ExceptSeq
        <5> QED
          BY <4>3, <5>1
      <4> HIDE DEF old
      <4>6. \A i \in 1 .. Len(b) : i = 1 /\ old[i] = z
        BY <3>1, <4>5
      <4> QED
        BY <3>0, <4>1, <4>2, <4>4, <4>5, <4>6
    <3>2. CASE Len(b) # 1
      <4>1. old = b
        BY <3>2
      <4>2. \A i \in 1 .. Len(b) : b[i].multi = TRUE
        BY <3>2 DEF Numbered
      <4> HIDE DEF old
      <4> QED
        BY <3>0, <4>1, <4>2
    <3> QED
      BY <3>1, <3>2
  <2> HIDE DEF old
  <2>3. PICK y \in SegBlocks : y = old[Len(b)] /\ y = Str!Last(old)
    BY <1>0, <2>1, <2>2, ElementOfSeq DEF Str!Last
  <2>4. /\ front \in Seq(SegBlocks) /\ Len(front) = Len(b)
        /\ \A i \in 1 .. Len(b) : front[i].frag = Frag(i) /\ front[i].multi = TRUE
                                  /\ front[i].initial = FALSE /\ front[i].dlen = Cap
    <3>1. [y EXCEPT !.dlen = Cap] \in SegBlocks
          /\ [y EXCEPT !.dlen = Cap].frag = y.frag
          /\ [y EXCEPT !.dlen = Cap].multi = y.multi
          /\ [y EXCEPT !.dlen = Cap].initial = y.initial
          /\ [y EXCEPT !.dlen = Cap].dlen = Cap
      BY <1>0 DEF SegBlocks
    <3>2. front = [old EXCEPT ![Len(b)] = [y EXCEPT !.dlen = Cap]]
      BY <2>2, <2>3
    <3>3. \A i \in 1 .. Len(b) : i < Len(b) => old[i].dlen = Cap
      BY <2>2 DEF Numbered
    <3>4. PICK z \in SegBlocks : z = [y EXCEPT !.dlen = Cap]
                                /\ z.frag = y.frag /\ z.multi = y.multi
                                /\ z.initial = y.initial /\ z.dlen = Cap
      BY <3>1
    <3>5. Len(b) \in 1 .. Len(old)
      BY <1>0, <2>1, <2>2
    <3>6. /\ front \in Seq(SegBlocks) /\ Len(front) = Len(old)
          /\ \A i \in 1 .. Len(old) : front[i] = IF i = Len(b) THEN z ELSE old[i]
      <4>1. front = [old EXCEPT ![Len(b)] = z]
        BY <3>2, <3>4
      <4>2. /\ [old EXCEPT ![Len(b)] = z] \in Seq(SegBlocks)
            /\ Len([old EXCEPT ![Len(b)] = z]) = Len(old)
            /\ \A i \in 1 .. Len(old) :
                   [old EXCEPT ![Len(b)] = z][i] = IF i = Len(b) THEN z ELSE old[i]
        BY <2>2, <3>4, <3>5, ExceptSeq
      <4> HIDE DEF front
      <4> QED
        BY <4>1, <4>2
    <3>7. z.frag = Frag(Len(b)) /\ z.multi = TRUE /\ z.initial = FALSE
      <4>1. y.frag = Frag(Len(b)) /\ y.multi = TRUE /\ y.initial = FALSE
        BY <2>2, <2>3, <3>5
      <4> QED
        BY <3>4, <4>1
    <3>8. \A i \in 1 .. Len(b) : i # Len(b) => i < Len(b)
      <4>1. PICK n \in Nat : n = Len(b)
        BY <1>0
      <4>2. \A i \in 1 .. n : i # n => i < n
        OBVIOUS
      <4> QED
        BY <4>1, <4>2
    <3> HIDE DEF front
    <3> QED
      BY <2>2, <3>3, <3>4, <3>6, <3>7, <3>8
  <2>5. x \in SegBlocks /\ x.frag = Frag(Len(b) + 1) /\ x.multi = TRUE /\ x.initial = FALSE
    <3>1. y.multi = TRUE /\ y.initial = FALSE
      <4>1. Len(b) \in 1 .. Len(b)
        BY <1>0, <2>1
      <4> QED
        BY <2>2, <2>3, <4>1 DEF SegBlocks
    <3>2. PICK v \in SegBlocks : /\ v = Str!NewBlock(Cap, Frag(Len(b) + 1), TRUE)
                                 /\ v.frag = Frag(Len(b) + 1) /\ v.multi = TRUE
      <4>1. Frag(Len(b) + 1) \in Nat /\ TRUE \in BOOLEAN
        BY <1>0, <1>f
      <4> QED
        BY <1>1, <4>1
    <3>3. x = [v EXCEPT !.initial = FALSE]
      BY <2>3, <3>1, <3>2
    <3> QED
      BY <3>2, <3>3 DEF SegBlocks
  <2>6. Str!AddSegment(b) = Append(front, x)
    BY <1>3 DEF Str!AddSegment, old, Frag
  <2> HIDE DEF front, x
  <2>7. /\ Append(front, x) \in Seq(SegBlocks) /\ Len(Append(front, x)) = Len(b) + 1
        /\ \A i \in 1 .. Len(b) + 1 : Append(front, x)[i] = IF i = Len(b) + 1 THEN x ELSE front[i]
    BY <2>4, <2>5, AppendProperties
  <2>8. \A i \in 1 .. Len(b) + 1 : i \in 1 .. Len(b) \/ i = Len(b) + 1
    BY <1>0
  <2>9. PICK c : c = Append(front, x)
    OBVIOUS
  <2>10. Len(c) > 1 /\ Len(c) = Len(b) + 1 /\ \A i \in 1 .. Len(c) : i < Len(c) => i \in 1 .. Len(b)
    BY <1>0, <2>1, <2>7, <2>9
  <2>11. Numbered(c) /\ Unsealed(c)
    <3>1. ASSUME NEW i \in 1 .. Len(c)
          PROVE  /\ c[i].frag = Frag(i) /\ c[i].multi = TRUE /\ c[i].initial = FALSE
                 /\ i < Len(c) => c[i].dlen = Cap
      <4>1. CASE i \in 1 .. Len(b)
        <5>1. i # Len(b) + 1
          BY <1>0, <4>1
        <5>2. c[i] = front[i]
          BY <2>7, <2>9, <2>10, <5>1
        <5> QED
          BY <2>4, <4>1, <5>2
      <4>2. CASE i = Len(b) + 1
        <5>1. c[i] = x
          BY <2>7, <2>9, <2>10, <4>2
        <5>2. ~ (i < Len(c))
          BY <1>0, <2>10, <4>2
        <5> QED
          BY <2>5, <4>2, <5>1, <5>2
      <4> QED
        BY <2>8, <2>10, <4>1, <4>2
    <3>2. Len(c) # 1
      BY <2>10
    <3> QED
      BY <3>1, <3>2 DEF Numbered, Unsealed
  <2> QED
    BY <2>6, <2>7, <2>9, <2>11
<1> QED
  BY <1>2, <1>3

\* The segments that are added one after the other.
Grown(b, p, f) ==
    f = [n \in 0 .. p |-> IF n = 0 THEN b ELSE Str!AddSegment(f[n - 1])]

LEMMA SegmentsGrow ==
    ASSUME NEW b, NEW p \in Nat
    PROVE  \E f : Grown(b, p, f)
<1> DEFINE G == {m \in Nat : \E f : Grown(b, m, f)}
<1>1. 0 \in G
  <2>1. Grown(b, 0, [n \in 0 .. 0 |-> b])
    BY DEF Grown
  <2> QED
    BY <2>1
<1>2. ASSUME NEW m \in Nat, m \in G PROVE m + 1 \in G
  <2>1. PICK f : Grown(b, m, f)
    BY <1>2
  <2>2. PICK g : g = [n \in 0 .. m + 1 |-> IF n <= m THEN f[n] ELSE Str!AddSegment(f[m])]
    OBVIOUS
  <2>3. ASSUME NEW n \in 0 .. m + 1
        PROVE  g[n] = IF n = 0 THEN b ELSE Str!AddSegment(g[n - 1])
    <3>1. CASE n <= m
      <4>1. n \in 0 .. m /\ (n # 0 => n - 1 \in 0 .. m /\ n - 1 <= m /\ n - 1 \in 0 .. m + 1)
        BY <3>1
      <4>2. f[n] = IF n = 0 THEN b ELSE Str!AddSegment(f[n - 1])
        BY <2>1, <4>1 DEF Grown
      <4> QED
        BY <2>2, <3>1, <4>1, <4>2
    <3>2. CASE n = m + 1
      <4>1. n # 0 /\ n - 1 = m /\ m \in 0 .. m + 1 /\ m <= m /\ ~ (m + 1 <= m)
        BY <3>2
      <4> QED
        BY <2>2, <3>2, <4>1
    <3> QED
      BY <3>1, <3>2
  <2>4. Grown(b, m + 1, g)
    BY <2>2, <2>3 DEF Grown
  <2> QED
    BY <2>4
<1> HIDE DEF G
<1>3. p \in G
  BY <1>1, <1>2, CountingUp
<1> QED
  BY <1>3 DEF G

\* As many whole parts as a size needs, rounded up.
LEMMA RoundedUp ==
    ASSUME NEW room \in Nat \ {0}, NEW c \in Nat \ {0}
    PROVE  /\ (room + c - 1) \div c \in Nat \ {0}
           /\ c * ((room + c - 1) \div c) - c < room
<1> DEFINE a == room + c - 1
           q == a \div c
<1>1. a \in Nat
  OBVIOUS
<1>2. q \in Int /\ c * q <= a /\ a < c * q + c
  <2> HIDE DEF a
  <2> QED
    BY <1>1
<1>3. q >= 1
  <2> SUFFICES ASSUME q <= 0 PROVE FALSE
    BY <1>2
  <2>1. q \in Int /\ q <= 0
    BY <1>2
  <2>2. c * q <= 0
    <3> HIDE DEF q
    <3> QED
      BY <2>1
  <2>3. PICK r \in Int : r = c * q
    BY <1>2
  <2>4. a < r + c /\ r <= 0
    BY <1>2, <2>2, <2>3
  <2> QED
    BY <2>4
<1> QED
  BY <1>2, <1>3

\* MemoryAdd of a stream of segments: at least one, and without the last of them
\* the size had no room.
LEMMA SegmentsAdded ==
    ASSUME Str!StreamConstants, NEW b \in Seq(SegBlocks), Numbered(b), Unsealed(b),
           NEW s, s.blocks = b, NEW room \in Nat \ {0}
    PROVE  \E c \in Seq(SegBlocks), n \in Nat \ {0} :
               /\ Str!SegMemoryAdd(s, room) = [s EXCEPT !.blocks = c]
               /\ Numbered(c) /\ Unsealed(c)
               /\ Len(c) = Len(b) + n /\ Cap * n - Cap < room
<1> DEFINE needed == (room + Cap - 1) \div Cap
           grown[i \in 0 .. needed] == IF i = 0 THEN s.blocks ELSE Str!AddSegment(grown[i - 1])
<1>0. Cap \in Nat \ {0} /\ Len(b) \in Nat
  BY LenProperties DEF Str!StreamConstants
<1>1. needed \in Nat \ {0} /\ Cap * needed - Cap < room
  BY <1>0, RoundedUp
<1>2. PICK p \in Nat \ {0} : p = needed
  BY <1>1
<1>3. Str!SegMemoryAdd(s, room) = [s EXCEPT !.blocks = grown[p]]
  BY <1>2 DEF Str!SegMemoryAdd
<1> HIDE DEF needed
<1>4. grown = [i \in 0 .. needed |-> IF i = 0 THEN s.blocks ELSE Str!AddSegment(grown[i - 1])]
  <2>1. needed \in Nat
    BY <1>2
  <2>2. PICK f : Grown(s.blocks, needed, f)
    BY <2>1, SegmentsGrow
  <2>3. f = [i \in 0 .. needed |-> IF i = 0 THEN s.blocks ELSE Str!AddSegment(f[i - 1])]
    BY <2>2 DEF Grown
  <2> QED
    BY <2>3
<1>5. PICK f : f = grown
  OBVIOUS
<1> HIDE DEF grown
<1>6. f[0] = b /\ \A i \in 1 .. p : f[i] = Str!AddSegment(f[i - 1])
  <2>1. f = [i \in 0 .. p |-> IF i = 0 THEN b ELSE Str!AddSegment(f[i - 1])]
    BY <1>2, <1>4, <1>5
  <2>2. 0 \in 0 .. p /\ \A i \in 1 .. p : i \in 0 .. p /\ i # 0
    OBVIOUS
  <2> QED
    BY <2>1, <2>2
<1> DEFINE Good(i) == /\ f[i] \in Seq(SegBlocks) /\ Numbered(f[i]) /\ Unsealed(f[i])
                      /\ Len(f[i]) = Len(b) + i
           G == {i \in Nat : i <= p => Good(i)}
<1>7. 0 \in G
  BY <1>0, <1>6
<1>8. ASSUME NEW i \in Nat, i \in G PROVE i + 1 \in G
  <2> SUFFICES ASSUME i + 1 <= p PROVE Good(i + 1)
    OBVIOUS
  <2>1. Good(i)
    BY <1>8
  <2>2. PICK c \in Seq(SegBlocks) : c = f[i] /\ Numbered(c) /\ Unsealed(c) /\ Len(c) = Len(b) + i
    BY <2>1
  <2>3. f[i + 1] = Str!AddSegment(c)
    <3>1. i + 1 \in 1 .. p /\ (i + 1) - 1 = i
      OBVIOUS
    <3> QED
      BY <1>6, <2>2, <3>1
  <2>4. /\ Str!AddSegment(c) \in Seq(SegBlocks)
        /\ Len(Str!AddSegment(c)) = Len(c) + 1
        /\ Numbered(Str!AddSegment(c)) /\ Unsealed(Str!AddSegment(c))
    BY <2>2, SegmentAdded
  <2> QED
    BY <1>0, <2>2, <2>3, <2>4
<1>9. Good(p)
  <2>1. \A i \in Nat : i \in G
    <3> HIDE DEF G
    <3> QED
      BY <1>7, <1>8, CountingUp
  <2> QED
    BY <2>1
<1> QED
  BY <1>1, <1>2, <1>3, <1>5, <1>9

LEMMA SmallerOfTwo ==
    ASSUME NEW a \in Int, NEW b \in Int
    PROVE  Str!Min({a, b}) \in {a, b} /\ Str!Min({a, b}) <= a /\ Str!Min({a, b}) <= b
<1>1. \E x \in {a, b} : \A y \in {a, b} : x <= y
  <2>1. CASE a <= b
    BY <2>1
  <2>2. CASE b <= a
    BY <2>2
  <2> QED
    BY <2>1, <2>2
<1> QED
  BY <1>1 DEF Str!Min

\* A segment that gets other octets keeps its place among the others.
LEMMA OctetsReplaced ==
    ASSUME NEW b \in Seq(SegBlocks), Numbered(b), Unsealed(b),
           NEW i \in 1 .. Len(b), NEW x \in SegBlocks,
           x.frag = b[i].frag, x.multi = b[i].multi, x.initial = b[i].initial, x.dlen = b[i].dlen
    PROVE  /\ [b EXCEPT ![i] = x] \in Seq(SegBlocks) /\ Len([b EXCEPT ![i] = x]) = Len(b)
           /\ Numbered([b EXCEPT ![i] = x]) /\ Unsealed([b EXCEPT ![i] = x])
<1>1. PICK c : c = [b EXCEPT ![i] = x]
  OBVIOUS
<1>2. /\ c \in Seq(SegBlocks) /\ Len(c) = Len(b)
      /\ \A j \in 1 .. Len(b) : c[j] = IF j = i THEN x ELSE b[j]
  <2>1. /\ [b EXCEPT ![i] = x] \in Seq(SegBlocks)
        /\ Len([b EXCEPT ![i] = x]) = Len(b)
        /\ \A j \in 1 .. Len(b) : [b EXCEPT ![i] = x][j] = IF j = i THEN x ELSE b[j]
    BY ExceptSeq
  <2> QED
    BY <1>1, <2>1
<1>3. \A j \in 1 .. Len(b) : c[j].frag = b[j].frag /\ c[j].multi = b[j].multi
                             /\ c[j].initial = b[j].initial /\ c[j].dlen = b[j].dlen
  BY <1>2
<1>4. Numbered(c) /\ Unsealed(c)
  BY <1>2, <1>3 DEF Numbered, Unsealed
<1> QED
  BY <1>1, <1>2, <1>4

\* The octets of a segment after some were written to it.
LEMMA OctetsOfSegment ==
    ASSUME NEW x \in SegBlocks, NEW v \in [1 .. Cap -> Values]
    PROVE  /\ [x EXCEPT !.octets = v] \in SegBlocks
           /\ [x EXCEPT !.octets = v].frag = x.frag
           /\ [x EXCEPT !.octets = v].multi = x.multi
           /\ [x EXCEPT !.octets = v].initial = x.initial
           /\ [x EXCEPT !.octets = v].dlen = x.dlen
BY DEF SegBlocks

\* In the write loop: the current position is in a segment, and either no segment
\* was added, or what is left reaches into the last one.
InLoop(w, p) ==
    /\ w \in [st : Streams, left : Seq(Values)]
    /\ Numbered(w.st.blocks) /\ Unsealed(w.st.blocks)
    /\ w.st.last = p /\ p.blk < Len(w.st.blocks) /\ w.st.cur.blk < Len(w.st.blocks)
    /\ \/ (Len(w.st.blocks) = p.blk + 1 /\ p.pos > 0)
       \/ Cap * Len(w.st.blocks) - Cap < Cap * w.st.cur.blk + w.st.cur.pos + Len(w.left)

\* What is left decreases, but when the position moves to the next segment.
Effort(w) == 2 * Len(w.left) + (IF w.st.cur.pos = Cap THEN 1 ELSE 0)

LEMMA PassWrites ==
    ASSUME Str!StreamConstants, kind = "seg", NEW p, NEW w, InLoop(w, p),
           w.left # <<>>, w.st.cur.pos < Cap
    PROVE  /\ InLoop(Str!WritePass(w), p)
           /\ Effort(Str!WritePass(w)) < Effort(w)
<1>0. Cap \in Nat \ {0}
  BY DEF Str!StreamConstants
<1>1. PICK b \in Seq(SegBlocks), i \in Nat, j \in 0 .. Cap, l \in Places :
          w.st = [blocks |-> b, cur |-> [blk |-> i, pos |-> j], last |-> l]
  BY DEF InLoop, Streams, Places
<1>2. PICK o \in Seq(Values) : o = w.left /\ o # <<>>
  BY DEF InLoop
<1>3. PICK s \in Streams : s = w.st /\ s = [blocks |-> b, cur |-> [blk |-> i, pos |-> j], last |-> l]
  BY <1>1 DEF InLoop
<1>4. PICK k \in Nat \ {0} : k = Len(o)
  BY <1>2, EmptySeq, LenProperties
<1>5. j < Cap /\ i < Len(b) /\ l = p /\ Len(b) \in Nat
  BY <1>1, LenProperties DEF InLoop
<1>6. i + 1 \in 1 .. Len(b)
  BY <1>5
<1>7. PICK x \in SegBlocks : x = b[i + 1]
  BY <1>6, ElementOfSeq
<1>8. PICK n \in Nat \ {0} : n = Str!Min({Cap - j, Len(o)}) /\ n <= Cap - j /\ n <= k
  <2>1. PICK d \in Nat \ {0} : d = Cap - j
    BY <1>0, <1>5
  <2>2. Str!Min({d, k}) \in {d, k} /\ Str!Min({d, k}) <= d /\ Str!Min({d, k}) <= k
    <3>1. d \in Int /\ k \in Int
      OBVIOUS
    <3> QED
      BY <3>1, SmallerOfTwo
  <2>3. PICK n \in Nat \ {0} : n = Str!Min({d, k}) /\ n <= d /\ n <= k
    BY <2>2
  <2> QED
    BY <1>4, <2>1, <2>3
<1> DEFINE Octet(m, old) == IF m - j \in 1 .. n THEN o[m - j] ELSE old
<1>9. PICK v \in [1 .. Cap -> Values] : v = [m \in DOMAIN x.octets |-> Octet(m, x.octets[m])]
  <2>1. x.octets \in [1 .. Cap -> Values]
    BY DEF SegBlocks
  <2>2. \A m \in 1 .. n : o[m] \in Values
    BY <1>4, <1>8, ElementOfSeq
  <2>3. [m \in DOMAIN x.octets |-> Octet(m, x.octets[m])] \in [1 .. Cap -> Values]
    BY <2>1, <2>2
  <2> QED
    BY <2>3
<1>10. PICK y \in SegBlocks : /\ y = [x EXCEPT !.octets = v] /\ y.frag = x.frag /\ y.multi = x.multi
                              /\ y.initial = x.initial /\ y.dlen = x.dlen
  BY OctetsOfSegment
<1>11. PICK c \in Seq(SegBlocks) :
           c = [b EXCEPT ![i + 1] = y] /\ Len(c) = Len(b) /\ Numbered(c) /\ Unsealed(c)
  <2>1. Numbered(b) /\ Unsealed(b)
    BY <1>1 DEF InLoop
  <2> QED
    BY <1>6, <1>7, <1>10, <2>1, OctetsReplaced
<1>12. PICK q \in Seq(Values) : q = SubSeq(o, n + 1, Len(o)) /\ Len(q) = k - n
  <2>1. n + 1 \in 1 .. Len(o) + 1 /\ Len(o) \in 0 .. Len(o)
    BY <1>4, <1>8
  <2> QED
    <3>1. n + 1 \in Int /\ Len(o) \in Int /\ \A m \in n + 1 .. Len(o) : o[m] \in Values
      <4>1. \A m \in n + 1 .. k : m \in 1 .. k
        OBVIOUS
      <4>2. \A m \in 1 .. k : o[m] \in Values
        BY <1>4, ElementOfSeq
      <4> QED
        BY <1>4, <4>1, <4>2
    <3>2. SubSeq(o, n + 1, Len(o)) \in Seq(Values)
          /\ Len(SubSeq(o, n + 1, Len(o))) = IF n + 1 <= Len(o) THEN Len(o) - (n + 1) + 1 ELSE 0
      BY <3>1, SubSeqProperties
    <3>3. (IF n + 1 <= k THEN k - (n + 1) + 1 ELSE 0) = k - n
      BY <1>8
    <3> QED
      BY <1>4, <3>2, <3>3
<1>13. PICK t \in Streams : t = [blocks |-> c, cur |-> [blk |-> i, pos |-> j + n], last |-> l]
  <2>1. j + n \in 0 .. Cap
    BY <1>0, <1>8
  <2> QED
    BY <2>1 DEF Streams, Places
<1>14. Str!WritePass(w) = [st |-> t, left |-> q]
  <2>1. Str!BlockSize(kind, s, s.cur.blk) = Cap
    BY DEF Str!BlockSize
  <2>2. s.cur.pos = j /\ s.cur.blk = i /\ s.blocks = b
    BY <1>3
  <2>3. Str!ValidBlock(s, s.cur.blk)
    BY <1>5, <2>2 DEF Str!ValidBlock
  <2>4. [s EXCEPT !.blocks[s.cur.blk + 1].octets = [m \in DOMAIN @ |-> Octet(m, @[m])],
                  !.cur.pos = @ + n] = t
    <3>1. PICK f : f = [m \in DOMAIN s.blocks[s.cur.blk + 1].octets |->
                            Octet(m, s.blocks[s.cur.blk + 1].octets[m])]
      OBVIOUS
    <3>2. f = v
      BY <1>7, <1>9, <2>2, <3>1
    <3>3. [s EXCEPT !.blocks[s.cur.blk + 1].octets = [m \in DOMAIN @ |-> Octet(m, @[m])],
                    !.cur.pos = @ + n]
          = [s EXCEPT !.blocks[s.cur.blk + 1].octets = f, !.cur.pos = j + n]
      <4> HIDE DEF Octet
      <4> QED
        BY <2>2, <3>1
    <3>4. [s EXCEPT !.blocks[i + 1].octets = v, !.cur.pos = j + n]
          = [s EXCEPT !.blocks = [b EXCEPT ![i + 1] = [b[i + 1] EXCEPT !.octets = v]],
                      !.cur = [[blk |-> i, pos |-> j] EXCEPT !.pos = j + n]]
      BY <1>3
    <3>5. [b EXCEPT ![i + 1] = [b[i + 1] EXCEPT !.octets = v]] = c
      BY <1>7, <1>10, <1>11
    <3>6. [[blk |-> i, pos |-> j] EXCEPT !.pos = j + n] = [blk |-> i, pos |-> j + n]
      OBVIOUS
    <3>7. [s EXCEPT !.blocks = c, !.cur = [blk |-> i, pos |-> j + n]] = t
      <4>1. PICK a : a = [blk |-> i, pos |-> j]
        OBVIOUS
      <4>2. PICK e : e = [blk |-> i, pos |-> j + n]
        OBVIOUS
      <4>3. [s EXCEPT !.blocks = c] = [blocks |-> c, cur |-> a, last |-> l]
        <5>1. s = [blocks |-> b, cur |-> a, last |-> l]
          BY <1>3, <4>1, Zenon
        <5> QED
          BY <5>1
      <4>4. [[s EXCEPT !.blocks = c] EXCEPT !.cur = e]
            = [blocks |-> c, cur |-> e, last |-> l]
        <5>1. PICK q1 : q1 = [s EXCEPT !.blocks = c]
          OBVIOUS
        <5>2. q1 = [blocks |-> c, cur |-> a, last |-> l]
          BY <4>3, <5>1
        <5>3. [q1 EXCEPT !.cur = e] = [blocks |-> c, cur |-> e, last |-> l]
          BY <5>2, SMTT(30)
        <5> QED
          BY <5>1, <5>3
      <4>5. [s EXCEPT !.blocks = c, !.cur = e] = [[s EXCEPT !.blocks = c] EXCEPT !.cur = e]
        OBVIOUS
      <4> QED
        BY <1>13, <4>2, <4>4, <4>5
    <3> QED
      BY <2>2, <3>2, <3>3, <3>4, <3>5, <3>6, <3>7
  <2> QED
    BY <1>2, <1>3, <1>5, <1>8, <1>12, <2>1, <2>2, <2>3, <2>4 DEF Str!WritePass
<1>15. PICK z : z = Str!WritePass(w) /\ z.st = t /\ z.left = q
  BY <1>14
<1>16. InLoop(z, p)
  <2>1. t.blocks = c /\ t.cur.blk = i /\ t.cur.pos = j + n /\ t.last = l
    BY <1>13
  <2>2. \/ (Len(b) = p.blk + 1 /\ p.pos > 0)
        \/ Cap * Len(b) - Cap < Cap * i + j + k
    BY <1>1, <1>2, <1>4 DEF InLoop
  <2>3. p.blk < Len(b)
    BY <1>1 DEF InLoop
  <2>4. PICK u \in Int, r \in Int, d \in Int : u = Cap * Len(b) - Cap /\ r = Cap * i /\ d = k - n
    <3>1. Cap * Len(b) - Cap \in Int
      BY <1>0, <1>5
    <3>2. Cap * i \in Int
      BY <1>0
    <3>3. k - n \in Int
      OBVIOUS
    <3> QED
      BY <3>1, <3>2, <3>3
  <2>5. u < r + j + k => u < r + (j + n) + d
    BY <2>4
  <2> QED
    <3>1. z \in [st : Streams, left : Seq(Values)]
      BY <1>14, <1>15
    <3> QED
      BY <1>5, <1>11, <1>12, <1>15, <2>1, <2>2, <2>3, <2>4, <2>5, <3>1 DEF InLoop
<1>17. Effort(z) < Effort(w)
  <2>1. Effort(w) = 2 * k
    <3>1. w.st.cur.pos = j /\ j # Cap /\ Len(w.left) = k
      BY <1>0, <1>1, <1>2, <1>4, <1>5
    <3> QED
      BY <3>1 DEF Effort
  <2>2. Effort(z) = 2 * (k - n) + (IF j + n = Cap THEN 1 ELSE 0)
    <3>1. z.st.cur.pos = j + n /\ Len(z.left) = k - n
      BY <1>12, <1>13, <1>15
    <3> QED
      BY <3>1 DEF Effort
  <2> QED
    BY <1>8, <2>1, <2>2
<1> QED
  BY <1>15, <1>16, <1>17

\* At the end of a segment the position moves to the next one, which may have to
\* be added.
LEMMA PassMoves ==
    ASSUME Str!StreamConstants, kind = "seg", NEW p, NEW w, InLoop(w, p),
           w.left # <<>>, ~ (w.st.cur.pos < Cap)
    PROVE  /\ InLoop(Str!WritePass(w), p)
           /\ Effort(Str!WritePass(w)) < Effort(w)
<1>0. Cap \in Nat \ {0}
  BY DEF Str!StreamConstants
<1>1. PICK b \in Seq(SegBlocks), i \in Nat, j \in 0 .. Cap, l \in Places :
          w.st = [blocks |-> b, cur |-> [blk |-> i, pos |-> j], last |-> l]
  BY DEF InLoop, Streams, Places
<1>2. PICK o \in Seq(Values) : o = w.left /\ o # <<>>
  BY DEF InLoop
<1>3. PICK s : s = [blocks |-> b, cur |-> [blk |-> i, pos |-> j], last |-> l]
               /\ s = w.st
  BY <1>1
<1>4. PICK k \in Nat \ {0} : k = Len(o)
  BY <1>2, EmptySeq, LenProperties
<1>5. j = Cap /\ i < Len(b) /\ l = p /\ Len(b) \in Nat /\ Numbered(b) /\ Unsealed(b)
  BY <1>0, <1>1, LenProperties DEF InLoop
<1>6. w = [st |-> s, left |-> o]
  BY <1>2, <1>3 DEF InLoop
<1>7. PICK e : e = [blk |-> i + 1, pos |-> 0]
  OBVIOUS
<1>8. e \in Places /\ e.blk = i + 1 /\ e.pos = 0
  BY <1>0, <1>7 DEF Places
<1>9. PICK next : /\ next = [blocks |-> b, cur |-> e, last |-> l]
                  /\ next = [s EXCEPT !.cur = [blk |-> @.blk + 1, pos |-> 0]]
  <2>1. PICK a : a = [blk |-> i, pos |-> j]
    OBVIOUS
  <2>5. a.blk = i
    BY <2>1
  <2>2. s = [blocks |-> b, cur |-> a, last |-> l]
    BY <1>3, <2>1
  <2>3. [s EXCEPT !.cur = e] = [blocks |-> b, cur |-> e, last |-> l]
    BY <2>2
  <2>4. [s EXCEPT !.cur = [blk |-> @.blk + 1, pos |-> 0]] = [s EXCEPT !.cur = e]
    BY <1>7, <2>2, <2>5
  <2> QED
    BY <2>3, <2>4
<1>10. /\ Str!BlockSize(kind, s, s.cur.blk) = Cap
       /\ s.cur.pos = j /\ ~ (j < Cap)
       /\ Str!ValidBlock(next, next.cur.blk) <=> i + 1 < Len(b)
  <2>1. ~ (j < Cap)
    BY <1>0, <1>5
  <2>2. next.cur.blk = i + 1 /\ next.blocks = b
    BY <1>8, <1>9
  <2> QED
    BY <1>3, <2>1, <2>2 DEF Str!BlockSize, Str!ValidBlock
<1>11. Str!WritePass(w) =
           IF Str!ValidBlock(next, next.cur.blk) THEN [w EXCEPT !.st = next]
           ELSE [w EXCEPT !.st = Str!MemoryAdd(kind, next, Len(o))]
  BY <1>2, <1>3, <1>9, <1>10 DEF Str!WritePass
<1>12. Effort(w) = 2 * k + 1
  <2>1. w.st.cur.pos = Cap /\ Len(w.left) = k
    BY <1>2, <1>3, <1>4, <1>5
  <2> QED
    BY <2>1 DEF Effort
<1>13. ASSUME NEW z, NEW c \in Seq(SegBlocks), NEW t,
              z = [st |-> t, left |-> o], t = [blocks |-> c, cur |-> e, last |-> l],
              Numbered(c), Unsealed(c), i + 1 < Len(c), Len(b) <= Len(c),
              (Len(c) = p.blk + 1 /\ p.pos > 0) \/ Cap * Len(c) - Cap < Cap * (i + 1) + k
       PROVE  InLoop(z, p) /\ Effort(z) < Effort(w)
  <2>1. t \in Streams
    BY <1>8, <1>13 DEF Streams
  <2>2. z.st = t /\ z.left = o /\ t.blocks = c /\ t.cur = e /\ t.last = l
    BY <1>13
  <2>3. p.blk < Len(c)
    <3>1. p.blk < Len(b)
      BY <1>3, <1>5 DEF InLoop
    <3>2. p.blk \in Nat /\ Len(c) \in Nat
      BY <1>5, LenProperties DEF Places
    <3> QED
      BY <1>5, <1>13, <3>1, <3>2
  <2>4. Effort(z) = 2 * k
    <3>1. z.st.cur.pos # Cap /\ Len(z.left) = k
      BY <1>0, <1>4, <1>8, <2>2
    <3> QED
      BY <3>1 DEF Effort
  <2>5. Cap * Len(c) - Cap < Cap * (i + 1) + k => Cap * Len(c) - Cap < Cap * e.blk + e.pos + Len(o)
    <3>1. PICK u \in Int : u = Cap * (i + 1)
      BY <1>0
    <3>2. u + k = u + 0 + k
      OBVIOUS
    <3> QED
      BY <1>4, <1>8, <3>1, <3>2
  <2>6. z \in [st : Streams, left : Seq(Values)]
    BY <1>13, <2>1
  <2>7. InLoop(z, p)
    BY <1>5, <1>8, <1>13, <2>2, <2>3, <2>5, <2>6 DEF InLoop
  <2> QED
    BY <1>12, <2>4, <2>7
<1>14. CASE i + 1 < Len(b)
  <2>1. Str!WritePass(w) = [st |-> next, left |-> o]
    BY <1>6, <1>10, <1>11, <1>14
  <2>2. (Len(b) = p.blk + 1 /\ p.pos > 0) \/ Cap * Len(b) - Cap < Cap * (i + 1) + k
    <3>1. (Len(b) = p.blk + 1 /\ p.pos > 0) \/ Cap * Len(b) - Cap < Cap * i + j + k
      BY <1>1, <1>2, <1>4 DEF InLoop
    <3>2. Cap * (i + 1) = Cap * i + j
      BY <1>0, <1>5
    <3> QED
      BY <3>1, <3>2
  <2>3. Len(b) <= Len(b)
    BY <1>5
  <2>4. /\ InLoop([st |-> next, left |-> o], p)
        /\ Effort([st |-> next, left |-> o]) < Effort(w)
    BY <1>5, <1>9, <1>13, <1>14, <2>2, <2>3
  <2> QED
    BY <2>1, <2>4
<1>15. CASE ~ (i + 1 < Len(b))
  <2>1. PICK c \in Seq(SegBlocks), n \in Nat \ {0} :
            /\ Str!SegMemoryAdd(next, k) = [next EXCEPT !.blocks = c]
            /\ Numbered(c) /\ Unsealed(c) /\ Len(c) = Len(b) + n /\ Cap * n - Cap < k
    <3>1. next.blocks = b
      BY <1>9
    <3> QED
      BY <1>5, <3>1, SegmentsAdded
  <2>2. PICK t : /\ t = [blocks |-> c, cur |-> e, last |-> l]
                 /\ t = [next EXCEPT !.blocks = c]
    <3>1. next = [blocks |-> b, cur |-> e, last |-> l]
      BY <1>9
    <3>2. [next EXCEPT !.blocks = c] = [blocks |-> c, cur |-> e, last |-> l]
      BY <3>1
    <3> QED
      BY <3>2
  <2>3. Str!WritePass(w) = [st |-> t, left |-> o]
    <3>1. Str!MemoryAdd(kind, next, Len(o)) = t
      BY <1>4, <2>1, <2>2 DEF Str!MemoryAdd
    <3> QED
      BY <1>6, <1>10, <1>11, <1>15, <3>1
  <2>4. i + 1 = Len(b) /\ Len(b) <= Len(c) /\ i + 1 < Len(c)
    BY <1>5, <1>15, <2>1
  <2>5. Cap * Len(c) - Cap < Cap * (i + 1) + k
    <3>1. Len(c) = (i + 1) + n
      BY <2>1, <2>4
    <3>2. Cap * Len(c) = Cap * (i + 1) + Cap * n
      BY <1>0, <3>1
    <3>3. PICK u \in Int, v \in Int : u = Cap * (i + 1) /\ v = Cap * n
      <4>1. Cap * (i + 1) \in Int /\ Cap * n \in Int
        BY <1>0
      <4> QED
        BY <4>1
    <3>4. u + v - Cap < u + k
      BY <1>0, <2>1, <3>3
    <3>5. PICK x : x = Cap * Len(c)
      OBVIOUS
    <3>7. x = u + v
      BY <3>2, <3>3, <3>5
    <3>6. x - Cap < u + k
      <4>1. u \in Int /\ v \in Int /\ k \in Int /\ Cap \in Int
        BY <1>0, <3>3
      <4> QED
        BY <3>4, <3>7, <4>1
    <3> QED
      BY <3>3, <3>5, <3>6, Zenon
  <2>6. InLoop([st |-> t, left |-> o], p) /\ Effort([st |-> t, left |-> o]) < Effort(w)
    BY <1>13, <2>1, <2>2, <2>4, <2>5
  <2> QED
    BY <2>3, <2>6
<1> QED
  BY <1>14, <1>15

\* The passes of the write loop, one after the other.
WritesPass(w, p, f) ==
    f = [n \in 0 .. p |-> IF n = 0 THEN w ELSE Str!WritePass(f[n - 1])]

LEMMA WritePasses ==
    ASSUME NEW w, NEW p \in Nat
    PROVE  \E f : WritesPass(w, p, f)
<1> DEFINE G == {m \in Nat : \E f : WritesPass(w, m, f)}
<1>1. 0 \in G
  <2>1. WritesPass(w, 0, [n \in 0 .. 0 |-> w])
    BY DEF WritesPass
  <2> QED
    BY <2>1
<1>2. ASSUME NEW m \in Nat, m \in G PROVE m + 1 \in G
  <2>1. PICK f : WritesPass(w, m, f)
    BY <1>2
  <2>2. PICK g : g = [n \in 0 .. m + 1 |-> IF n <= m THEN f[n] ELSE Str!WritePass(f[m])]
    OBVIOUS
  <2>3. ASSUME NEW n \in 0 .. m + 1
        PROVE  g[n] = IF n = 0 THEN w ELSE Str!WritePass(g[n - 1])
    <3>1. CASE n <= m
      <4>1. n \in 0 .. m /\ (n # 0 => n - 1 \in 0 .. m /\ n - 1 <= m /\ n - 1 \in 0 .. m + 1)
        BY <3>1
      <4>2. f[n] = IF n = 0 THEN w ELSE Str!WritePass(f[n - 1])
        BY <2>1, <4>1 DEF WritesPass
      <4> QED
        BY <2>2, <3>1, <4>1, <4>2
    <3>2. CASE n = m + 1
      <4>1. n # 0 /\ n - 1 = m /\ m \in 0 .. m + 1 /\ m <= m /\ ~ (m + 1 <= m)
        BY <3>2
      <4> QED
        BY <2>2, <3>2, <4>1
    <3> QED
      BY <3>1, <3>2
  <2>4. WritesPass(w, m + 1, g)
    BY <2>2, <2>3 DEF WritesPass
  <2> QED
    BY <2>4
<1> HIDE DEF G
<1>3. p \in G
  BY <1>1, <1>2, CountingUp
<1> QED
  BY <1>3 DEF G

\* The write loop ends with nothing left.
LEMMA LoopEnds ==
    ASSUME Str!StreamConstants, kind = "seg", NEW p, NEW s,
           NEW o \in Seq(Values),
           InLoop([st |-> s, left |-> o], p)
    PROVE  InLoop([st |-> Str!WriteLoop(s, o), left |-> <<>>], p)
<1> DEFINE passes == 2 * Len(o) + 1
           w == [st |-> s, left |-> o]
           after[n \in 0 .. passes] == IF n = 0 THEN w ELSE Str!WritePass(after[n - 1])
<1>0. Cap \in Nat \ {0} /\ Len(o) \in Nat
  BY LenProperties DEF Str!StreamConstants
<1>1. PICK m \in Nat : m = passes
  BY <1>0
<1>2. after = [n \in 0 .. passes |-> IF n = 0 THEN w ELSE Str!WritePass(after[n - 1])]
  <2> HIDE DEF passes, w
  <2>1. passes \in Nat
    BY <1>1
  <2>2. PICK f : WritesPass(w, passes, f)
    BY <2>1, WritePasses
  <2>3. f = [n \in 0 .. passes |-> IF n = 0 THEN w ELSE Str!WritePass(f[n - 1])]
    BY <2>2 DEF WritesPass
  <2> QED
    BY <2>3
<1>3. Str!WriteLoop(s, o) = after[m].st
  BY <1>1 DEF Str!WriteLoop
<1> HIDE DEF passes
<1>4. PICK f : f = after
  OBVIOUS
<1> HIDE DEF after, w
<1>5. f[0] = w /\ \A n \in 1 .. m : f[n] = Str!WritePass(f[n - 1])
  <2>1. f = [n \in 0 .. m |-> IF n = 0 THEN w ELSE Str!WritePass(f[n - 1])]
    BY <1>1, <1>2, <1>4
  <2>2. 0 \in 0 .. m /\ \A n \in 1 .. m : n \in 0 .. m /\ n # 0
    OBVIOUS
  <2> QED
    BY <2>1, <2>2
<1>6. w.st = s /\ w.left = o /\ w = [st |-> w.st, left |-> w.left]
  BY DEF w
<1> DEFINE Good(n) == InLoop(f[n], p) /\ (f[n].left = <<>> \/ Effort(f[n]) + n <= m)
           G == {n \in Nat : n <= m => Good(n)}
<1>7. 0 \in G
  <2>1. InLoop(w, p)
    BY DEF w
  <2>2. Effort(w) + 0 <= m
    <3>1. Effort(w) = 2 * Len(o) + (IF w.st.cur.pos = Cap THEN 1 ELSE 0)
      BY <1>6 DEF Effort
    <3> QED
      BY <1>0, <1>1, <3>1 DEF passes
  <2> QED
    BY <1>5, <2>1, <2>2
<1>8. ASSUME NEW n \in Nat, n \in G PROVE n + 1 \in G
  <2> SUFFICES ASSUME n + 1 <= m PROVE Good(n + 1)
    OBVIOUS
  <2>1. Good(n)
    BY <1>8
  <2>2. PICK v : v = f[n]
    OBVIOUS
  <2>3. PICK z : z = Str!WritePass(v) /\ z = f[n + 1]
    <3>1. n + 1 \in 1 .. m /\ (n + 1) - 1 = n
      OBVIOUS
    <3> QED
      BY <1>5, <2>2, <3>1
  <2>5. CASE InLoop(v, p) /\ v.left = <<>>
    <3>1. z = v
      BY <2>3, <2>5 DEF Str!WritePass
    <3> QED
      BY <2>3, <2>5, <3>1
  <2>6. CASE InLoop(v, p) /\ v.left # <<>> /\ Effort(v) + n <= m
    <3>1. InLoop(z, p) /\ Effort(z) < Effort(v)
      BY <2>3, <2>6, PassWrites, PassMoves
    <3>2. Effort(z) \in Int /\ Effort(v) \in Int
      <4>1. Len(z.left) \in Nat /\ Len(v.left) \in Nat
        BY <2>6, <3>1, LenProperties DEF InLoop
      <4> QED
        BY <4>1 DEF Effort
    <3>3. Effort(z) + (n + 1) <= m
      BY <2>6, <3>1, <3>2
    <3> QED
      BY <2>3, <3>1, <3>3
  <2> QED
    BY <2>1, <2>2, <2>5, <2>6
<1>9. Good(m)
  <2>1. \A n \in Nat : n \in G
    <3> HIDE DEF G
    <3> QED
      BY <1>7, <1>8, CountingUp
  <2> QED
    BY <2>1
<1>10. PICK z : z = f[m] /\ Str!WriteLoop(s, o) = z.st
  BY <1>3, <1>4
<1>11. InLoop(z, p) /\ (z.left = <<>> \/ Effort(z) + m <= m)
  BY <1>9, <1>10
<1>12. z.left = <<>>
  <2> SUFFICES ASSUME z.left # <<>>, Effort(z) + m <= m PROVE FALSE
    BY <1>11
  <2>1. PICK k \in Nat \ {0} : k = Len(z.left)
    BY <1>11, EmptySeq, LenProperties DEF InLoop
  <2>2. Effort(z) = 2 * k + (IF z.st.cur.pos = Cap THEN 1 ELSE 0)
    BY <2>1 DEF Effort
  <2> QED
    BY <2>2
<1>13. z = [st |-> Str!WriteLoop(s, o), left |-> <<>>]
  BY <1>10, <1>11, <1>12 DEF InLoop
<1> QED
  BY <1>11, <1>13

\* After the loop the last position is in the last segment, behind an octet.
LEMMA AdjustEnds ==
    ASSUME Str!StreamConstants, NEW t, NEW p, InLoop([st |-> t, left |-> <<>>], p)
    PROVE  Sound(Str!LastAdjust(t)) /\ Unsealed(Str!LastAdjust(t).blocks)
<1>0. Cap \in Nat \ {0}
  BY DEF Str!StreamConstants
<1>1. PICK w : w = [st |-> t, left |-> <<>>] /\ w.st = t /\ w.left = <<>> /\ InLoop(w, p)
  OBVIOUS
<1>2. PICK b \in Seq(SegBlocks), c \in Places, l \in Places :
          t = [blocks |-> b, cur |-> c, last |-> l]
  BY <1>1 DEF InLoop, Streams
<1>3. PICK i \in Nat, j \in 0 .. Cap : i = c.blk /\ j = c.pos
  BY DEF Places
<1>4. PICK lb \in Nat, lp \in 0 .. Cap : lb = l.blk /\ lp = l.pos
  BY DEF Places
<1>5. PICK n \in Nat : n = Len(b)
  BY LenProperties
<1>6. /\ Numbered(b) /\ Unsealed(b) /\ lb < n /\ i < n
      /\ (n = lb + 1 /\ lp > 0) \/ Cap * n - Cap < Cap * i + j + 0
  <2>1. t.blocks = b /\ t.cur = c /\ t.last = l /\ p = l
    BY <1>1, <1>2 DEF InLoop
  <2>2. Len(<<>>) = 0
    OBVIOUS
  <2> QED
    BY <1>1, <1>3, <1>4, <1>5, <2>1, <2>2 DEF InLoop
<1>7. (n = lb + 1 /\ lp > 0) \/ (i = n - 1 /\ j > 0)
  <2> SUFFICES ASSUME Cap * n - Cap < Cap * i + j + 0 PROVE i = n - 1 /\ j > 0
    BY <1>6
  <2>1. PICK d \in Nat : n = i + 1 + d
    <3>1. n - i - 1 \in Nat /\ n = i + 1 + (n - i - 1)
      BY <1>6
    <3> QED
      BY <3>1
  <2>2. PICK u \in Int, v \in Int : u = Cap * i /\ v = Cap * d
    <3>1. Cap * i \in Int /\ Cap * d \in Int
      BY <1>0
    <3> QED
      BY <3>1
  <2>3. Cap * n = u + Cap + v
    BY <1>0, <2>1, <2>2
  <2>4. v < j
    <3>1. (u + Cap + v) - Cap < u + j + 0
      BY <2>2, <2>3
    <3>2. u \in Int /\ v \in Int /\ Cap \in Int /\ j \in Int
      BY <1>0, <2>2
    <3> QED
      BY <3>1, <3>2
  <2>5. d = 0
    <3> SUFFICES ASSUME d >= 1 PROVE FALSE
      OBVIOUS
    <3>1. Cap * d >= Cap
      BY <1>0
    <3>2. v \in Int /\ Cap \in Int /\ v >= Cap /\ j <= Cap
      BY <1>0, <2>2, <3>1
    <3> QED
      BY <2>4, <3>2
  <2>6. j > 0
    <3>1. v = 0
      BY <1>0, <2>2, <2>5
    <3> QED
      BY <2>4, <3>1
  <2> QED
    BY <2>1, <2>5, <2>6
<1>8. ASSUME NEW l2 \in Places, l2.blk = n - 1, l2.pos > 0, i <= l2.blk, NEW r,
             r = [blocks |-> b, cur |-> c, last |-> l2]
      PROVE  Sound(r) /\ Unsealed(r.blocks)
  <2>1. r \in Streams
    BY <1>8 DEF Streams
  <2>2. r.blocks = b /\ r.cur = c /\ r.last = l2
    BY <1>8
  <2>3. b # <<>>
    BY <1>5, <1>6
  <2> QED
    BY <1>3, <1>5, <1>6, <1>8, <2>1, <2>2, <2>3 DEF Sound
<1>9. CASE lb < i \/ (lb = i /\ lp < j)
  <2>1. Str!LastAdjust(t) = [blocks |-> b, cur |-> c, last |-> c]
    <3>1. [t EXCEPT !.last = c] = [blocks |-> b, cur |-> c, last |-> c]
      BY <1>2
    <3>2. t.cur = c /\ t.last = l
      BY <1>2
    <3> QED
      BY <1>3, <1>4, <1>9, <3>1, <3>2 DEF Str!LastAdjust
  <2>2. i = n - 1 /\ j > 0 /\ i <= i
    BY <1>6, <1>7, <1>9
  <2> QED
    BY <1>3, <1>8, <2>1, <2>2
<1>10. CASE ~ (lb < i \/ (lb = i /\ lp < j))
  <2>1. Str!LastAdjust(t) = t
    <3>2. t.cur = c /\ t.last = l
      BY <1>2
    <3> QED
      BY <1>3, <1>4, <1>10, <3>2 DEF Str!LastAdjust
  <2>2. lb = n - 1 /\ lp > 0 /\ i <= lb
    BY <1>6, <1>7, <1>10
  <2> QED
    BY <1>2, <1>4, <1>8, <2>1, <2>2
<1> QED
  BY <1>9, <1>10

\* A write leaves a sound stream.
LEMMA WriteKeepsSound ==
    ASSUME Str!StreamConstants, kind = "seg", NEW o \in Seq(Values), NEW s,
           Sound(s), Unsealed(s.blocks)
    PROVE  Sound(Str!ArrayWr(s, o))
<1>0. Cap \in Nat \ {0}
  BY DEF Str!StreamConstants
<1>1. CASE o = <<>>
  BY <1>1 DEF Str!ArrayWr
<1>2. ASSUME NEW t, NEW p, InLoop([st |-> t, left |-> o], p)
      PROVE  Sound(Str!LastAdjust(Str!WriteLoop(t, o)))
  <2>1. PICK r : r = Str!WriteLoop(t, o)
    OBVIOUS
  <2>2. InLoop([st |-> r, left |-> <<>>], p)
    BY <1>2, <2>1, LoopEnds
  <2> QED
    BY <2>1, <2>2, AdjustEnds
<1>3. CASE o # <<>> /\ s.blocks # <<>>
  <2>1. Str!ArrayWr(s, o) = Str!LastAdjust(Str!WriteLoop(s, o))
    BY <1>3 DEF Str!ArrayWr
  <2>2. InLoop([st |-> s, left |-> o], s.last)
    <3>a. PICK w : w = [st |-> s, left |-> o]
      OBVIOUS
    <3>1. w = [st |-> s, left |-> o] /\ w.st = s /\ w.left = o
      BY <3>a
    <3>2. w \in [st : Streams, left : Seq(Values)]
      BY <3>1 DEF Sound
    <3>3. PICK n \in Nat, lb \in Nat, i \in Nat :
              n = Len(s.blocks) /\ lb = s.last.blk /\ i = s.cur.blk /\ i <= lb /\ lb = n - 1
      <4>1. s.last.blk \in Nat /\ s.cur.blk \in Nat /\ Len(s.blocks) \in Nat
        BY LenProperties DEF Sound, Streams, Places
      <4> QED
        BY <1>3, <4>1 DEF Sound
    <3>4. lb < n /\ i < n /\ n = lb + 1
      BY <3>3
    <3> QED
      BY <1>3, <3>1, <3>2, <3>3, <3>4 DEF InLoop, Sound
  <2> QED
    BY <1>2, <2>1, <2>2
<1>4. CASE o # <<>> /\ s.blocks = <<>>
  <2>1. PICK t : t = Str!MemoryAdd(kind, s, Len(o))
    OBVIOUS
  <2>2. Str!ArrayWr(s, o) = Str!LastAdjust(Str!WriteLoop(t, o))
    BY <1>4, <2>1 DEF Str!ArrayWr
  <2>3. InLoop([st |-> t, left |-> o], Str!Start)
    <3>1. PICK k \in Nat \ {0} : k = Len(o)
      BY <1>4, EmptySeq, LenProperties
    <3>2. s.blocks \in Seq(SegBlocks) /\ Numbered(s.blocks) /\ Len(s.blocks) = 0
      BY <1>4 DEF Sound, Streams
    <3>3. PICK c \in Seq(SegBlocks), n \in Nat \ {0} :
              /\ Str!SegMemoryAdd(s, k) = [s EXCEPT !.blocks = c]
              /\ Numbered(c) /\ Unsealed(c) /\ Len(c) = Len(s.blocks) + n /\ Cap * n - Cap < k
      BY <3>2, SegmentsAdded
    <3>4. PICK e : e = Str!Start
      OBVIOUS
    <3>5. e \in Places /\ e.blk = 0 /\ e.pos = 0
      BY <1>0, <3>4 DEF Str!Start, Places
    <3>6. s = [blocks |-> <<>>, cur |-> e, last |-> e]
      BY <1>4, <3>4 DEF Sound, Streams
    <3>7. t = [blocks |-> c, cur |-> e, last |-> e]
      <4>1. t = [s EXCEPT !.blocks = c]
        BY <2>1, <3>1, <3>3 DEF Str!MemoryAdd
      <4>2. [s EXCEPT !.blocks = c] = [blocks |-> c, cur |-> e, last |-> e]
        BY <3>6
      <4> QED
        BY <4>1, <4>2
    <3>8. t \in Streams /\ t.blocks = c /\ t.cur = e /\ t.last = e
      BY <3>5, <3>7 DEF Streams
    <3>a. PICK w : w = [st |-> t, left |-> o]
      OBVIOUS
    <3>9. w = [st |-> t, left |-> o] /\ w.st = t /\ w.left = o
      BY <3>a
    <3>10. w \in [st : Streams, left : Seq(Values)]
      BY <3>8, <3>9
    <3>11. Len(c) = n /\ 0 < n /\ Cap * 0 = 0
      BY <1>0, <3>2, <3>3
    <3>12. Cap * Len(c) - Cap < Cap * e.blk + e.pos + Len(o)
      <4>1. Cap * e.blk + e.pos + Len(o) = k
        BY <3>1, <3>5, <3>11
      <4> QED
        BY <3>3, <3>11, <4>1
    <3>13. InLoop(w, e)
      BY <3>3, <3>5, <3>8, <3>9, <3>10, <3>11, <3>12 DEF InLoop
    <3> QED
      BY <3>4, <3>9, <3>13
  <2> QED
    BY <1>2, <2>2, <2>3
<1> QED
  BY <1>1, <1>3, <1>4

\* A position in a written segment may be the current one.
LEMMA MoveKeepsSound ==
    ASSUME NEW s, Sound(s), s.blocks # <<>>, NEW c \in Places, c.blk <= s.last.blk
    PROVE  /\ Sound([s EXCEPT !.cur = c]) /\ [s EXCEPT !.cur = c].blocks = s.blocks
           /\ [s EXCEPT !.cur = c].last = s.last
<1>1. PICK b \in Seq(SegBlocks), a \in Places, l \in Places :
          s = [blocks |-> b, cur |-> a, last |-> l]
  BY DEF Sound, Streams
<1>2. PICK t : t = [s EXCEPT !.cur = c]
  OBVIOUS
<1>3. t = [blocks |-> b, cur |-> c, last |-> l]
  BY <1>1, <1>2
<1>4. t \in Streams
  BY <1>3 DEF Streams
<1>5. t.blocks = s.blocks /\ t.cur = c /\ t.last = s.last
  BY <1>1, <1>3
<1>6. Sound(t)
  BY <1>4, <1>5 DEF Sound
<1> QED
  BY <1>2, <1>5, <1>6

\* The passes of the read loop, one after the other.
ReadsPass(r, p, f) ==
    f = [n \in 0 .. p |-> IF n = 0 THEN r ELSE Str!ReadPass(f[n - 1])]

LEMMA ReadPasses ==
    ASSUME NEW r, NEW p \in Nat
    PROVE  \E f : ReadsPass(r, p, f)
<1> DEFINE G == {m \in Nat : \E f : ReadsPass(r, m, f)}
<1>1. 0 \in G
  <2>1. ReadsPass(r, 0, [n \in 0 .. 0 |-> r])
    BY DEF ReadsPass
  <2> QED
    BY <2>1
<1>2. ASSUME NEW m \in Nat, m \in G PROVE m + 1 \in G
  <2>1. PICK f : ReadsPass(r, m, f)
    BY <1>2
  <2>2. PICK g : g = [n \in 0 .. m + 1 |-> IF n <= m THEN f[n] ELSE Str!ReadPass(f[m])]
    OBVIOUS
  <2>3. ASSUME NEW n \in 0 .. m + 1
        PROVE  g[n] = IF n = 0 THEN r ELSE Str!ReadPass(g[n - 1])
    <3>1. CASE n <= m
      <4>1. n \in 0 .. m /\ (n # 0 => n - 1 \in 0 .. m /\ n - 1 <= m /\ n - 1 \in 0 .. m + 1)
        BY <3>1
      <4>2. f[n] = IF n = 0 THEN r ELSE Str!ReadPass(f[n - 1])
        BY <2>1, <4>1 DEF ReadsPass
      <4> QED
        BY <2>2, <3>1, <4>1, <4>2
    <3>2. CASE n = m + 1
      <4>1. n # 0 /\ n - 1 = m /\ m \in 0 .. m + 1 /\ m <= m /\ ~ (m + 1 <= m)
        BY <3>2
      <4> QED
        BY <2>2, <3>2, <4>1
    <3> QED
      BY <3>1, <3>2
  <2>4. ReadsPass(r, m + 1, g)
    BY <2>2, <2>3 DEF ReadsPass
  <2> QED
    BY <2>4
<1> HIDE DEF G
<1>3. p \in G
  BY <1>1, <1>2, CountingUp
<1> QED
  BY <1>3 DEF G

\* In the read loop.
Reading(r) ==
    /\ r \in [st : Streams, left : Nat, octets : Seq(Values)]
    /\ Sound(r.st) /\ r.st.blocks # <<>>

\* A pass reads within the segment and within what was written, or moves on.
LEMMA PassReads ==
    ASSUME Str!StreamConstants, NEW r, Reading(r)
    PROVE  Reading(Str!ReadPass(r)) /\ Str!ReadPass(r).st.blocks = r.st.blocks
<1>0. Cap \in Nat \ {0}
  BY DEF Str!StreamConstants
<1>1. PICK s \in Streams, o \in Seq(Values), n \in Nat :
          r = [st |-> s, left |-> n, octets |-> o] /\ Sound(s) /\ s.blocks # <<>>
  <2>1. PICK s \in Streams, o \in Seq(Values), n \in Nat : r = [st |-> s, left |-> n, octets |-> o]
    BY DEF Reading
  <2>2. r.st = s
    BY <2>1
  <2>3. Sound(s) /\ s.blocks # <<>>
    BY <2>2 DEF Reading
  <2> QED
    BY <2>1, <2>3
<1>2. PICK i \in Nat, j \in 0 .. Cap, lb \in Nat, lp \in 0 .. Cap :
          i = s.cur.blk /\ j = s.cur.pos /\ lb = s.last.blk /\ lp = s.last.pos /\ i <= lb
          /\ s.cur = [blk |-> i, pos |-> j]
  BY <1>1 DEF Sound, Streams, Places
<1>3. PICK v \in [1 .. Cap -> Values] : v = s.blocks[i + 1].octets
  <2>1. s.blocks \in Seq(SegBlocks) /\ lb = Len(s.blocks) - 1
    BY <1>1, <1>2 DEF Sound, Streams
  <2>2. PICK m \in Nat : m = Len(s.blocks)
    BY <2>1, LenProperties
  <2>3. i + 1 \in 1 .. m
    BY <1>2, <2>1, <2>2
  <2>4. s.blocks[i + 1] \in SegBlocks
    BY <2>1, <2>2, <2>3, ElementOfSeq
  <2> QED
    BY <2>4 DEF SegBlocks
<1>4. Len(v) = Cap
  BY <1>0, FunctionIsSeq
<1>5. PICK end \in 0 .. Cap : end = IF s.cur.blk < s.last.blk THEN Len(v) ELSE s.last.pos
  BY <1>0, <1>2, <1>4
<1> DEFINE take == Str!Min({end - s.cur.pos, n})
<1>6. Str!ReadPass(r) =
          IF n > 0 /\ s.cur.pos < end
          THEN [st |-> [s EXCEPT !.cur.pos = @ + take], left |-> n - take,
                octets |-> o \o SubSeq(v, s.cur.pos + 1, s.cur.pos + take)]
          ELSE IF n > 0 /\ s.cur.blk < s.last.blk
          THEN [r EXCEPT !.st.cur = [blk |-> @.blk + 1, pos |-> 0]]
          ELSE r
  <2>1. r.st = s /\ r.left = n /\ r.octets = o
    BY <1>1
  <2> QED
    BY <1>2, <1>3, <1>5, <2>1 DEF Str!ReadPass
<1>7. ASSUME NEW c \in Places, c.blk <= s.last.blk, NEW t, t = [s EXCEPT !.cur = c],
             NEW q \in Seq(Values), NEW m \in Nat
      PROVE  Reading([st |-> t, left |-> m, octets |-> q]) /\ t.blocks = r.st.blocks
  <2>1. Sound(t) /\ t.blocks # <<>> /\ t.blocks = r.st.blocks
    BY <1>1, <1>7, MoveKeepsSound
  <2>2. t \in Streams
    BY <2>1 DEF Sound
  <2>3. PICK z : z = [st |-> t, left |-> m, octets |-> q]
    OBVIOUS
  <2>4. z.st = t /\ z \in [st : Streams, left : Nat, octets : Seq(Values)]
    BY <2>2, <2>3
  <2>5. Reading(z)
    BY <2>1, <2>4 DEF Reading
  <2> QED
    BY <2>1, <2>3, <2>5
<1>8. CASE n > 0 /\ j < end
  <2>1. PICK d \in Nat \ {0} : d = end - j
    BY <1>8
  <2>2. PICK k \in Nat : k = take /\ k <= d /\ k <= n
    <3>1. d \in Int /\ n \in Int
      OBVIOUS
    <3>2. Str!Min({d, n}) \in {d, n} /\ Str!Min({d, n}) <= d /\ Str!Min({d, n}) <= n
      BY <3>1, SmallerOfTwo
    <3>3. take = Str!Min({d, n})
      BY <1>2, <2>1
    <3> QED
      BY <3>2, <3>3
  <2>3. PICK c : c = [blk |-> i, pos |-> j + k]
    OBVIOUS
  <2>4. c \in Places /\ c.blk = i
    <3>1. j + k \in 0 .. Cap
      BY <1>0, <2>1, <2>2
    <3> QED
      BY <2>3, <3>1 DEF Places
  <2>5. [s EXCEPT !.cur.pos = @ + take] = [s EXCEPT !.cur = c]
    <3>1. [s EXCEPT !.cur.pos = @ + take] = [s EXCEPT !.cur = [s.cur EXCEPT !.pos = s.cur.pos + k]]
      BY <2>2
    <3>2. [s.cur EXCEPT !.pos = s.cur.pos + k] = c
      BY <1>2, <2>3
    <3> QED
      BY <3>1, <3>2
  <2>6. n - k \in Nat
    BY <2>2
  <2>7. SubSeq(v, j + 1, j + k) \in Seq(Values)
    <3>1. \A m \in j + 1 .. j + k : m \in 1 .. Cap
      BY <1>0, <2>1, <2>2
    <3>2. \A m \in j + 1 .. j + k : v[m] \in Values
      BY <3>1
    <3>3. j + 1 \in Int /\ j + k \in Int
      OBVIOUS
    <3> QED
      BY <3>2, <3>3, SubSeqProperties
  <2>8. PICK q \in Seq(Values) : q = o \o SubSeq(v, j + 1, j + k)
    BY <2>7, ConcatProperties
  <2>9. /\ Reading([st |-> [s EXCEPT !.cur = c], left |-> n - k, octets |-> q])
        /\ [s EXCEPT !.cur = c].blocks = r.st.blocks
    BY <1>2, <1>7, <2>4, <2>6
  <2>10. Str!ReadPass(r) = [st |-> [s EXCEPT !.cur = c], left |-> n - k, octets |-> q]
    <3> HIDE DEF take
    <3> QED
      BY <1>2, <1>6, <1>8, <2>2, <2>5, <2>8
  <2> QED
    <3>1. PICK t : t = [s EXCEPT !.cur = c]
      OBVIOUS
    <3>2. Str!ReadPass(r) = [st |-> t, left |-> n - k, octets |-> q]
      BY <2>10, <3>1, Zenon
    <3>3. Reading([st |-> t, left |-> n - k, octets |-> q]) /\ t.blocks = r.st.blocks
      BY <2>9, <3>1, Zenon
    <3> QED
      BY <3>2, <3>3
<1>9. CASE ~ (n > 0 /\ j < end) /\ n > 0 /\ i < lb
  <2>1. PICK c : c = [blk |-> i + 1, pos |-> 0]
    OBVIOUS
  <2>2. c \in Places /\ c.blk <= s.last.blk
    <3>1. i + 1 <= lb
      BY <1>9
    <3> QED
      BY <1>0, <1>2, <2>1, <3>1 DEF Places
  <2>3. Str!ReadPass(r) = [r EXCEPT !.st.cur = [blk |-> @.blk + 1, pos |-> 0]]
    BY <1>2, <1>6, <1>9
  <2>4. [r EXCEPT !.st.cur = [blk |-> @.blk + 1, pos |-> 0]]
        = [r EXCEPT !.st = [s EXCEPT !.cur = c]]
    <3>1. r.st = s /\ s.cur.blk = i
      BY <1>1, <1>2
    <3> QED
      BY <2>1, <3>1
  <2>5. PICK t : t = [s EXCEPT !.cur = c]
    OBVIOUS
  <2>6. [r EXCEPT !.st = t] = [st |-> t, left |-> n, octets |-> o]
    <3>1. r = [st |-> s, left |-> n, octets |-> o]
      BY <1>1
    <3> QED
      BY <3>1
  <2>7. Reading([st |-> t, left |-> n, octets |-> o]) /\ t.blocks = r.st.blocks
    BY <1>7, <2>2, <2>5
  <2> QED
    BY <2>3, <2>4, <2>5, <2>6, <2>7
<1>10. CASE ~ (n > 0 /\ j < end) /\ ~ (n > 0 /\ i < lb)
  <2>1. Str!ReadPass(r) = r
    BY <1>2, <1>6, <1>10
  <2> QED
    BY <2>1
<1> QED
  BY <1>8, <1>9, <1>10

\* The read loop leaves a sound stream sound, and has read octets.
LEMMA ReadEnds ==
    ASSUME Str!StreamConstants, kind = "seg", NEW n \in Nat, NEW s, Sound(s)
    PROVE  Sound(Str!ArrayRd(s, n).st) /\ Str!ArrayRd(s, n).octets \in Seq(Values)
<1> DEFINE passes == IF n > 0 /\ Str!Readable(s) THEN 2 * n ELSE 0
           r == [st |-> s, left |-> n, octets |-> <<>>]
           after[i \in 0 .. passes] == IF i = 0 THEN r ELSE Str!ReadPass(after[i - 1])
<1>1. PICK m \in Nat : m = passes
  OBVIOUS
<1>2. after = [i \in 0 .. passes |-> IF i = 0 THEN r ELSE Str!ReadPass(after[i - 1])]
  <2> HIDE DEF passes, r
  <2>1. passes \in Nat
    BY <1>1
  <2>2. PICK f : ReadsPass(r, passes, f)
    BY <2>1, ReadPasses
  <2>3. f = [i \in 0 .. passes |-> IF i = 0 THEN r ELSE Str!ReadPass(f[i - 1])]
    BY <2>2 DEF ReadsPass
  <2> QED
    BY <2>3
<1>3. Str!ArrayRd(s, n) = after[m]
  BY <1>1 DEF Str!ArrayRd
<1>4. m # 0 => s.blocks # <<>>
  BY <1>1 DEF Str!Readable
<1> HIDE DEF passes
<1>5. PICK f : f = after
  OBVIOUS
<1> HIDE DEF after, r
<1>6. f[0] = r /\ \A i \in 1 .. m : f[i] = Str!ReadPass(f[i - 1])
  <2>1. f = [i \in 0 .. m |-> IF i = 0 THEN r ELSE Str!ReadPass(f[i - 1])]
    BY <1>1, <1>2, <1>5
  <2>2. 0 \in 0 .. m /\ \A i \in 1 .. m : i \in 0 .. m /\ i # 0
    OBVIOUS
  <2> QED
    BY <2>1, <2>2
<1>7. r.st = s /\ r.octets = <<>>
  BY DEF r
<1>8. Sound(f[m].st) /\ f[m].octets \in Seq(Values)
  <2>1. CASE m = 0
    <3>1. <<>> \in Seq(Values)
      OBVIOUS
    <3> QED
      BY <1>6, <1>7, <2>1, <3>1
  <2>2. CASE m # 0
    <3> DEFINE G == {i \in Nat : i <= m => Reading(f[i]) /\ f[i].st.blocks = s.blocks}
    <3>1. 0 \in G
      <4>1. r \in [st : Streams, left : Nat, octets : Seq(Values)]
        BY DEF r, Sound
      <4> QED
        BY <1>4, <1>6, <1>7, <2>2, <4>1 DEF Reading
    <3>2. ASSUME NEW i \in Nat, i \in G PROVE i + 1 \in G
      <4> SUFFICES ASSUME i + 1 <= m
                   PROVE  Reading(f[i + 1]) /\ f[i + 1].st.blocks = s.blocks
        OBVIOUS
      <4>1. i + 1 \in 1 .. m /\ (i + 1) - 1 = i
        OBVIOUS
      <4>2. PICK v : v = f[i] /\ Reading(v) /\ v.st.blocks = s.blocks
        BY <3>2
      <4>3. f[i + 1] = Str!ReadPass(v)
        BY <1>6, <4>1, <4>2
      <4>4. Reading(Str!ReadPass(v)) /\ Str!ReadPass(v).st.blocks = v.st.blocks
        BY <4>2, PassReads
      <4> QED
        BY <4>2, <4>3, <4>4
    <3>3. m \in G
      <4> HIDE DEF G
      <4> QED
        BY <3>1, <3>2, CountingUp
    <3>4. Reading(f[m]) /\ f[m].st.blocks = s.blocks
      BY <3>3
    <3> QED
      BY <3>4 DEF Reading
  <2> QED
    BY <2>1, <2>2
<1> QED
  BY <1>3, <1>5, <1>8

\* The octets before a segment: the sum of as many capacities.
LEMMA SumIsTotal ==
    ASSUME NEW w PROVE Str!SumFunction(w) = Total(w, DOMAIN w)
<1>1. Str!SumFunction(w) = (CHOOSE g : Sums(w, DOMAIN w, g))[DOMAIN w]
  BY DEF Str!SumFunction, Str!SumFunctionOnSet, Str!FoldFunctionOnSet, Str!MapThenFoldSet,
         Sums, SumFrom, Chosen
<1> QED
  BY <1>1, TotalIsSum

Before(s, b) == Str!Offset(kind, s, [blk |-> b, pos |-> 0])

LEMMA OctetsBefore ==
    ASSUME Str!StreamConstants, kind = "seg", NEW s
    PROVE  /\ \A b \in Nat : Before(s, b) \in Nat /\ Before(s, b + 1) = Before(s, b) + Cap
           /\ Before(s, 0) = 0
           /\ \A p \in Places : Str!Offset(kind, s, p) = Before(s, p.blk) + p.pos
<1>0. Cap \in Nat \ {0}
  BY DEF Str!StreamConstants
<1> DEFINE sizes(b) == [c \in 0 .. b - 1 |-> Cap]
           sum(b) == Total(sizes(b), 0 .. b - 1)
<1>1. \A b : Str!SumFunction([c \in 0 .. b - 1 |-> Str!BlockSize(kind, s, c)]) = sum(b)
  <2> SUFFICES ASSUME NEW b
               PROVE  Str!SumFunction([c \in 0 .. b - 1 |-> Str!BlockSize(kind, s, c)]) = sum(b)
    OBVIOUS
  <2>1. [c \in 0 .. b - 1 |-> Str!BlockSize(kind, s, c)] = sizes(b)
    BY DEF Str!BlockSize
  <2>2. DOMAIN sizes(b) = 0 .. b - 1
    OBVIOUS
  <2> HIDE DEF sizes
  <2> QED
    BY <2>1, <2>2, SumIsTotal
<1>2. \A b \in Nat : sum(b) \in Nat /\ sum(b + 1) = sum(b) + Cap
  <2> SUFFICES ASSUME NEW b \in Nat PROVE sum(b) \in Nat /\ sum(b + 1) = sum(b) + Cap
    OBVIOUS
  <2>1. IsFiniteSet(0 .. b - 1) /\ IsFiniteSet(0 .. b)
    <3>1. 0 \in Int /\ b - 1 \in Int /\ b \in Int
      OBVIOUS
    <3> QED
      BY <3>1, FS_Interval
  <2>2. PICK v, w : v = sizes(b) /\ w = sizes(b + 1)
    OBVIOUS
  <2>3. /\ \A x \in 0 .. b - 1 : v[x] = Cap /\ v[x] \in Nat /\ w[x] = v[x]
        /\ \A x \in 0 .. b : w[x] = Cap /\ w[x] \in Nat
        /\ b \in 0 .. b /\ (0 .. b) \ {b} = 0 .. b - 1 /\ (b + 1) - 1 = b
    BY <1>0, <2>2
  <2>4. Total(v, 0 .. b - 1) \in Nat
    BY <2>1, <2>3, TotalType
  <2>5. Total(w, 0 .. b) = w[b] + Total(w, (0 .. b) \ {b})
    BY <2>1, <2>3, TotalRemove
  <2>6. Total(w, 0 .. b - 1) = Total(v, 0 .. b - 1)
    BY <2>1, <2>3, TotalSame
  <2>7. sum(b) = Total(v, 0 .. b - 1) /\ sum(b + 1) = Total(w, 0 .. b)
    BY <2>2, <2>3
  <2> HIDE DEF sum
  <2>8. w[b] = Cap /\ (0 .. b) \ {b} = 0 .. b - 1
    BY <2>3
  <2>9. PICK t \in Nat : t = Total(v, 0 .. b - 1)
    BY <2>4
  <2>10. sum(b + 1) = Cap + t /\ sum(b) = t
    BY <2>5, <2>6, <2>7, <2>8, <2>9
  <2> QED
    BY <1>0, <2>10
<1>3. sum(0) = 0
  <2>1. 0 .. 0 - 1 = {}
    OBVIOUS
  <2> QED
    BY <2>1, TotalEmpty
<1> HIDE DEF sum
<1>4. \A b : Before(s, b) = sum(b) + 0
  BY <1>1 DEF Before, Str!Offset
<1>5. \A b \in Nat : Before(s, b) = sum(b)
  BY <1>2, <1>4
<1>6. \A p \in Places : Str!Offset(kind, s, p) = Before(s, p.blk) + p.pos
  <2> SUFFICES ASSUME NEW p \in Places PROVE Str!Offset(kind, s, p) = Before(s, p.blk) + p.pos
    OBVIOUS
  <2>1. p.blk \in Nat
    BY DEF Places
  <2>2. Str!Offset(kind, s, p) = sum(p.blk) + p.pos
    BY <1>1 DEF Str!Offset
  <2> QED
    BY <1>5, <2>1, <2>2
<1> QED
  BY <1>2, <1>3, <1>5, <1>6

LEMMA SmallestAndLargest ==
    ASSUME NEW n \in Nat, NEW S \in SUBSET (0 .. n), S # {}
    PROVE  /\ Str!Min(S) \in S /\ \A x \in S : Str!Min(S) <= x
           /\ Str!Max(S) \in S
<1>1. S \subseteq Nat
  OBVIOUS
<1>2. \E x \in S : \A y \in S : x <= y
  <2>1. Min(S) \in S /\ \A y \in S : Min(S) <= y
    BY <1>1, MinExists
  <2> QED
    BY <2>1
<1>3. \E x \in S : \A y \in S : x >= y
  <2> DEFINE T == {n - x : x \in S}
  <2>1. T \subseteq Nat /\ T # {}
    <3>1. \A x \in S : n - x \in Nat
      OBVIOUS
    <3> QED
      BY <3>1
  <2>2. PICK m \in T : \A y \in T : m <= y
    <3> HIDE DEF T
    <3> QED
      BY <2>1, MinExists
  <2>3. PICK x \in S : m = n - x
    BY <2>2
  <2>4. ASSUME NEW y \in S PROVE x >= y
    <3>1. n - x <= n - y
      BY <2>2, <2>3
    <3>2. x \in Int /\ y \in Int
      BY <1>1
    <3> QED
      BY <3>1, <3>2
  <2> QED
    BY <2>4
<1> QED
  BY <1>2, <1>3 DEF Str!Min, Str!Max

\* Wherever a seek ends, it is within the written segments.
LEMMA SeekKeepsSound ==
    ASSUME Str!StreamConstants, kind = "seg", NEW s, Sound(s), NEW p \in Nat
    PROVE  Sound(Str!SeekTo(s, p).st)
<1>0. Cap \in Nat \ {0}
  BY DEF Str!StreamConstants
<1> DEFINE Here(b) == IF b < s.last.blk THEN Str!BlockSize(kind, s, b) ELSE s.last.pos
           walked == {b \in 0 .. s.last.blk : Str!ValidBlock(s, b)}
           ends == {b \in walked : Before(s, b) + Here(b) >= p}
           found == [blk |-> Str!Min(ends), pos |-> p - Before(s, Str!Min(ends))]
           end == [blk |-> Str!Max(walked), pos |-> Here(Str!Max(walked))]
<1>1. Str!SeekTo(s, p).st = IF ends # {} THEN [s EXCEPT !.cur = found]
                            ELSE IF walked # {} THEN [s EXCEPT !.cur = end] ELSE s
  BY DEF Str!SeekTo, Before
<1>2. Sound(Str!SeekTo(s, p).st)
  <2>1. PICK n \in Nat, lp \in 0 .. Cap : n = s.last.blk /\ lp = s.last.pos
    BY DEF Sound, Streams, Places
  <2>2. ASSUME walked # {} PROVE s.blocks # <<>>
    <3>1. PICK b \in 0 .. n : b < Len(s.blocks)
      BY <2>1, <2>2 DEF Str!ValidBlock
    <3> QED
      BY <3>1
  <2>3. \A b : b < s.last.blk => Here(b) = Cap
    BY DEF Str!BlockSize
  <2>4. \A b \in 0 .. n : Here(b) \in 0 .. Cap
    BY <1>0, <2>1, <2>3
  <2>5. walked \in SUBSET (0 .. n) /\ ends \in SUBSET (0 .. n)
    BY <2>1
  <2>6. CASE ends # {}
    <3>1. PICK m \in ends : m = Str!Min(ends) /\ \A x \in ends : m <= x
      <4> HIDE DEF ends
      <4> QED
        BY <2>5, <2>6, SmallestAndLargest
    <3>2. m \in 0 .. n /\ m \in walked /\ Before(s, m) + Here(m) >= p
      BY <2>5, <3>1
    <3>3. PICK before \in Nat, room \in 0 .. Cap : before = Before(s, m) /\ room = Here(m)
      <4>1. Before(s, m) \in Nat
        <5>1. m \in Nat
          BY <3>2
        <5> QED
          BY <5>1, OctetsBefore
      <4> HIDE DEF Here
      <4> QED
        BY <2>4, <3>2, <4>1
    <3>4. p >= before
      <4>1. CASE m = 0
        <5>1. before = 0
          BY <3>3, <4>1, OctetsBefore
        <5> QED
          BY <5>1
      <4>2. CASE m # 0
        <5>1. PICK k \in 0 .. n : m = k + 1
          <6>1. m - 1 \in 0 .. n /\ m = (m - 1) + 1
            BY <3>2, <4>2
          <6> QED
            BY <6>1
        <5>2. k < n /\ k \notin ends /\ k < m
          <6>1. k < n /\ ~ (m <= k) /\ k < m
            BY <3>2, <5>1
          <6> QED
            BY <3>1, <6>1
        <5>3. k \in walked
          <6>1. m < Len(s.blocks)
            BY <3>2 DEF Str!ValidBlock
          <6>2. PICK l \in Nat : l = Len(s.blocks)
            BY LenProperties DEF Sound, Streams
          <6>3. k < l
            BY <3>2, <5>1, <6>1, <6>2
          <6> QED
            BY <2>1, <6>2, <6>3 DEF Str!ValidBlock
        <5>4. ~ (Before(s, k) + Here(k) >= p) /\ Here(k) = Cap
          BY <2>1, <2>3, <5>2, <5>3
        <5>5. PICK q \in Nat : q = Before(s, k) /\ before = q + Cap
          <6>1. Before(s, k) \in Nat /\ Before(s, k + 1) = Before(s, k) + Cap
            <7>1. k \in Nat
              BY <5>1
            <7> QED
              BY <7>1, OctetsBefore
          <6> QED
            BY <3>3, <5>1, <6>1
        <5>6. ~ (q + Cap >= p)
          BY <5>4, <5>5
        <5> QED
          BY <1>0, <5>5, <5>6
      <4> QED
        BY <4>1, <4>2
    <3>5. p - before \in 0 .. Cap
      <4>1. before + room >= p
        BY <3>2, <3>3
      <4> QED
        BY <1>0, <3>4, <4>1
    <3>6. PICK c \in Places : c = found /\ c.blk = m
      <4>1. found = [blk |-> m, pos |-> p - before]
        BY <3>1, <3>3
      <4>2. [blk |-> m, pos |-> p - before] \in Places
        BY <3>2, <3>5 DEF Places
      <4> HIDE DEF found
      <4> QED
        BY <4>1, <4>2
    <3>7. Sound([s EXCEPT !.cur = c])
      <4>1. c.blk <= s.last.blk /\ s.blocks # <<>>
        BY <2>1, <2>2, <3>2, <3>6
      <4> QED
        BY <4>1, MoveKeepsSound
    <3> HIDE DEF ends, walked, found, end
    <3> QED
      BY <1>1, <2>6, <3>6, <3>7
  <2>7. CASE ends = {} /\ walked # {}
    <3>1. PICK m \in walked : m = Str!Max(walked)
      <4> HIDE DEF walked
      <4> QED
        BY <2>5, <2>7, SmallestAndLargest
    <3>2. m \in 0 .. n
      BY <2>5, <3>1
    <3>3. PICK c \in Places : c = end /\ c.blk = m
      <4>1. end = [blk |-> m, pos |-> Here(m)]
        BY <3>1
      <4>2. [blk |-> m, pos |-> Here(m)] \in Places
        <5> HIDE DEF Here
        <5> QED
          BY <2>4, <3>2 DEF Places
      <4> HIDE DEF end
      <4> QED
        BY <4>1, <4>2
    <3>4. Sound([s EXCEPT !.cur = c])
      <4>1. c.blk <= s.last.blk /\ s.blocks # <<>>
        BY <2>1, <2>2, <2>7, <3>2, <3>3
      <4> QED
        BY <4>1, MoveKeepsSound
    <3> HIDE DEF ends, walked, found, end
    <3> QED
      BY <1>1, <2>7, <3>3, <3>4
  <2>8. CASE ends = {} /\ walked = {}
    <3> HIDE DEF ends, walked, found, end
    <3> QED
      BY <1>1, <2>8
  <2> QED
    BY <2>6, <2>7, <2>8
<1> QED
  BY <1>2

LEMMA NothingIsSound ==
    ASSUME Str!StreamConstants
    PROVE  Sound(Str!NoStorage) /\ Unsealed(Str!NoStorage.blocks)
<1>0. Cap \in Nat \ {0}
  BY DEF Str!StreamConstants
<1>1. PICK e \in Places : e = Str!Start /\ e.blk = 0
  <2>1. Str!Start \in Places /\ Str!Start.blk = 0
    BY <1>0 DEF Str!Start, Places
  <2> QED
    BY <2>1
<1>2. PICK s : s = Str!NoStorage
  OBVIOUS
<1>3. s = [blocks |-> <<>>, cur |-> e, last |-> e]
  BY <1>1, <1>2 DEF Str!NoStorage
<1>4. <<>> \in Seq(SegBlocks) /\ Len(<<>>) = 0
  OBVIOUS
<1>5. s \in Streams /\ s.blocks = <<>> /\ s.cur = e /\ s.last = e
  BY <1>1, <1>3, <1>4 DEF Streams
<1>6. \A i \in 1 .. Len(<<>>) : FALSE
  BY <1>4
<1>7. Numbered(<<>>) /\ Unsealed(<<>>)
  BY <1>6 DEF Numbered, Unsealed
<1>8. e.blk <= e.blk
  BY <1>1
<1> QED
  BY <1>1, <1>2, <1>5, <1>7, <1>8 DEF Sound

\* Finalize seals the segments: what is shipped may be loaded.
LEMMA FinalizedIsLoadable ==
    ASSUME Str!StreamConstants, NEW s, Sound(s), s.blocks # <<>>
    PROVE  Loadable(Str!Finalize(s))
<1>0. Cap \in Nat \ {0}
  BY DEF Str!StreamConstants
<1>1. PICK b \in Seq(SegBlocks), c \in Places, l \in Places :
          s = [blocks |-> b, cur |-> c, last |-> l]
  BY DEF Sound, Streams
<1>2. s.blocks = b /\ s.cur = c /\ s.last = l
  BY <1>1
<1>3. PICK n \in Nat \ {0} : n = Len(b)
  BY <1>2, EmptySeq, LenProperties
<1>4. PICK lp \in 1 .. Cap : lp = l.pos
  <2>1. l.pos \in 0 .. Cap /\ l.pos > 0
    BY <1>2 DEF Sound, Places
  <2> QED
    BY <1>0, <2>1
<1>5. n \in 1 .. Len(b) /\ n \in 1 .. n
  BY <1>3
<1>6. PICK x \in SegBlocks : x = b[n]
  BY <1>5, ElementOfSeq
<1>7. Numbered(b) /\ (Unsealed(b) \/ Sealed(b))
  BY <1>2 DEF Sound
<1>8. \A j \in 1 .. n : j # n \/ n = 1 => b[j].initial = FALSE
  <2>1. CASE Unsealed(b)
    BY <1>3, <2>1 DEF Unsealed
  <2>2. CASE Sealed(b)
    BY <1>3, <2>2 DEF Sealed
  <2> QED
    BY <1>7, <2>1, <2>2
<1>9. PICK h \in BOOLEAN : h = (x.initial \/ n > 1)
  OBVIOUS
<1>10. (n = 1 => h = FALSE) /\ (n # 1 => h = TRUE)
  <2>1. CASE n = 1
    <3>1. x.initial = FALSE /\ ~ (n > 1)
      BY <1>5, <1>6, <1>8, <2>1
    <3> QED
      BY <1>9, <2>1, <3>1
  <2>2. CASE n # 1
    <3>1. n > 1
      BY <2>2
    <3> QED
      BY <1>9, <2>2, <3>1
  <2> QED
    BY <2>1, <2>2
<1>11. PICK y : y = [x EXCEPT !.dlen = lp, !.initial = x.initial \/ Len(s.blocks) > 1]
  OBVIOUS
<1>12. y \in SegBlocks /\ y.frag = x.frag /\ y.multi = x.multi /\ y.dlen = lp /\ y.initial = h
  <2>1. y = [x EXCEPT !.dlen = lp, !.initial = h]
    BY <1>2, <1>3, <1>9, <1>11
  <2>2. PICK z : z = [x EXCEPT !.dlen = lp]
    OBVIOUS
  <2>3. z \in SegBlocks /\ z.frag = x.frag /\ z.multi = x.multi /\ z.dlen = lp
    <3>1. lp \in Nat
      BY <1>0
    <3> QED
      BY <2>2, <3>1 DEF SegBlocks
  <2>4. y = [z EXCEPT !.initial = h]
    BY <2>1, <2>2
  <2> QED
    BY <2>3, <2>4 DEF SegBlocks
<1>13. PICK d : d = [b EXCEPT ![n] = y]
  OBVIOUS
<1>14. /\ d \in Seq(SegBlocks) /\ Len(d) = n
       /\ \A j \in 1 .. n : d[j] = IF j = n THEN y ELSE b[j]
  <2>1. /\ [b EXCEPT ![n] = y] \in Seq(SegBlocks) /\ Len([b EXCEPT ![n] = y]) = Len(b)
        /\ \A j \in 1 .. Len(b) : [b EXCEPT ![n] = y][j] = IF j = n THEN y ELSE b[j]
    BY <1>5, <1>12, ExceptSeq
  <2> QED
    BY <1>3, <1>13, <2>1
<1>15. d[n] = y /\ \A j \in 1 .. n : j # n => d[j] = b[j]
  BY <1>5, <1>14
<1>16. PICK t : t = Str!Finalize(s)
  OBVIOUS
<1>17. t = [blocks |-> d, cur |-> c, last |-> l]
  <2>1. t = [s EXCEPT !.blocks[Len(s.blocks)] = y]
    <3>1. Str!Last(s.blocks) = x
      BY <1>2, <1>3, <1>6 DEF Str!Last
    <3>2. t = [s EXCEPT !.blocks[Len(s.blocks)] =
                  [x EXCEPT !.dlen = s.last.pos, !.initial = x.initial \/ Len(s.blocks) > 1]]
      BY <1>16, <3>1 DEF Str!Finalize
    <3>3. [x EXCEPT !.dlen = s.last.pos, !.initial = x.initial \/ Len(s.blocks) > 1] = y
      BY <1>2, <1>4, <1>11, Zenon
    <3> QED
      BY <3>2, <3>3
  <2>2. [s EXCEPT !.blocks[Len(s.blocks)] = y]
        = [s EXCEPT !.blocks = [s.blocks EXCEPT ![Len(s.blocks)] = y]]
    OBVIOUS
  <2>4. [s.blocks EXCEPT ![Len(s.blocks)] = y] = d
    BY <1>2, <1>3, <1>13
  <2>5. [s EXCEPT !.blocks = d] = [blocks |-> d, cur |-> c, last |-> l]
    BY <1>1
  <2> QED
    BY <2>1, <2>2, <2>4, <2>5, Zenon
<1>18. Numbered(d)
  <2>1. ASSUME NEW j \in 1 .. n
        PROVE  /\ d[j].frag = Frag(j) /\ (n = 1 => d[j].multi = FALSE) /\ (n # 1 => d[j].multi = TRUE)
               /\ j < n => d[j].dlen = Cap
    <3>1. /\ b[j].frag = Frag(j) /\ (n = 1 => b[j].multi = FALSE) /\ (n # 1 => b[j].multi = TRUE)
          /\ j < n => b[j].dlen = Cap
      BY <1>3, <1>7 DEF Numbered
    <3>2. CASE j = n
      BY <1>6, <1>12, <1>15, <3>1, <3>2
    <3>3. CASE j # n
      BY <1>15, <3>1, <3>3
    <3> QED
      BY <3>2, <3>3
  <2> QED
    BY <1>14, <2>1 DEF Numbered
<1>19. Sealed(d)
  <2>1. ASSUME NEW j \in 1 .. n
        PROVE  /\ j = n /\ n # 1 => d[j].initial = TRUE
               /\ j # n \/ n = 1 => d[j].initial = FALSE
    <3>2. CASE j = n
      BY <1>10, <1>12, <1>15, <3>2
    <3>3. CASE j # n
      BY <1>8, <1>15, <3>3
    <3> QED
      BY <3>2, <3>3
  <2> QED
    BY <1>14, <2>1 DEF Sealed
<1>20. t \in Streams /\ t.blocks = d /\ t.cur = c /\ t.last = l
  BY <1>14, <1>17 DEF Streams
<1>21. d # <<>>
  BY <1>14
<1>22. Sound(t)
  <2>1. c.blk <= l.blk /\ l.blk = n - 1 /\ l.pos > 0
    BY <1>2, <1>3 DEF Sound
  <2> QED
    BY <1>14, <1>18, <1>19, <1>20, <1>21, <2>1 DEF Sound
<1>23. t.blocks[Len(t.blocks)].dlen \in 1 .. Cap
  BY <1>4, <1>12, <1>14, <1>15, <1>20
<1> QED
  BY <1>16, <1>19, <1>20, <1>21, <1>22, <1>23 DEF Loadable

\* A stream that takes them in ends where its tail does.
LEMMA InjectedIsSound ==
    ASSUME Str!StreamConstants, NEW t, Loadable(t)
    PROVE  Sound(Str!Injected(t.blocks))
<1>0. Cap \in Nat \ {0}
  BY DEF Str!StreamConstants
<1>1. PICK b \in Seq(SegBlocks) : b = t.blocks /\ b # <<>> /\ Numbered(b) /\ Sealed(b)
                                  /\ b[Len(b)].dlen \in 1 .. Cap
  BY DEF Loadable, Sound, Streams
<1>2. PICK n \in Nat \ {0} : n = Len(b)
  BY <1>1, EmptySeq, LenProperties
<1>3. PICK e \in Places : e = Str!Start /\ e.blk = 0
  <2>1. Str!Start \in Places /\ Str!Start.blk = 0
    BY <1>0 DEF Str!Start, Places
  <2> QED
    BY <2>1
<1>4. PICK l : l = [blk |-> n - 1, pos |-> b[n].dlen]
  OBVIOUS
<1>5. l \in Places /\ l.blk = n - 1 /\ l.pos > 0 /\ e.blk <= l.blk
  <2>1. n - 1 \in Nat /\ 0 <= n - 1
    OBVIOUS
  <2>2. b[n].dlen \in 0 .. Cap /\ b[n].dlen > 0
    BY <1>0, <1>1, <1>2
  <2> QED
    BY <1>3, <1>4, <2>1, <2>2 DEF Places
<1>6. PICK s : s = Str!Injected(t.blocks)
  OBVIOUS
<1>7. s = [blocks |-> b, cur |-> e, last |-> l]
  <2>1. PICK z : z = Str!NoStorage
    OBVIOUS
  <2>2. z = [blocks |-> <<>>, cur |-> e, last |-> e]
    BY <1>3, <2>1 DEF Str!NoStorage
  <2>3. s = [z EXCEPT !.blocks = b, !.last = l]
    BY <1>1, <1>2, <1>4, <1>6, <2>1 DEF Str!Injected, Str!Last
  <2>4. PICK q : q = [z EXCEPT !.blocks = b]
    OBVIOUS
  <2>5. q = [blocks |-> b, cur |-> e, last |-> e]
    BY <2>2, <2>4
  <2>6. [q EXCEPT !.last = l] = [blocks |-> b, cur |-> e, last |-> l]
    BY <2>5
  <2>7. [z EXCEPT !.blocks = b, !.last = l] = [[z EXCEPT !.blocks = b] EXCEPT !.last = l]
    OBVIOUS
  <2> QED
    BY <2>3, <2>4, <2>6, <2>7, Zenon
<1>8. s \in Streams /\ s.blocks = b /\ s.cur = e /\ s.last = l
  BY <1>3, <1>5, <1>7 DEF Streams
<1>9. Sound(s)
  BY <1>1, <1>2, <1>5, <1>8 DEF Sound
<1> QED
  BY <1>6, <1>9

LEMMA WriteOctets ==
    ASSUME Str!StreamConstants, NEW o \in Writes
    PROVE  o \in Seq(Values)
<1>1. o \in Seq(Str!ToSet(o)) /\ Str!ToSet(o) \subseteq Values
  <2>1. o \in Seq(Str!ToSet(o))
    BY DEF Str!StreamConstants
  <2>2. Str!ToSet(o) \subseteq Values
    BY DEF Values
  <2> QED
    BY <2>1, <2>2
<1>2. Len(o) \in Nat /\ DOMAIN o = 1 .. Len(o) /\ \A i \in 1 .. Len(o) : o[i] \in Values
  BY <1>1, LenProperties, ElementOfSeq
<1>3. o \in [1 .. Len(o) -> Values]
  BY <1>1, <1>2, LenProperties
<1> QED
  BY <1>2, <1>3, FunctionIsSeq

\* Whatever is written to, read from and moved between streams of segments: the
\* segments of a message that leaves carry their number modulo the width of the
\* field (FragLimit), know whether they are alone, and the tail, and only it, is
\* marked.
THEOREM SegmentsLeaveNumbered ==
    ASSUME Str!StreamConstants PROVE Str!StreamSpec => []SegmentsNumbered
<1>0. Cap \in Nat \ {0} /\ MaxLen \in Nat /\ Counts \subseteq Nat /\ Str!Beyond \in Nat
  BY DEF Str!StreamConstants, Str!Beyond
<1>1. Str!StreamInit => StreamIInv
  <2> SUFFICES ASSUME Str!StreamInit PROVE StreamIInv
    OBVIOUS
  <2>1. st = Str!NoStorage /\ transit = Null
    BY DEF Str!StreamInit
  <2> QED
    BY <2>1, NothingIsSound DEF StreamIInv
<1>2. StreamIInv /\ [Str!StreamNext]_(Str!streamVars) => StreamIInv'
  <2> SUFFICES ASSUME StreamIInv, [Str!StreamNext]_(Str!streamVars) PROVE StreamIInv'
    OBVIOUS
  <2>1. CASE UNCHANGED Str!streamVars
    BY <2>1 DEF Str!streamVars, StreamIInv
  <2>2. ASSUME kind' = kind, transit' = transit, kind = "seg" => Sound(st)'
        PROVE  StreamIInv'
    <3>1. Loadable(transit)' <=> Loadable(transit)
      BY <2>2 DEF Loadable, Sound, Streams, SegBlocks, Places, Numbered, Sealed, Unsealed
    <3> QED
      BY <2>2, <3>1 DEF StreamIInv
  <2>3. ASSUME kind = "seg" PROVE Sound(st)
    BY <2>3 DEF StreamIInv
  <2>4. ASSUME NEW k \in {"buf", "seg"}, NEW room \in Counts, Str!Construct(k, room)
        PROVE  StreamIInv'
    <3>1. kind' = k /\ transit' = transit /\ transit = Null
          /\ (k = "seg" => st' = Str!NoStorage)
      BY <2>4 DEF Str!Construct, StreamIInv
    <3>2. k = "seg" => Sound(st')
      BY <3>1, NothingIsSound
    <3> QED
      BY <3>1, <3>2 DEF StreamIInv
  <2>5. ASSUME NEW o \in Writes, Str!Write(o) PROVE StreamIInv'
    <3>1. kind' = kind /\ transit' = transit /\ st' = Str!ArrayWr(st, o)
      BY <2>5 DEF Str!Write
    <3>2. ASSUME kind = "seg" PROVE Sound(st) /\ Unsealed(st.blocks)
      <4>0. Sound(st)
        BY <2>3, <3>2
      <4>1. \A i \in DOMAIN st.blocks : ~ st.blocks[i].initial
        BY <2>5, <3>2 DEF Str!Write, Str!Writable
      <4>2. PICK b \in Seq(SegBlocks) : b = st.blocks
        BY <4>0 DEF Sound, Streams
      <4>3. \A i \in 1 .. Len(b) : b[i].initial \in BOOLEAN
        <5>1. \A i \in 1 .. Len(b) : b[i] \in SegBlocks
          BY ElementOfSeq
        <5> QED
          BY <5>1 DEF SegBlocks
      <4>4. DOMAIN b = 1 .. Len(b)
        BY LenProperties
      <4> QED
        BY <4>0, <4>1, <4>2, <4>3, <4>4 DEF Unsealed
    <3>3. ASSUME kind = "seg" PROVE Sound(st')
      <4>1. o \in Seq(Values)
        BY WriteOctets
      <4> QED
        BY <3>1, <3>2, <3>3, <4>1, WriteKeepsSound
    <3> QED
      BY <2>2, <3>1, <3>3
  <2>6. ASSUME NEW n \in Nat, st' = Str!ArrayRd(st, n).st, kind' = kind, transit' = transit
        PROVE  StreamIInv'
    <3>1. ASSUME kind = "seg" PROVE Sound(st')
      BY <2>3, <2>6, <3>1, ReadEnds
    <3> QED
      BY <2>2, <2>6, <3>1
  <2>7. ASSUME NEW p, kind = "seg" /\ Sound(st) => p \in Nat,
               st' = Str!SeekTo(st, p).st, kind' = kind, transit' = transit
        PROVE  StreamIInv'
    <3>1. ASSUME kind = "seg" PROVE Sound(st')
      BY <2>3, <2>7, <3>1, SeekKeepsSound
    <3> QED
      BY <2>2, <2>7, <3>1
  <2>8. ASSUME kind = "seg", Sound(st) PROVE Str!Pos(st) \in Nat /\ Str!LenGet(st) \in Nat
    <3>1. PICK c \in Places, l \in Places : c = st.cur /\ l = st.last
      BY <2>8 DEF Sound, Streams
    <3>2. c.blk \in Nat /\ c.pos \in Nat /\ l.blk \in Nat /\ l.pos \in Nat
      BY <1>0 DEF Places
    <3>3. Before(st, c.blk) \in Nat /\ Before(st, l.blk) \in Nat
          /\ Str!Offset(kind, st, c) = Before(st, c.blk) + c.pos
          /\ Str!Offset(kind, st, l) = Before(st, l.blk) + l.pos
      BY <2>8, <3>2, OctetsBefore
    <3>4. PICK x \in Nat, y \in Nat, z \in Nat, u \in Nat :
              x = Before(st, c.blk) /\ y = c.pos /\ z = Before(st, l.blk) /\ u = l.pos
      BY <3>2, <3>3
    <3>5. x + y \in Nat /\ z + u \in Nat
      OBVIOUS
    <3> QED
      BY <3>1, <3>3, <3>4, <3>5 DEF Str!Pos, Str!LenGet
  <2>9. ASSUME NEW n \in Counts,
               Str!Read(n) \/ Str!Seek(n) \/ Str!Skip(n) \/ Str!Back(n) \/ Str!Crc32Get(n)
        PROVE  StreamIInv'
    <3>0. n \in Nat
      BY <1>0
    <3>1. CASE Str!Read(n)
      BY <2>6, <3>0, <3>1 DEF Str!Read
    <3>2. CASE Str!Seek(n)
      BY <2>7, <3>0, <3>2 DEF Str!Seek, Str!Moved
    <3>3. CASE Str!Skip(n)
      <4>1. st' = Str!SkipBy(st, n).st /\ kind' = kind /\ transit' = transit
        BY <3>3 DEF Str!Skip, Str!Moved
      <4>2. PICK p : p = (IF n > 0 THEN Str!Pos(st) + n ELSE Str!Beyond)
        OBVIOUS
      <4>3. kind = "seg" /\ Sound(st) => p \in Nat
        BY <1>0, <2>8, <3>0, <4>2
      <4>4. st' = Str!SeekTo(st, p).st
        BY <4>1, <4>2 DEF Str!SkipBy
      <4> QED
        BY <2>7, <4>1, <4>3, <4>4
    <3>4. CASE Str!Back(n)
      <4>1. st' = Str!BackBy(st, n).st /\ kind' = kind /\ transit' = transit
        BY <3>4 DEF Str!Back, Str!Moved
      <4>2. PICK p : p = (IF Str!Pos(st) >= n THEN Str!Pos(st) - n ELSE 0)
        OBVIOUS
      <4>3. kind = "seg" /\ Sound(st) => p \in Nat
        BY <1>0, <2>8, <3>0, <4>2
      <4>4. st' = Str!SeekTo(st, p).st
        BY <4>1, <4>2 DEF Str!BackBy
      <4> QED
        BY <2>7, <4>1, <4>3, <4>4
    <3>5. CASE Str!Crc32Get(n)
      BY <2>1, <2>2, <2>3, <3>5 DEF Str!Crc32Get
    <3> QED
      BY <2>9, <3>1, <3>2, <3>3, <3>4, <3>5
  <2>10. CASE Str!ReadLine
    <3>1. st' = Str!LineRead(st).st /\ kind' = kind /\ transit' = transit
      BY <2>10 DEF Str!ReadLine
    <3> DEFINE all == Str!ArrayRd(st, Str!Beyond).octets
               ends == {i \in (1 .. Str!Beyond) \cap DOMAIN all : all[i] = Term}
    <3>2. PICK n : n = (IF ends = {} THEN Str!Beyond ELSE Str!Min(ends))
      OBVIOUS
    <3>3. n \in Nat
      <4>1. ends \in SUBSET (0 .. Str!Beyond)
        BY <1>0
      <4> HIDE DEF ends
      <4>2. ends # {} => Str!Min(ends) \in ends
        BY <1>0, <4>1, SmallestAndLargest
      <4> QED
        BY <1>0, <3>2, <4>1, <4>2
    <3>4. st' = Str!ArrayRd(st, n).st
      BY <3>1, <3>2 DEF Str!LineRead
    <3> QED
      BY <2>6, <3>1, <3>3, <3>4
  <2>11. CASE Str!Peek
    BY <2>2, <2>3, <2>11 DEF Str!Peek
  <2>13. CASE Str!Dump
    <3>1. st' = Str!ArrayRd(Str!SeekTo(st, 0).st, Str!Beyond).st /\ kind' = kind /\ transit' = transit
      BY <2>13 DEF Str!Dump
    <3>2. ASSUME kind = "seg" PROVE Sound(st')
      <4>1. Sound(Str!SeekTo(st, 0).st)
        BY <2>3, <3>2, SeekKeepsSound
      <4> QED
        BY <1>0, <3>1, <3>2, <4>1, ReadEnds
    <3> QED
      BY <2>2, <3>1, <3>2
  <2>14. CASE Str!Clear
    <3>1. st' = Str!NoStorage /\ kind' = kind /\ transit' = transit
      BY <2>14 DEF Str!Clear
    <3> QED
      BY <2>2, <3>1, NothingIsSound
  <2>15. CASE Str!Assign
    <3>1. PICK r : /\ r = Str!ArrayRd(Str!SeekTo(st, 0).st, Str!LenGet(st))
                   /\ st' = Str!ArrayWr(Str!NoStorage, r.octets)
                   /\ kind' = kind /\ transit' = transit
      BY <2>15 DEF Str!Assign
    <3>2. ASSUME kind = "seg" PROVE Sound(st')
      <4>1. Sound(st)
        BY <2>3, <3>2
      <4>2. Sound(Str!SeekTo(st, 0).st)
        BY <3>2, <4>1, SeekKeepsSound
      <4>3. Str!LenGet(st) \in Nat
        BY <2>8, <3>2, <4>1
      <4>4. r.octets \in Seq(Values)
        BY <3>1, <3>2, <4>2, <4>3, ReadEnds
      <4> QED
        BY <3>1, <3>2, <4>4, NothingIsSound, WriteKeepsSound
    <3> QED
      BY <2>2, <3>1, <3>2
  <2>16. CASE Str!Ship
    <3>1. kind' = kind /\ st' = Str!NoStorage /\ kind # Null
          /\ (kind = "seg" => st.blocks # <<>> /\ transit' = Str!Finalize(st))
      BY <2>16 DEF Str!Ship, Str!Open, Str!StreamConstants
    <3>2. ASSUME kind = "seg" PROVE Sound(st') /\ Loadable(transit')
      <4>1. Sound(st)
        BY <2>3, <3>2
      <4>2. Loadable(Str!Finalize(st))
        BY <3>1, <3>2, <4>1, FinalizedIsLoadable
      <4> QED
        BY <3>1, <3>2, <4>2, NothingIsSound
    <3> QED
      BY <3>1, <3>2 DEF StreamIInv
  <2>17. CASE Str!Load
    <3>1. kind' = kind /\ transit' = Null /\ transit # Null
          /\ (kind = "seg" => st' = Str!Injected(transit.blocks))
      BY <2>17 DEF Str!Load
    <3>2. kind = "seg" => Sound(st')
      BY <3>1, InjectedIsSound DEF StreamIInv
    <3> QED
      BY <3>1, <3>2 DEF StreamIInv
  <2>18. CASE Str!MemoryAddFails
    <3>1. kind' = "crashed" /\ transit' = transit /\ (kind = Null \/ transit = Null)
      BY <2>18 DEF Str!MemoryAddFails, Str!Writable, Str!Open
    <3> QED
      BY <3>1 DEF StreamIInv
  <2>19. CASE Str!StreamNext
    <3>1. \/ \E k \in {"buf", "seg"}, room \in Counts : Str!Construct(k, room)
          \/ Str!MemoryAddFails
          \/ \E o \in Writes : Str!Write(o)
          \/ \E n \in Counts : Str!Read(n) \/ Str!Seek(n) \/ Str!Skip(n) \/ Str!Back(n)
                               \/ Str!Crc32Get(n)
          \/ Str!ReadLine \/ Str!Peek \/ Str!Dump \/ Str!Clear \/ Str!Assign \/ Str!Ship \/ Str!Load
      BY <2>19 DEF Str!StreamNext
    <3> QED
      BY <2>4, <2>5, <2>9, <2>10, <2>11, <2>13, <2>14, <2>15, <2>16, <2>17, <2>18, <3>1
  <2> QED
    BY <2>1, <2>19
<1> QED
  BY <1>1, <1>2, StreamInvariant, PTL DEF Str!StreamSpec
=============================================================================
