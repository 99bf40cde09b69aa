------------------------------- MODULE MemMgr -------------------------------
(***************************************************************************)
(* cp::MemManager and cp::MemPool (cpMemMgr.cpp): blocks of memory from    *)
(* pools of fixed block sizes, or from the heap when every pool's blocks   *)
(* are too small.  The manager's mutex covers the search for a pool and    *)
(* all that is done to it; the guard of a block is set after the unlock    *)
(* and tested and cleared before the lock, as steps of their own.  Clients *)
(* return only blocks they hold.                                           *)
(***************************************************************************)
EXTENDS Integers, FiniteSets, FiniteSetsExt, Sequences, SequencesExt

CONSTANTS Threads,
          Blocks,     \* names of blocks: the heap is exhausted after so many
          Sizes,      \* block sizes, also those that clients ask for
          InitSize, InitCount, \* the constructor's pool: block size, segments
          MaxSegment, \* the largest initial count or increment of CreatePool
          Word,       \* 2^32: counters are uint32_t
          NoBlock, None

ASSUME MemMgrAssumption ==
    /\ IsFiniteSet(Threads) /\ IsFiniteSet(Blocks) /\ IsFiniteSet(Sizes)
    /\ \A n \in Sizes : n \in Nat /\ 0 < n /\ n < Word
    /\ InitSize \in Sizes /\ InitCount \in 1 .. Cardinality(Blocks)
    /\ MaxSegment \in Nat /\ Word \in Nat \ {0}
    /\ NoBlock \notin Blocks /\ None \notin Threads

VARIABLES pools,     \* the sizes of the pools: m_PoolHead's list, ascending
          pool,      \* for each of them its inventory list and its counters
          size,      \* m_BlockSize of each block, 0 for no block
          custom,    \* blocks allocated one by one from the heap
          guard,     \* whether a block carries the sentinel
          holder,    \* the thread that holds a block's pointer, or None
          call,      \* the call each thread is in, and its block
          deployed,  \* m_DeployedSize
          crashed    \* GuardOn went through a pointer to nothing

vars == <<pools, pool, size, custom, guard, holder, call, deployed, crashed>>

Idle == [at |-> "idle", block |-> NoBlock]
EmptyPool == [free |-> <<>>, total |-> 0, inventory |-> 0, peak |-> 0, inc |-> 0]

\* The pool for a size is the one with the smallest blocks that are not too
\* small; PoolsFor is empty when there is none.
PoolsFor(n) == {p \in pools : p >= n}
PoolGet(n) == Min(PoolsFor(n))

\* The blocks of a new segment of n blocks, or none: AllocateSegment fails for
\* no blocks and when the heap is exhausted.
Unused == {b \in Blocks : size[b] = 0}
NewSegment(n) ==
    IF n <= Cardinality(Unused) THEN SubSeq(SetToSeq(Unused), 1, n) ELSE <<>>

\* MemPool::AllocateSegment puts the new blocks in the inventory.
AllocateSegment(p, seg) ==
    [p EXCEPT !.free = @ \o seg,
              !.total = (@ + Len(seg)) % Word,
              !.inventory = (@ + Len(seg)) % Word]

Sized(seg, n) == [b \in Blocks |-> IF b \in ToSet(seg) THEN n ELSE size[b]]

\* MemPool::MemBlockGet from an inventory that is not empty.
TakeHead(p) ==
    LET inv  == (p.inventory + Word - 1) % Word
        used == (p.total + Word - inv) % Word
    IN  [p EXCEPT !.free = Tail(@),
                  !.inventory = inv,
                  !.peak = IF used > @ THEN used ELSE @]

PutTail(p, b) ==
    [p EXCEPT !.free = Append(@, b), !.inventory = (@ + 1) % Word]

\* CreatePool's new pool, with its first segment.
NewPool(seg, inc) == AllocateSegment([EmptyPool EXCEPT !.inc = inc], seg)

\* The singleton is constructed: one CreatePool stands for the six of the code.
Init ==
    LET seg == SubSeq(SetToSeq(Blocks), 1, InitCount) IN
    /\ pools = {InitSize}
    /\ pool = [n \in Sizes |->
                 IF n = InitSize THEN NewPool(seg, InitCount) ELSE EmptyPool]
    /\ size = [b \in Blocks |-> IF b \in ToSet(seg) THEN InitSize ELSE 0]
    /\ custom = {}
    /\ guard = [b \in Blocks |-> FALSE]
    /\ holder = [b \in Blocks |-> None]
    /\ call = [t \in Threads |-> Idle]
    /\ deployed = 0
    /\ crashed = FALSE

-----------------------------------------------------------------------------
\* MemBlockGet up to the unlock has delivered block b of n bytes to thread t.
Deliver(t, b, n) ==
    /\ holder' = [holder EXCEPT ![b] = t]
    /\ call' = [call EXCEPT ![t] = [at |-> "got", block |-> b]]
    /\ deployed' = (deployed + n) % Word

\* Mutant: the inventory is not counted down.
GetFromPool_KeepInventory(t, n) ==
    /\ ~crashed /\ call[t] = Idle
    /\ PoolsFor(n) # {}
    /\ LET p == PoolGet(n)
           seg == IF pool[p].free = <<>> THEN NewSegment(pool[p].inc) ELSE <<>>
           stocked == AllocateSegment(pool[p], seg)
       IN  /\ stocked.free # <<>>
           /\ pool' = [pool EXCEPT ![p] = [stocked EXCEPT !.free = Tail(@)]]
           /\ size' = Sized(seg, p)
           /\ Deliver(t, Head(stocked.free), p)
    /\ UNCHANGED <<pools, custom, guard, crashed>>

\* A pool delivers its oldest block, from a new segment if it has none.
GetFromPool(t, n) ==
    /\ ~crashed /\ call[t] = Idle
    /\ PoolsFor(n) # {}
    /\ LET p == PoolGet(n)
           seg == IF pool[p].free = <<>> THEN NewSegment(pool[p].inc) ELSE <<>>
           stocked == AllocateSegment(pool[p], seg)
       IN  /\ stocked.free # <<>>
           /\ pool' = [pool EXCEPT ![p] = TakeHead(stocked)]
           /\ size' = Sized(seg, p)
           /\ Deliver(t, Head(stocked.free), p)
    /\ UNCHANGED <<pools, custom, guard, crashed>>

\* No pool has blocks of that size: a block of its own from the heap.
GetCustom(t, n) ==
    /\ ~crashed /\ call[t] = Idle
    /\ PoolsFor(n) = {}
    /\ NewSegment(1) # <<>>
    /\ LET b == Head(NewSegment(1))
       IN  /\ size' = [size EXCEPT ![b] = n]
           /\ custom' = custom \cup {b}
           /\ Deliver(t, b, n)
    /\ UNCHANGED <<pools, pool, guard, crashed>>

\* There is no block to deliver, and GuardOn is applied to the caller's pointer,
\* which is null or was never set.
GetNothing(t, n) ==
    /\ ~crashed /\ call[t] = Idle
    /\ NewSegment(IF PoolsFor(n) = {} THEN 1 ELSE pool[PoolGet(n)].inc) = <<>>
    /\ PoolsFor(n) # {} => pool[PoolGet(n)].free = <<>>
    /\ crashed' = TRUE
    /\ UNCHANGED <<pools, pool, size, custom, guard, holder, call, deployed>>

\* MemBlockGet's last statement, without the lock.
GuardOn(t) ==
    /\ ~crashed
    /\ call[t].at = "got"
    /\ guard' = [guard EXCEPT ![call[t].block] = TRUE]
    /\ call' = [call EXCEPT ![t] = Idle]
    /\ UNCHANGED <<pools, pool, size, custom, holder, deployed, crashed>>

\* MemBlockPut before the lock; it refuses a block without its guard.
PutCheck(t, b) ==
    /\ ~crashed /\ call[t] = Idle
    /\ holder[b] = t
    /\ guard[b]
    /\ guard' = [guard EXCEPT ![b] = FALSE]
    /\ call' = [call EXCEPT ![t] = [at |-> "put", block |-> b]]
    /\ UNCHANGED <<pools, pool, size, custom, holder, deployed, crashed>>

\* Mutant: what is returned stays deployed.
Undeploy_StaysDeployed(t, b) ==
    /\ holder' = [holder EXCEPT ![b] = None]
    /\ call' = [call EXCEPT ![t] = Idle]
    /\ UNCHANGED deployed

\* MemBlockPut once a pool or the heap has taken block b.
Undeploy(t, b) ==
    /\ holder' = [holder EXCEPT ![b] = None]
    /\ call' = [call EXCEPT ![t] = Idle]
    /\ deployed' = (deployed + Word - size[b]) % Word

\* Mutant: the pool takes a block of any size.
PutInPool_AnySize(t) ==
    /\ ~crashed /\ call[t].at = "put"
    /\ LET b == call[t].block
       IN  /\ PoolsFor(size[b]) # {}
           /\ pool' = [pool EXCEPT ![PoolGet(size[b])] = PutTail(@, b)]
           /\ Undeploy(t, b)
    /\ UNCHANGED <<pools, size, custom, guard, crashed>>

\* The block goes to the tail of the inventory of its pool.
PutInPool(t) ==
    /\ ~crashed /\ call[t].at = "put"
    /\ LET b == call[t].block
       IN  /\ PoolsFor(size[b]) # {} /\ PoolGet(size[b]) = size[b]
           /\ pool' = [pool EXCEPT ![size[b]] = PutTail(@, b)]
           /\ Undeploy(t, b)
    /\ UNCHANGED <<pools, size, custom, guard, crashed>>

\* No pool's blocks are as large: the block is deleted.
PutCustom(t) ==
    /\ ~crashed /\ call[t].at = "put"
    /\ LET b == call[t].block
       IN  /\ PoolsFor(size[b]) = {}
           /\ size' = [size EXCEPT ![b] = 0]
           /\ custom' = custom \ {b}
           /\ Undeploy(t, b)
    /\ UNCHANGED <<pools, pool, guard, crashed>>

\* The pool found has larger blocks and refuses this one: the caller keeps it.
PutRefused(t) ==
    /\ ~crashed /\ call[t].at = "put"
    /\ LET b == call[t].block
       IN  PoolsFor(size[b]) # {} /\ PoolGet(size[b]) # size[b]
    /\ call' = [call EXCEPT ![t] = Idle]
    /\ UNCHANGED <<pools, pool, size, custom, guard, holder, deployed, crashed>>

\* The application adds a pool; its first segment may be empty or fail.
CreatePool(n, initial, inc) ==
    /\ ~crashed
    /\ n \notin pools
    /\ pools' = pools \cup {n}
    /\ LET seg == NewSegment(initial)
       IN  /\ pool' = [pool EXCEPT ![n] = NewPool(seg, inc)]
           /\ size' = Sized(seg, n)
    /\ UNCHANGED <<custom, guard, holder, call, deployed, crashed>>

Next ==
    \/ \E t \in Threads :
          \/ \E n \in Sizes : GetFromPool(t, n) \/ GetCustom(t, n) \/ GetNothing(t, n)
          \/ GuardOn(t)
          \/ \E b \in Blocks : PutCheck(t, b)
          \/ PutInPool(t) \/ PutCustom(t) \/ PutRefused(t)
    \/ \E n \in Sizes, i, j \in 0 .. MaxSegment : CreatePool(n, i, j)

Spec == Init /\ [][Next]_vars

-----------------------------------------------------------------------------
Words == 0 .. Word - 1

\* Types of the blocks and pools.
TypeOK ==
    /\ pools \subseteq Sizes
    /\ pool \in [Sizes -> [free : Seq(Blocks), total : Words, inventory : Words,
                           peak : Words, inc : Nat]]
    /\ size \in [Blocks -> Sizes \cup {0}]
    /\ custom \subseteq Blocks
    /\ guard \in [Blocks -> BOOLEAN]
    /\ holder \in [Blocks -> Threads \cup {None}]
    /\ call \in [Threads -> {Idle} \cup [at : {"got", "put"}, block : Blocks]]
    /\ deployed \in Words
    /\ crashed \in BOOLEAN

Listed(b) == {p \in Sizes : b \in ToSet(pool[p].free)}

\* A block is with one holder or in the inventory of the pool for its size, and
\* once in it: nothing hands one block to two threads, whatever pools are made
\* between its delivery and its return.  Its guard tells which: a block in an
\* inventory carries none, so that a second return of it is refused; one that a
\* client has got and not returned carries it, unless a pool made since then has
\* refused it.
BlockInOnePlace ==
    \A b \in Blocks :
        /\ Listed(b) = IF size[b] # 0 /\ holder[b] = None THEN {size[b]} ELSE {}
        /\ \A p \in Sizes : IsInjective(pool[p].free)
        /\ size[b] = 0 => holder[b] = None
        /\ holder[b] = None => ~guard[b]
        /\ holder[b] # None /\ call[holder[b]].block # b =>
              guard[b] \/ (b \in custom /\ \E p \in pools : p > size[b])

\* The counters of a pool say what it has: its inventory the length of the list,
\* its total the blocks of its segments, and its peak lies between those in use
\* and all.  No block of a segment ever goes to the heap.  (A custom block that a
\* later pool of its size has adopted is in the inventory and not in the total.)
\* All of these have their types, the counters their width.
CountersExact ==
    /\ TypeOK
    /\ \A p \in pools :
          /\ pool[p].inventory = Len(pool[p].free)
          /\ pool[p].total = Cardinality({b \in Blocks \ custom : size[b] = p})
          /\ (\A b \in custom : size[b] # p) =>
                /\ pool[p].total - pool[p].inventory <= pool[p].peak
                /\ pool[p].peak <= pool[p].total

\* m_DeployedSize is the size of all blocks that clients hold, although it is
\* counted by the size delivered and discounted by the size returned.
DeployedExact ==
    deployed = MapThenSumSet(LAMBDA b : size[b], {b \in Blocks : holder[b] # None}) % Word

\* What cpMemMgr.h says of a block larger than any pool's: its return results in
\* its deallocation back to the heap.  It may as well go to a pool of its size
\* made meanwhile, but it does not stay with the caller.
ReturnReleases ==
    [][\A t \in Threads :
          call[t].at = "put" /\ call'[t] = Idle /\ call[t].block \in custom
              => holder'[call[t].block] = None]_vars

=============================================================================
