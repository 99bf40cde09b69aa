# CodePort++ in TLA+

CodePort++ is a portable operating system abstraction library: threads,
semaphores, queues, timers, memory pools, sockets and files behind one
interface, and on top of them an event dispatcher and an inter-process
communication (IPC) stack of nodes that exchange messages in segments. This
directory holds TLA+ models of its concurrent core, of the IPC stack and of the
data that passes through it, the TLC runs that check them and the TLAPS proofs
about them. Paths are relative to the repository; the
port that is modelled is `platforms/posix`.

## 1. Inventory

| Component | State | Operations | Interacts with | Hard part |
|---|---|---|---|---|
| SemLite (`cpSemLite_I.cpp`) | count, enabled flag, mutex, condition variable | Take(timeout), TryTake, Give, GiveAll, destructor | everything above | lost wake-ups, timeouts racing gives, cancellation in the wait, destruction with callers inside |
| ItcQueue (`cpItcQueue.cpp`) | deque, mutex, two SemLites | Put, Get, both with timeouts | SemLite | deque and tokens must agree at every moment |
| Thread (`cpThread.cpp`, `cpThread_I.cpp`) | run state, exit flag, two SemLites, mutex | Suspend, Resume, ExitReq, WaitExit, Abort, ThreadPoll, ThreadExit, destructor | SemLite, its user function | unlocked polls and aborts, destruction against a running thread |
| Dispatch (`cpDispatch.cpp`) | handlers, threads, ItcQueue of events, stack mutex | SubmitEvent, Shutdown, NumThreadsSet, EventHandlerAdd/Del, destructor | ItcQueue, Thread, Timer, IpcContext | workers, shutdown events and deletion of threads under a lock |
| MemManager, MemPool (`cpMemMgr.cpp`) | pools by block size, inventories, guards, counters | MemBlockGet, MemBlockPut, CreatePool | PooledBase, Alloc, Buffer | pools created while blocks are out; work outside the lock |
| IpcTransmitQueue (`cpIpcNodeUtil.cpp`) | priority list, message ids, semaphore | TransmitMessage, SegmentGet, ReleaseThread | IpcNode's transmit thread | multi-segment messages and priorities, the signal |
| IpcAccumMap, IpcAccum (`cpIpcNodeUtil.cpp`, `cpIpcAccum.cpp`) | partial messages, contexts, queue | SubmitSegment, GetResponse, AccumThread | IpcNode, IpcContext | duplicates, loss, expiry, ownership of segments |
| IpcContext (`cpIpcContext.cpp`) | a stored reply or a dispatcher | MessagePut, MessageGet, RegisterHandler | Dispatch | removal while a caller waits, or while a reply is in its dispatcher |
| IpcNode (`cpIpcNode.cpp`) | two threads, both queues above, a transport | StartNode, StopNode, Send..., control events | all of IPC | request and reply, control events from several threads, destruction against traffic |
| IpcRouter, IpcResolver | maps of names, addresses, queues; caches of addresses | NodeCreate, NodeDel, NodeFind, Send | Queue | check-then-act, addresses that outlive their node, queues used after the unlock |
| IpcTransport, IpcStrmTransport | devices | Send, Recv, ReleaseThread | IoDev | framing on a stream, frames left unfinished, who deletes a segment that fails |
| IoDev, Tcp, Udp, Pipe, NamedPipe, Queue, Serial | descriptors | Send, Recv, SendData, RecvData | the system | partial transfers, retries, time-outs, closed ends |
| StreamBase, StreamBuf, IpcStreamSeg, IpcSegment, IpcDecoder | blocks and a position | read, write, lines, Seek, Skip, Finalize, extract, inject | MemManager, IPC | boundaries of blocks, numbering of segments |
| Datum | a tree of attributes with cursors | Add, Erase, Find, Rewind, Next, Recurse, Encode, Decode | Variant, SerDes | a walk whose state is in the cursors of the tree |
| Variant, SerDesNative, SerDesIdl, SerDesXml, SerDesFactory | a decoder's state and value | insert, extract, Encode, Decode | Stream, Datum | lengths, types, damage, truncation |
| Timer (`cpTimer.cpp`, `cpTimer_I.cpp`) | native timer, SemLite, dispatcher | Start, Stop, SignalEvent, RegisterHandler, destructor | Dispatch | conversion in 32 bits, callback against destruction |
| Buffer | a block and a length | Resize, CopyIn, assignments, transfer of blocks | MemManager | blocks that are kept, passed on and shared |
| SubProcess | a pipe, a thread, a receive buffer, a token | constructor, IsRunning, WaitUntilDone, Cancel, destructor | Thread, the system | completion against cancellation |
| Util, HexIo | (counters of the caller) | tokens, lines, paths, checksums, hex text | | data in blocks, separators at the ends |
| Sem, Mutex, MemMutex, String, CharIo, ... | | | | thin wrappers, helpers |

What makes each of the components correct is stated by the properties of section
4, which follow the hazards that `PROJECT.json` lists line by line.

## 2. Plan

1. Core of the concurrency: Semaphore, SemLite, BoundedFifo, ItcQueue, Thread,
   Dispatch. **Done**, with proofs for SemLite, ItcQueue, Thread and Dispatch.
2. Memory: MemMgr. **Done**, with proofs.
3. IPC: IpcTransmit (the sending half of a node) and IpcAccum (its receiving
   half, with IpcContext), **done**, with proofs; Transport, IpcRouter, Stream
   (segments), IpcNode (control events, reply handlers, the end of a node),
   **done**, with proofs.
4. Data: ByteFile and Stream, Buffer, DatumTree, Variant and SerDes, Text and
   Octets. **Done**, with proofs for Buffer and for what the segments of a Stream
   are marked with; the others are recursive.
5. Timer and SubProcess. **Done**, with proofs.
6. Proofs. **Done**: every safety property of the modules that are said to have
   proofs is a theorem. Section 5 says why the rest is out of the proof system's reach.
7. A module still worth having: an abstract channel (each message is delivered
   whole, or never) for the two halves composed over Transport.

Layering: SemLite implements Semaphore; ItcQueue is written over Semaphore's
atomic grant and give, and implements BoundedFifo; Dispatch is written over
BoundedFifo's atomic put and get and over what Thread promises of its
destructor; the two halves of the IPC node are written over the atomic grant and
give of Semaphore, and the second over BoundedFifo. So each level is checked
against the specification that the next one uses, and no state space contains
more than one level.

## 3. The modules

**Semaphore** (abstract) says what callers of a semaphore may rely on: a call
takes exactly one token, or fails and takes none, and it fails only if it was
timed or the semaphore is closing. **SemLite** is the POSIX implementation. One
action is one section between a lock and the next unlock or wait, because those
statements touch only what the mutex protects; the test of `enabled` before the
lock is a step of its own (`TakeCall`), and so are the three stages of the
destructor. `pc[t]` says where a caller is: entering, blocked in the condition
variable, woken by a signal or broadcast, or expired; `Expire` may happen at any
time to a timed caller, and `SpuriousWake` to any that is blocked. A caller may
enter with the lock free at any moment (barging). Callers may be cancelled in the
wait. The model stops at the destruction of the mutex: what callers still inside
do then is undefined.

**BoundedFifo** (abstract) and **ItcQueue**: Put and Get are split at the
semaphore take, the locked section (push or pop) and the Give that still
happens under the mutex. A Take that times out (`TakeTimeout`) leaves the call.
`Given` models that SemLite::Give drops a token at its limit.

**Thread**: the owner, the native thread and any number of clients. Each locked
operation is three steps (the test of the run state, its assignment, the
semaphore) because ThreadPoll looks at the run state without the lock and Abort
assigns it without the lock. Abort is two steps, pthread_cancel and the
assignment, and a thread that aborts itself never comes to the second. The user
function is a loop that polls or returns, and may call any method of its own
object. The destructor is `DtorBegin`, `ExitReq` and `DtorEnd`; afterwards nobody
may touch the object, and the model stops the thread there, so that
`NoReferenceAfterRelease` can ask where it stopped. Abort cancels asynchronously
(anywhere) if the thread is abortable, else at a blocking call. A constructor that
fails to start the thread, and one that is overtaken by the new thread, are
initial states.

**Dispatch**: workers run ThreadFunction; the owner deletes the object and one
more thread, the setter, changes the number of threads (its first call stands for
the constructor's). Every thread that is started runs. `mutex` is the stack mutex
as far as it is held across steps, which only the deletion of threads does.
Handlers run one step each on a copy of the stack. Thread names are
interchangeable and assigned in one fixed order. Events carry nothing but their
identity and are submitted at most once.

**MemMgr**: block names stand for addresses; when no name is unused, the heap is
exhausted. A pool's inventory is the sequence its linked list spells. Counters
are modulo `Word`. The guard is set and cleared outside the lock, as in the code.
A get that fails ends the run in `crashed`, because the code then applies GuardOn
to the caller's pointer, which is null or uninitialised.

**IpcTransmit**: the transmit queue, the clients that call TransmitMessage, the
transmit thread of IpcNode and the destructors of both. Enqueuing is one step
under the mutex (the id, and the place of the message's first segment in the
list) and a Give after the unlock. SegmentGet is the Take; the pop under the
mutex, in which the next segment of the message takes the place of the popped
one; a look at list and semaphore; and the Give that follows if something is
left and no token is. Clients give without the mutex, so between any two of
these. A segment is `<<message, number>>`; `linked` says which still point to
their successor. Message ids count modulo `IdLimit` and skip zero. ReleaseThread
puts a NULL at the end of the list; a client whose scan meets it reads through
it, and that ends every thread (`EnqueueReadsNull`).

**IpcAccum**: the receive thread (whose input is any segment of any message, any
number of times and in any order, up to `Arrivals` objects), the queue between the
threads, the accumulator thread, the clients in GetResponse and the destructor.
Each arrival is an object with an identity, so that ownership and deletion can be
followed; `refused` remembers which ones the queue refused, since those are
deleted twice (a hazard of `PROJECT.json`). `accum[m]` is the list of the
accumulator of message m; contexts are numbers, as in the code, and 0 is never
removed. MessagePut is one step because it runs under the context mutex;
MessageGet runs without it and is three (Take, read, clear). Semaphores go from a
removed context to the pool and on to the next new context with the count they
have. Handlers are registered from the start (IpcNode has them registered at any
time); their dispatcher takes a message or refuses it. Accumulators expire by a
clock that the code consults only when the destructor releases the thread, so the
model has no clock.

**IpcNode**: what becomes of a message once it is complete. The accumulator
thread stores it in its context or hands it to the context's dispatcher; context
0, with the handler of control events, is there from the start and stays, that of
a reply goes with its first dispatched message. `removal` is ~IpcContext under
m_Mutex, step by step (the shutdown events, then for each thread the exit
request and the join), so that a dispatch thread may stand anywhere when it
comes, waiting for the stack mutex included. Get includes PreDispatch, and the
end of a handler PostDispatch, because both touch only the thread's own event;
the two halves of SignalExit and of FlushAddrCache are steps of their own,
because two threads run them. The destructor of the node takes its members in
the order of their declarations: the resolver goes before the threads that may
flush it are stopped, and a flush that comes then ends the behaviour (`crashed`).
`hist` remembers what a reader of the code would ask: which message was lost with
a queue, acted on, or dropped because the node could not hold it.

**ByteFile** (abstract) is an array of octets with one position. **Stream**
implements it with a list of blocks: those that StreamBuf takes from the memory
manager (of the size asked for, not less than `MinBlock`), or the payloads of the
IPC segments of IpcStreamSeg. A position is a block and an offset, and may stand
at the end of one block or the start of the next. An allocation that fails ends
the behaviour (`MemoryAddFails`, `kind` = "crashed"), in a constructor, a write or
a copy: MemBlockGet guards the block it has not got (`cpMemMgr.cpp:393`), for
IpcSegment as for StreamBuf, so what the streams would do about it is never
reached. Numbers of segments wrap around at `FragLimit`, which is 2^16 in the
code. A loop over blocks is a function of the number of its passes, each of which
is `WritePass` or `ReadPass`; Seek's is stated by the block where it ends.
`transit` is what has left a stream, by Finalize and SegmentExtract or by
TransferBlocksFrom, and is put into another one, in order. The last result, `out`,
is compared too, so that reads, lines, skips and the checksum are checked and not
only what they leave.

**DatumOps** and **DatumTree**: a datum is a record of attributes, sub-data and a
cursor, and every method is a function from the datum before to the datum after.
DatumTree is an application that walks the tree from its root and between two
steps of the walk changes data, or uses their cursors; `walk` is what it has met
and is given up when it disturbs the cursors that the walk stands on.

**Variant**, **SerDesNative**, **SerDesIdl**, **SerDesXml**, **SerDes**: a value
is its type and its octets; the native form is a sequence of octets, the other
two are sequences of lines or tags with a text. SerDes encodes a document, lets
the stream be cut off or changed in one octet or line, and runs the state machine
of SerDes::Decode over it with any of the codecs, checking or not checking.
`Expressible` says which documents a format can carry, and is part of what the
property says: the integer types of 64 bits, newlines in strings and the types of
limits do not survive the Idl form, and attributes without a value end a datum.

**Transport**: one direction of a connection, over a stream (header and segment)
or over messages. One iteration of the loops of IoDev::Send and IoDev::Recv is
one step, so errors, time-outs and closing ends get between any two. A unit
`<<n, i>>` is a piece of the n-th frame, so that what arrives can be compared with
what was sent. A header that is read out of step may say any length there is among
the segments (`Sizes`). `cut` remembers that a frame was left unfinished.

**IpcRouter**: servers create and delete nodes, senders resolve names through
their caches and send, and the router's thread passes messages on; every access
to a map under the mutex is a step. `box` are the message queues, which are made
anew for a new node. A message carries the name it was meant for, which the code
does not have. A queue used after its deletion ends the behaviour. `router.left` are the
addresses a broadcast has still to go to, in any order, because what is promised of
each does not depend on it.

**Timer**: Start's arithmetic, with the ratios of the units and the modulus as
constants because TLC's integers have 32 bits; what counts is the order of the
units and 2^32. Expiries run SignalEvent as threads that submit to the dispatcher
and give the semaphore, in two steps, and may still run after the destructor.

**Buffer**: blocks of the memory manager with their contents, so that what a kept
block still holds can be seen; an allocation that fails ends the behaviour
(`ResizeFails`). **Text**: the string tools as operators on every
text up to a length. **Octets**: checksums bit by bit and hex text, fed block by
block; an octet is a sequence of bits. **SubProcess**: the process, the pipe, the
thread and its token; the receive buffer is used under its mutex only and is one
step, reading and storing are two.

**MCComponents** instantiates IpcNode and those after it but ByteFile, and checks
each in behaviours of its own: they share no variable, so `part` chooses at the
start which one moves. The instances of the seven about which there are proofs are
in **IpcParts** (Transport, IpcRouter), **EventParts** (IpcNode, Timer),
**BlockParts** (Buffer, Stream) and **SubProcessPart**, which MCComponents and the
proof modules extend: what is proved is what is checked.

In each component module the operators marked `Mutant:` are small plausible
bugs; no specification uses them. Substituted for the definition below them,
each makes one property fail, which shows that the property can.

## 4. The runs

| Run | Module | What it shows | Bounds |
|---|---|---|---|
| sem_lite | MCSemLite | count in bounds; spurious wake-ups included, no wake-up is lost; refinement of Semaphore with its liveness | 3 threads, limit 2, initial count 3 (clamped to 2) |
| itc_queue | MCItcQueue | slots and elements are conserved; refinement of BoundedFifo with its liveness | 3 threads, 2 elements, depth 2 |
| thread | MCThread | the suspend handshake; the destructor outlives the user function, and returns but for three situations | 2 clients, exit sync or not |
| thread_release | MCThread | **violation**: the second Give uses a deleted object | 2 clients, exit sync or not |
| dispatch | MCDispatch | each accepted event is in one place and is dispatched; no thread survives the destructor; the destructor returns | 2 workers, 2 events, 1 handler, depth 1 |
| dispatch_delete | MCDispatch | **violation**: deletion of a thread deadlocks on the stack mutex | as for dispatch, but depth 2 |
| mem_mgr | MCMemMgr | no block in two places; counters, sizes and guards are exact; so is the size of all blocks that clients hold | 2 threads, 4 blocks, sizes 1 to 3, segments of 0 to 2 |
| mem_mgr_custom | MCMemMgr | **violation**: a heap block is refused after CreatePool | as above |
| ipc_transmit | MCIpcTransmit | segments leave by urgency and in order within a message; ids differ; nothing is stranded, leaked or unsent | 2 clients, 3 messages, one of three segments and one more urgent, ids wrap at 3 |
| ipc_transmit_fail | MCIpcTransmit | **violation**: a segment that fails to be sent is deleted twice | as above |
| ipc_accum | MCIpcAccum | a message that is delivered has each segment once, unless copies of one stand for another; objects have one owner and are deleted once (twice if the queue refused them); a reply reaches the client that asked | 2 clients, 4 messages of up to three segments, 3 arrivals, queue depth 1 |
| components | MCComponents | see the next table | see the next table |

| Part | Property | What it shows | Bounds |
|---|---|---|---|
| Stream | StreamIsFile | refinement of ByteFile: boundaries of blocks and transfers do not show (Peek at the end of a block excepted) | blocks and segments of 2 octets, contents up to 5, four arrays |
| Stream | SegmentsNumbered | segments leave numbered from 1, modulo the width of the number, with the last and only the last marked | as above; numbers wrap at 3 |
| DatumTree | WalkIsPreorder | Recurse meets every datum once, in preorder, whatever the cursors were | root and 3 data, one name or none |
| SerDes | DecodedIsEncoded | what is decoded is what was encoded; a damaged stream does not pass a check of its CRC (it may pass one of an unknown type); a failure leaves an empty datum | 5 documents, 3 formats, one octet or line damaged or the end cut off |
| Transport | DeliveredIsSent | whole segments, in order but for datagrams; out of step, no octet twice or out of order | 4 kinds of device, 2 segments, 3 units on the wire, 1 retry |
| IpcRouter | NamesReachTheirNodes | a message reaches the node it was meant for or nobody | 2 servers, 1 sender, 2 names, 2 addresses, depth 1 |
| IpcNode | ControlIsActedOn | a control event is acted on once; a message has one owner until it is deleted; only a reply is lost, with its dispatcher; flushes leave the resolver node in the cache; the first shutdown shows | 2 messages of 4 kinds, 2 control threads (4 in the code), 1 reply thread, queues of one |
| Timer | ArmedIsPeriod | a running timer has the period asked for, or Start fails | 8 scales, 5 periods, ratios with products on both sides of the modulus |
| Buffer | BufferKeepsData | a buffer holds what it was given; no block has two owners or none | 2 buffers, 3 blocks of two sizes, an empty array and one with a null octet in it |
| Text, Octets | ToolsAreExact | what is taken apart makes the whole again; blocks make what the whole makes | texts up to 5 of 7 characters; 3 octets of 4 bits, 3 formats of hex text |
| SubProcess | CompletedIsCollected | who finds the process done finds all its output; the token is never lost | 1 client, 2 pieces of output |

Why the bounds are enough to meet the interesting cases: three callers let one
sleep, one be signalled and one barge or time out at the same moment, and a
limit below the number of callers lets Give meet its limit. A queue of depth two
with three threads is empty, full and in between while two calls are half done.
WaitExit is made for one client; the second shows what one too many does. Two
workers suffice for a shutdown event to hit the wrong one and for a deletion to
meet another deletion; a queue of depth one is full after one event, so that the
destructor's Shutdown calls fail as well as succeed. Three sizes let a pool of
larger and one of equal size be created while a custom block is out. Three
messages let one of two equal ones be queued while the other's segments are
leaving and a third overtake both. Three arrivals suffice for a message of
three segments in any order, for a message with a duplicate and without its
end, and for two replies to one request; a queue of one is full as soon as the
accumulator thread is busy. Contents of more than twice the size of a block let a position
stand at, before and after two boundaries, a last block be full and the number of a
third segment wrap around. Two units of
header and two or three of segment on a wire of three let every transfer be cut
within a header, after it and within a segment. Two addresses let one be freed and
given to another name while a cache keeps it. The five documents have between
them a narrow negative and a wide number, a value with the octets of a marker, a
length beyond one octet, a null, a name that occurs twice, one that is absent, and a
value with what looks like the end of a package and a checksum of an unknown type.
Every action of every part is taken in the run. All runs
are exhaustive: no state constraint is used, and every counter is bounded by the
instance itself.

CHECK_DEADLOCK is off where the system may stop for good: all callers blocked
on an empty semaphore or queue, or an object that has been destroyed.

### The findings

- `thread_release`: `InvokeUserFunc` (`cpThread.cpp:177-178`) gives m_SemExit
  twice. The first token may release `~Thread`, which frees the object before
  the second Give locks its mutex.
- `dispatch_delete`: `NumThreadsSet` holds m_StackMutex while `~Thread` waits for
  a worker (`cpDispatch.cpp:158`), which may be waiting for that mutex in order
  to copy the handlers (`cpDispatch.cpp:298`). The passing run shows that this
  is the only way in which the destructor fails to return.
- `mem_mgr_custom`: `MemBlockPut` looks up the pool by size; a block that was
  too large for every pool when it was delivered is refused by a larger pool
  made since, with its guard already off. The caller cannot return it again. In
  a pool of the same size it is adopted: the inventory then exceeds the total,
  which CountersExact states and allows for.

- `ipc_transmit_fail`: the transport disposes of a segment whatever Send returns
  (`cpIpcTransport.cpp:126-127`), and the transmit thread deletes it again when
  Send failed (`cpIpcNode.cpp:576`).

Other deviations were met while modelling. The models have them, the properties
say where they stop:

- `~SubProcess` waits for ever when its thread was told to exit before its function
  began (Cancel at once, no command, `popen` fails): the function is skipped
  (`cpThread.cpp:166`) and nobody gives m_Completed (`cpSubProcess_I.cpp:107`).
- `CalcCrc32` takes a cascade of all ones for none (`cpUtil.cpp:625`): after a block
  that has that checksum the next call begins anew, in Crc32Get too.
- Abort assigns Error without the mutex, so that a Suspend, Resume or ExitReq that
  has tested the run state overwrites it (`cpThread.cpp:89`, `107`, `129`), and a
  thread that aborts itself never assigns it: `~Thread` then waits for ever, although
  the assignment "prevents Thread instance destructor from getting blocked"
  (`cpThread_I.cpp:155`).
- A failed allocation never reaches the error paths of StreamBuf, IpcSegment and
  Buffer: MemBlockGet applies GuardOn to the block it did not get (`cpMemMgr.cpp:393`).
- The native decoder accepts a checksum package of an unknown type
  (`cpSerDesNative.cpp:995-997`), in the step that is to "decode and validate package
  checksum" (`cpSerDes.cpp:188`): one octet of damage to a length may make a value
  look like the end of the package, and a checked Decode then succeeds with a part.
- A message of more than 65535 segments is not refused, and its numbers wrap around
  (`cpIpcStreamSeg.cpp:216`).
- The accumulator only counts segments: a copy may stand for one that was lost.
- A reply that is handed to a dispatcher may be lost. The comment at
  `cpIpcNodeUtil.cpp:272-274` calls the removal of the context safe then, but a
  dispatch thread may see its exit request before the event, and the queue is
  deleted with it; and the deadlock of `dispatch_delete` would here stop the
  accumulator thread while it holds m_Mutex.
- A second Shutdown that comes before WaitForExit resets m_Flag1
  (`cpIpcNode.h:107`), although CheckForExit is to "return true if exit has been
  signalled" (`cpIpcNode.h:67`).
- A reply that was stored before RegisterHandler never reaches the handler, and
  MessageGet refuses it from then on (`cpIpcContext.cpp:209`).
- Lines of hex text may be longer than the limit by one separator.
- Start of a Timer with one second or more of pico- or femtoseconds is late by up
  to a second; with more than `2^32` units in milli-, micro- or nanoseconds it
  fails, and the timer that ran before goes on while IsRunning says no.
- After a frame that was left unfinished IpcStrmTransport stays out of step.
- SerDesIdl reads 64-bit integers through 32 bits, and a newline in a string ends
  its line; an attribute that is inert leaves out the rest of its datum while
  Encode returns true.
- `CopyIn` of no octets into a new Buffer copies through a null block.

### Fairness

Safety properties assume none. SemLite: a thread that can run its next locked
section does so eventually (weak fairness per thread; a pthread mutex does not
keep a thread out for ever while the system schedules fairly). ItcQueue: a token
is granted to *somebody*, which is what SemLite is shown to implement, the mutex
goes to *somebody*, and its holder goes on. Thread: the steps of the native
thread, the later steps of each locked operation and the destructor are taken;
strong fairness for the user function, which by contract polls again and again,
and for the destructor's lock. Nothing makes clients call anything. Dispatch:
every actor that can go on again and again does (a worker or a NumThreadsSet
may find the stack mutex locked now and then), handlers return, and a queue
that is never empty is served by some worker.

The components of the last run have safety properties only, and its
specification states no fairness.

The IPC threads: a thread goes on with what it is doing, Send returns, and a Take
or Get that again and again finds a token does not time out every time (strong
fairness of SegmentGetTake and AccGet: nobody else takes those tokens). Nothing
makes clients send or ask, nor segments arrive.

The destructors of the IPC objects are modelled under what the code needs but
does not enforce: WaitExit does not run out of its three seconds, and clients
have left GetResponse. One client waits for each context, which is how message
ids are used as contexts, and all segments of a message have one priority, as
IpcStreamSeg makes them.

DestructorReturns of Thread excludes three situations in which the code does wait
for ever: the thread suspends itself after the exit request, its cancellation does
not show in the run state (the deviation on Abort above), and two
clients have taken the tokens of WaitExit. DestructorReturns and AcceptedIsDispatched of
Dispatch exclude the deadlock above.

## 5. The proofs

They hold for every value of the constants that satisfies the named assumptions of
each module: `SemLiteAssumption`, `ItcQueueAssumption`, `ThreadAssumption`,
`DispatchAssumption`, `MemMgrAssumption`, `IpcTransmitAssumption`,
`IpcAccumAssumption`, those of the parts of MCComponents (an operator
`...Constants` of the module, which a theorem has as its hypothesis and
MCComponents assumes of its instance), and those which say that the names of the
models' own values (no event, the holder of a free mutex, the NULL of a list) are
not names of something else. What these ask for beyond types comes from the code:
sizes of blocks are positive and fit into 32 bits, four priorities, a counter of
ids that can count to two, a handler for context 0, and one client for each
context of a reply; a segment is longer than the four octets of ReleaseThread,
because it has a header of `seg_Data` octets (`cpIpcSegment.h`); the units of a
second down to nanoseconds divide one another and fit into 32 bits, and the finer
ones do not; two contexts of a node share no dispatch thread; `FragNumWidth`, the
segments of a message that is received fit into 16 bits, because their numbers are
fields of that width. One theorem has a hypothesis of its own: `CountersAreExact`
is about fewer blocks than a counter of 32 bits can count (`Cardinality(Blocks) <
Word`), since beyond them the total of a pool does wrap around.

- **SemLiteProofs**: `TypeCorrect`; `WakeupsNotLost`; `SemLiteImplements`.
  NoLostWakeup is inductive together with the types: a Give adds one token and,
  if anybody sleeps, one woken caller; a caller falls asleep only at count zero;
  one that leaves "woken" takes a token with it or sleeps at count zero. The
  refinement maps each action to one action of Semaphore or to a stutter and
  needs that the enabled flag and the destructor's stage agree.
- **ItcQueueProofs**: `TypeCorrect`; `SlotsAndTokensConserved`, two counting laws
  proved together (`Conservation`) because each protects the other: a slot token
  in hand means that the deque is not full, an element token that it is not empty.
  From them `NeverMisused` (no front() of an empty deque, no dropped token) and
  `ItcQueueImplements`, where the push is the moment of the abstract Enqueue and
  the pop that of Dequeue; Enqueue's room is exactly what the conservation law
  provides.
- **ThreadProofs**: `TypeCorrect`; `HandshakeHolds`, strengthened by `LockInv`
  (who stands in a locked section holds the mutex; an Abort that comes in between
  can only make the run state Error, so after the assignment it is never the one
  that was tested); `DestructorOutlives`, strengthened by `ExitInv` (an exit token
  exists only after the user function has returned, or the thread is gone).
- **DispatchProofs**: `TypeCorrect`; `NoThreadOutlives`, by `ThreadInv`: m_Threads
  lists the threads there are, who deletes threads holds the stack mutex and has
  one left to delete while it waits for one, and from the moment when the
  destructor counts the threads nobody creates one and it wants none. The type
  invariant alone is not inductive, because a new thread needs a free name, and
  the number of names is compared with the length of the list. `NoEventLost`, by
  `PlaceInv`: counting the places of an event in the queue and in the hands of
  workers gives one while it is accepted and else none, if a worker that is not
  between GetEvent and FinishEvent has nothing in its hand.
- **MemMgrProofs**: `TypeCorrect`; `BlocksHaveOnePlace`, by `PlaceInv`: a client in
  a call holds the block of that call, a block is in the list of a pool if and
  only if it has that pool's size and nobody holds it, a block of a segment has
  the size of a pool, and the guard tells which. The steps that matter are the
  return, which looks the pool up anew, and CreatePool, which must not change the
  answer for a block of a segment. `CountersAreExact`, by `CountInv`: the length of
  each list and the number of blocks of its segments, as sets, change as the
  counters do, and nothing wraps around. `DeployedIsExact`, by `DeployInv`: what is
  held, and the size of each held block, change only where the counter does. A sum
  over a set is a fold that takes the elements in an order of its own; that any
  element may be taken first (`TotalRemove`) is proved by looking at a smallest
  set for which it would be wrong, in place of an induction. The counter may wrap
  around: what is said of it is said modulo 2^32.
- **IpcTransmitProofs**: `TypeCorrect` (the types are proved and no longer checked by
  the run); `UrgencyOrdered` (the list is always
  sorted, given the types, because an insertion goes behind everything that is
  as urgent and in front of the first that is not; the lemma about InsertAt
  states it without reference to a least position); `SignalKept`, which is
  inductive by itself: when there are segments in the list, somebody holds a
  token, is about to give one, or is about to look whether one is needed.
  `OrderKept`, by `InTurn`: among segments of one priority those sent come before
  the one in the consumer's hand, and this before those in the list, which are in
  the turn of their messages; the successor of a segment goes back in front of
  its equals, which is where its turn is. `IdsDistinct`, by `IdsKept`: the ids of
  two messages are as far apart as their places in the order, or less by one turn
  of the counter, which has one value less than IdLimit since it skips 0.
  `AllDeleted`, by `Accounted`, `NullLast` and `Drained`: a segment that was
  accepted is deleted, in the consumer's hand or linked behind an entry of the
  list; nothing is behind the NULL of ReleaseThread; and the drain ends with the
  list empty, which is where it needs that tokens and list agree.
- **IpcAccumProofs**: `TypeCorrect`, by `TypeInv`, which says of what is in each
  list which message or context it belongs to (`Held`) and which steps of the
  threads exclude each other (`Phases`); `AnswersAreMine`, by `TokenInv`: spare
  semaphores have no token, and a token in a context is there with its message,
  but for the moment in which its client has cleared the one and not yet removed
  the other; `LateRepliesStay`, an action property, by going through what a step
  can do to a context. `MessagesAreWhole`, by `WholeInv`: accumulators are sorted
  by segment number and their objects are in one place (`Once`), so that what
  leaves one has as many objects as its message has segments, in order and none
  twice; if no two are copies of one segment, it is an increasing map of 1 .. n
  into 1 .. n, hence the identity (`IncreasingIsIdentity`). `ObjectsHaveOneOwner`,
  by `OwnInv`: whatever a step does to an object is to let it stay, to move it
  from one owner to another, to delete it, to bring it in, or to refuse it, and
  only a refused one is deleted twice (`refused`, `RefusalHands`). `Readers` is
  what keeps a message from being in its context and with its client at once:
  while one message only came for a context, a client that has read it clears it
  before anything else happens there.
- **Transport**, in IpcTransmitProofs: `TransportsDeliverWhatIsSent`. `Flow` is what is
  on its way over a stream: what Recv has read of its frame, what is on the wire and
  what Send has not yet written, one behind the other. Nothing but a new Send adds to
  it and only a completed Recv takes away, so a step within a frame leaves it as it
  is. `Layout` says where in it each frame stands, and how much of it, as long as none
  was left unfinished; the reader is then at the start of a frame or within the first.
  Once one was, frames cannot be told apart any more, and what is left is that units
  are in order in the flow and behind those delivered (`UnitsInOrder`, `InOrder`).
- **IpcRouter**, in IpcTransmitProofs: `MessagesReachTheirNodes`. An address is given to
  one name in the life of a router (`GivenOnce`), so whoever knows an address for a
  name, in the map, in a cache, in a call or in a message, knows the owner's
  (`NamesKnown`, `SendersKnow`, `OnTheWay`), however old the knowledge is.
- **IpcNode**, in DispatchProofs: `NodesActOnControl`, by `NodeInv`. `OnePlace`: each
  message is in one place (a context's head or queue, a dispatch thread, the
  accumulator thread, lost) until it is deleted, once. This alone is not inductive:
  that a thread with a message belongs to the message's context, which has its
  dispatcher (`InContext`, `AtWork`), and what stage a removal has reached and who
  performs it (`Removals`), are needed to know that the queue which goes with a
  context holds only replies. `ExitKept` is about the two halves of SignalExit: a
  thread that was refused the semaphore finds another shutdown done or on its way, so
  a single shutdown sets the flag.
- **Timer**, in DispatchProofs: `TimersAreExact`. The work is the arithmetic: where
  the product of seconds and units wraps around, the nanoseconds that are left exceed
  a second and timer_settime refuses them. Products of 64 bits are taken not to wrap
  around: a period from 2^64 nanoseconds on, more than 500 years, is not modelled.
- **Buffer**, in MemMgrProofs: `BuffersKeepData`, by one owner for each block and, for
  each buffer, that what its block begins with is what it was given; a step writes
  into blocks of its own buffer only.
- **Stream**, in MemMgrProofs: `SegmentsLeaveNumbered`, by `StreamIInv`. A list of
  segments is `Sound`: numbered modulo the width of the number, and full but for
  the last segment, in which it ends, behind at least one octet; reading and
  moving keep the current position within what was written. The last clause is
  what Finalize needs, and what a write could break: it adds segments by what is
  left to write and enters only those that it writes to. The loops of ArrayWr and
  ArrayRd are recursive functions of the number of passes. What holds after each
  pass (`InLoop`, `Reading`) holds at the end by induction on that number
  (`CountingUp`: there is no smallest exception), and a measure that every pass
  decreases (`Effort`) says that the number suffices.
- **SubProcess**, in ThreadProofs: `SubProcessKeepsOutput`: what was collected, what the
  thread has read and what is in the pipe are together what was written, as long as
  the descriptor is open; and the token is on offer or in one hand when the thread is
  done.
- **ListLemmas** holds what these have in common: append, insertion, removal,
  first positions, concatenation, lists without repetition, as sets of positions,
  and sums over finite sets.

Only model-checked:

- All liveness: the fairness parts of ImplementsSemaphore and ImplementsFifo,
  AcceptedIsDispatched, the two DestructorReturns, MessagesAreSent and
  ReplyIsSeen are beyond the proof system.
- StreamIsFile (Stream), WalkIsPreorder (DatumTree), DecodedIsEncoded (SerDes) and
  ToolsAreExact (Text, Octets): what they say is about the concatenation of blocks and
  recursive operators on trees, documents and texts, what a fold or a recursion
  computes for every input, which the proof system cannot reason about.

## 6. Not modelled

Time: a timed wait may run out at any moment, and the arithmetic of Queue's
deadlines is left out. Destroyed objects: behaviour after the use of a destroyed
mutex or a freed object is undefined and the models stop there. Logging, validity
checks of an object whose native resources could not be created, the opening and
configuration of devices, and conversions of numbers to and from text beyond their
width. The Windows port, vendored code, String, terminal input and command line
options (see `PROJECT.json` for every component and its reason). Of the IPC node:
the filling of headers by its Send methods, StartNode and StopNode, and the
setting of a transport's devices. Of Dispatch: PreDispatchSet and PostDispatchSet,
and dispatch threads whose start fails. Of the factories: the unsynchronised
creation of their instances and the pool of serializers. Of Datum: comparison and
the ready-made data.
