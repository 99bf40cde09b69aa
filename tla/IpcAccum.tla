------------------------------ MODULE IpcAccum ------------------------------
(***************************************************************************)
(* The receiving half of cp::IpcNode: the receive thread (cpIpcNode.cpp    *)
(* RecvThread), IpcAccumMap with its accumulator thread                    *)
(* (cpIpcNodeUtil.cpp), IpcAccum, which puts the segments of a message     *)
(* together (cpIpcAccum.cpp), and IpcContext, where a client waits for the *)
(* message that answers its own (cpIpcContext.cpp).  The network may lose, *)
(* reorder and duplicate segments.  The queue between the threads is used  *)
(* as BoundedFifo specifies it and a semaphore as Semaphore does.  Every   *)
(* arrival is an object of its own, so that its owner can be followed.     *)
(***************************************************************************)
EXTENDS Integers, Sequences, FiniteSets, SequencesExt

CONSTANTS Messages,
          Length,       \* segments of each message
          Context,      \* the context each message is for
          Clients,
          Request,      \* the context each client waits in
          Handled,      \* contexts that have a handler; 0 always has
          Depth,        \* k_IpcAccumQueueDepth
          Arrivals,     \* bound: segments that may arrive, copies included
          Null

Objects == 1 .. Arrivals
Contexts == Range(Context) \cup Range(Request) \cup Handled
Segments == UNION {{m} \X (1 .. Length[m]) : m \in Messages}

ASSUME IpcAccumAssumption ==
    /\ Length \in [Messages -> Nat \ {0}]
    /\ Context \in [Messages -> Nat] /\ Request \in [Clients -> Nat \ {0}]
    /\ Handled \subseteq Nat /\ 0 \in Handled
    /\ \A c, d \in Clients : c # d => Request[c] # Request[d]
    /\ Range(Request) \cap Handled = {}
    /\ Depth \in Nat \ {0} /\ Arrivals \in Nat
    /\ Null \notin Objects /\ Null \notin Segments

\* FragNum is a uint16_t: a message has no more segments than it counts.
ASSUME FragNumWidth == \A m \in Messages : Length[m] < 65536

VARIABLES content,     \* the segment in each object, or Null
          recv,        \* what the receive thread is doing, and its pSeg
          queue,       \* m_AccumQueue
          acc,         \* where the accumulator thread is
          item,        \* its pSegment, with the segments attached to it
          msgId,       \* the context that it is about to remove, or 0
          accum,       \* m_AccumMap: the list each accumulator holds
          exists,      \* the keys of m_ContextMap
          handler,     \* contexts that have a dispatcher
          head,        \* m_PtrHead of each context: a message
          token,       \* the count of its m_PtrSem
          pool,        \* m_SemPool: the counts of the spare semaphores
          client,      \* what each client is doing in GetResponse
          timed,       \* whether its time-out is finite
          response,    \* its pResponse
          dispatched,  \* objects handed to a dispatcher
          refused,     \* history: objects that the queue refused
          puts,        \* history: messages put into each context
          delivered,   \* history: the messages put into contexts
          deleted,     \* history: how often each object was deleted
          dtor         \* how far ~IpcAccumMap is

recvVars == <<content, recv>>
accVars == <<acc, item, msgId, accum>>
contextVars == <<exists, handler, head, token, pool>>
clientVars == <<client, timed, response>>
historyVars == <<dispatched, refused, puts, delivered>>
vars == <<recvVars, queue, accVars, contextVars, clientVars, historyVars,
          deleted, dtor>>

Arrived == {o \in Objects : content[o] # Null}
MessageOf(o) == content[o][1]
FragNum(o) == content[o][2]

Init ==
    /\ content = [o \in Objects |-> Null]
    /\ recv = [at |-> "recv", seg |-> Null]
    /\ queue = <<>>
    /\ acc = "poll"
    /\ item = <<>>
    /\ msgId = 0
    /\ accum = [m \in Messages |-> <<>>]
    /\ exists = Handled
    /\ handler = Handled
    /\ head = [c \in Contexts |-> <<>>]
    /\ token = [c \in Contexts |-> 0]
    /\ pool = <<>>
    /\ client = [c \in Clients |-> "idle"]
    /\ timed = [c \in Clients |-> FALSE]
    /\ response = [c \in Clients |-> <<>>]
    /\ dispatched = {}
    /\ refused = {}
    /\ puts = [c \in Contexts |-> 0]
    /\ delivered = {}
    /\ deleted = [o \in Objects |-> 0]
    /\ dtor = "none"

\* deleted after the objects of a list are deleted once more.
Deleting(list) == [o \in Objects |-> deleted[o] + IF o \in Range(list) THEN 1 ELSE 0]

-----------------------------------------------------------------------------
\* A segment comes in from the network into the receive thread's object.
Receive(s) ==
    /\ recv.at = "recv" /\ dtor = "none" /\ Arrived # Objects
    /\ LET o == Cardinality(Arrived) + 1 IN
           /\ content' = [content EXCEPT ![o] = s]
           /\ recv' = [at |-> "submit", seg |-> o]
    /\ UNCHANGED <<queue, accVars, contextVars, clientVars, historyVars, deleted, dtor>>

\* SubmitSegment: the queue takes the segment.
Submit ==
    /\ recv.at = "submit" /\ Len(queue) < Depth
    /\ queue' = Append(queue, recv.seg)
    /\ recv' = [at |-> "recv", seg |-> Null]
    /\ UNCHANGED <<content, accVars, contextVars, clientVars, historyVars, deleted, dtor>>

\* The queue stayed full for a second: SubmitSegment deletes the segment.
SubmitRefused ==
    /\ recv.at = "submit" /\ Len(queue) = Depth
    /\ deleted' = Deleting(<<recv.seg>>)
    /\ recv' = [recv EXCEPT !.at = "refused"]
    /\ refused' = refused \cup {recv.seg}
    /\ UNCHANGED <<content, queue, accVars, contextVars, clientVars, dispatched, puts,
                   delivered, dtor>>

\* SubmitSegment returned false: RecvThread deletes the segment.
RecvDelete ==
    /\ recv.at = "refused"
    /\ deleted' = Deleting(<<recv.seg>>)
    /\ recv' = [at |-> "recv", seg |-> Null]
    /\ UNCHANGED <<content, queue, accVars, contextVars, clientVars, historyVars, dtor>>

-----------------------------------------------------------------------------
\* AccumThread: ThreadPoll tells whether to go on.
AccPoll ==
    /\ acc = "poll"
    /\ acc' = IF dtor = "none" THEN "get" ELSE "exited"
    /\ UNCHANGED <<recvVars, queue, item, msgId, accum, contextVars, clientVars,
                   historyVars, deleted, dtor>>

AccGet ==
    /\ acc = "get" /\ queue # <<>>
    /\ item' = <<Head(queue)>>
    /\ queue' = Tail(queue)
    /\ acc' = "handle"
    /\ UNCHANGED <<recvVars, msgId, accum, contextVars, clientVars, historyVars, deleted, dtor>>

\* Nothing came for three seconds.
AccGetTimeout ==
    /\ acc = "get"
    /\ acc' = "poll"
    /\ UNCHANGED <<recvVars, queue, item, msgId, accum, contextVars, clientVars,
                   historyVars, deleted, dtor>>

\* IpcAccum::SubmitSegment: in front of the first higher fragment number.
Inserted(list, o) ==
    LET higher == {i \in DOMAIN list : FragNum(o) < FragNum(list[i])} IN
    IF higher = {} THEN Append(list, o) ELSE InsertAt(list, Min(higher), o)

\* Mutant: the total is taken from any segment.
Complete_AnyTotal(list) == \E o \in Range(list) : FragNum(o) = Len(list)

\* IpcAccum::Complete: as many segments as the last one's number says.
Complete(list) ==
    \E o \in Range(list) :
        FragNum(o) = Length[MessageOf(o)] /\ FragNum(o) = Len(list)

Sweeping == item = <<Null>> \/ dtor # "none"

\* A segment of several goes to its accumulator, which is taken if complete.
AccAccumulate ==
    /\ acc = "handle" /\ ~Sweeping
    /\ LET o == item[1]
           m == MessageOf(o)
           list == Inserted(accum[m], o)
       IN  /\ Length[m] > 1
           /\ IF Complete(list)
              THEN /\ accum' = [accum EXCEPT ![m] = <<>>]
                   /\ item' = list
                   /\ acc' = "put"
              ELSE /\ accum' = [accum EXCEPT ![m] = list]
                   /\ item' = <<>>
                   /\ acc' = "poll"
    /\ UNCHANGED <<recvVars, queue, msgId, contextVars, clientVars, historyVars,
                   deleted, dtor>>

\* A message of one segment is passed on at once.
AccSingle ==
    /\ acc = "handle" /\ ~Sweeping
    /\ Length[MessageOf(item[1])] = 1
    /\ acc' = "put"
    /\ UNCHANGED <<recvVars, queue, item, msgId, accum, contextVars, clientVars,
                   historyVars, deleted, dtor>>

Partial == {m \in Messages : accum[m] # <<>>}

\* The housekeeping, which comes with the NULL or the exit request only, and
\* is to remove every accumulator.  It increments an iterator that it has just
\* erased: it may reach any of the others after that, or the process may die.
AccSweep ==
    /\ acc = "handle" /\ Sweeping
    /\ \/ \E gone \in SUBSET Partial :
              /\ gone = {} => Partial = {}
              /\ accum' = [m \in Messages |-> IF m \in gone THEN <<>> ELSE accum[m]]
              /\ deleted' = [o \in Objects |->
                     deleted[o] + IF \/ o \in Range(item)
                                     \/ \E m \in gone : o \in Range(accum[m])
                                  THEN 1 ELSE 0]
              /\ acc' = "poll"
       \/ /\ Partial # {}
          /\ acc' = "crashed"
          /\ UNCHANGED <<accum, deleted>>
    /\ item' = <<>>
    /\ UNCHANGED <<recvVars, queue, msgId, contextVars, clientVars, historyVars, dtor>>

-----------------------------------------------------------------------------
\* Contexts: found or created, with a semaphore from the pool; and removed.
TokenOfNew == IF pool = <<>> THEN 0 ELSE Last(pool)

FindOrCreate(c) ==
    IF c \in exists
    THEN UNCHANGED <<exists, pool>>
    ELSE /\ exists' = exists \cup {c}
         /\ pool' = IF pool = <<>> THEN pool ELSE Front(pool)

\* Mutant: the semaphore goes into the pool with what is left in it.
Pooled_AsIs(c) == Append(pool, token[c])

\* PutSemIntoPool empties the semaphore.
Pooled(c) == Append(pool, 0)

RemoveContext(c) ==
    /\ c \in exists
    /\ exists' = exists \ {c}
    /\ handler' = handler \ {c}
    /\ head' = [head EXCEPT ![c] = <<>>]
    /\ token' = [token EXCEPT ![c] = 0]
    /\ pool' = Pooled(c)
    /\ deleted' = Deleting(head[c])

Target == Context[MessageOf(item[1])]

Given == [puts EXCEPT ![Target] = @ + 1]

\* Mutant: no signal if a message was there already.
AccStore_NoGive ==
    /\ acc = "put" /\ Target \notin handler
    /\ FindOrCreate(Target)
    /\ deleted' = Deleting(head[Target])
    /\ head' = [head EXCEPT ![Target] = item]
    /\ token' = [token EXCEPT ![Target] = IF Target \in exists THEN @ ELSE TokenOfNew]
    /\ puts' = Given
    /\ delivered' = delivered \cup {item}
    /\ item' = <<>>
    /\ acc' = "poll"
    /\ UNCHANGED <<recvVars, queue, msgId, accum, handler, clientVars, dispatched,
                   refused, dtor>>

\* MessagePut without a dispatcher replaces the message and signals.
AccStore ==
    /\ acc = "put" /\ Target \notin handler
    /\ FindOrCreate(Target)
    /\ deleted' = Deleting(head[Target])
    /\ head' = [head EXCEPT ![Target] = item]
    /\ token' = [token EXCEPT ![Target] = 1]
    /\ puts' = Given
    /\ delivered' = delivered \cup {item}
    /\ item' = <<>>
    /\ acc' = "poll"
    /\ UNCHANGED <<recvVars, queue, msgId, accum, handler, clientVars, dispatched,
                   refused, dtor>>

\* Mutant: a message the dispatcher refuses is forgotten.
AccDispatch_Leak ==
    /\ acc = "put" /\ Target \in handler
    /\ \/ /\ dispatched' = dispatched \cup Range(item)
          /\ UNCHANGED deleted
       \/ UNCHANGED <<deleted, dispatched>>
    /\ puts' = Given
    /\ delivered' = delivered \cup {item}
    /\ msgId' = Target
    /\ acc' = IF Target = 0 THEN "poll" ELSE "remove"
    /\ item' = <<>>
    /\ UNCHANGED <<recvVars, queue, accum, contextVars, clientVars, refused, dtor>>

\* MessagePut with a dispatcher, which takes the message or refuses it for a
\* second; then it is deleted.  Any context but 0 is removed after that.
AccDispatch ==
    /\ acc = "put" /\ Target \in handler
    /\ \/ /\ dispatched' = dispatched \cup Range(item)
          /\ UNCHANGED deleted
       \/ /\ deleted' = Deleting(item)
          /\ UNCHANGED dispatched
    /\ puts' = Given
    /\ delivered' = delivered \cup {item}
    /\ msgId' = Target
    /\ acc' = IF Target = 0 THEN "poll" ELSE "remove"
    /\ item' = <<>>
    /\ UNCHANGED <<recvVars, queue, accum, contextVars, clientVars, refused, dtor>>

\* The accumulator thread removes the context.
AccRemove ==
    /\ acc = "remove"
    /\ RemoveContext(msgId)
    /\ msgId' = 0
    /\ acc' = "poll"
    /\ UNCHANGED <<recvVars, queue, item, accum, clientVars, historyVars, dtor>>

-----------------------------------------------------------------------------
\* GetResponse finds or creates its context, under the lock.
GetResponse(w) ==
    /\ client[w] \in {"idle", "timedOut"} /\ dtor = "none"
    /\ FindOrCreate(Request[w])
    /\ token' = [token EXCEPT ![Request[w]] = IF Request[w] \in exists THEN @ ELSE TokenOfNew]
    /\ client' = [client EXCEPT ![w] = "take"]
    /\ \E b \in BOOLEAN : timed' = [timed EXCEPT ![w] = b]
    /\ UNCHANGED <<recvVars, queue, accVars, handler, head, response,
                   historyVars, deleted, dtor>>

\* MessageGet: Take succeeds.
MessageGetTake(w) ==
    /\ client[w] = "take" /\ token[Request[w]] = 1
    /\ token' = [token EXCEPT ![Request[w]] = 0]
    /\ client' = [client EXCEPT ![w] = "read"]
    /\ UNCHANGED <<recvVars, queue, accVars, exists, handler, head, pool, timed,
                   response, historyVars, deleted, dtor>>

\* Mutant: a client that has waited in vain removes its context.
MessageGetTimeout_Removes(w) ==
    /\ client[w] = "take" /\ timed[w]
    /\ client' = [client EXCEPT ![w] = "timedOut"]
    /\ RemoveContext(Request[w])
    /\ UNCHANGED <<recvVars, queue, accVars, timed, response, historyVars, dtor>>

\* Take times out: GetResponse returns false and the context stays.
MessageGetTimeout(w) ==
    /\ client[w] = "take" /\ timed[w]
    /\ client' = [client EXCEPT ![w] = "timedOut"]
    /\ UNCHANGED <<recvVars, queue, accVars, contextVars, timed, response,
                   historyVars, deleted, dtor>>

\* The message is read without the lock,
MessageGetRead(w) ==
    /\ client[w] = "read"
    /\ response' = [response EXCEPT ![w] = head[Request[w]]]
    /\ client' = [client EXCEPT ![w] = "clear"]
    /\ UNCHANGED <<recvVars, queue, accVars, contextVars, timed, historyVars,
                   deleted, dtor>>

\* and the context's pointer cleared.
MessageGetClear(w) ==
    /\ client[w] = "clear"
    /\ head' = [head EXCEPT ![Request[w]] = <<>>]
    /\ client' = [client EXCEPT ![w] = "remove"]
    /\ UNCHANGED <<recvVars, queue, accVars, exists, handler, token, pool, timed,
                   response, historyVars, deleted, dtor>>

\* RemoveContext, and GetResponse returns true.
GetResponseRemove(w) ==
    /\ client[w] = "remove"
    /\ RemoveContext(Request[w])
    /\ client' = [client EXCEPT ![w] = "done"]
    /\ UNCHANGED <<recvVars, queue, accVars, timed, response, historyVars, dtor>>

-----------------------------------------------------------------------------
\* ~IpcAccumMap, after the receive thread has stopped and the clients left:
\* ExitReq, the NULL, which a full queue refuses, and the wait.
DtorExitReq ==
    /\ dtor = "none" /\ recv.at = "recv"
    /\ \A w \in Clients : client[w] \in {"idle", "timedOut", "done"}
    /\ dtor' = "exitReq"
    /\ UNCHANGED <<recvVars, queue, accVars, contextVars, clientVars, historyVars, deleted>>

DtorRelease ==
    /\ dtor = "exitReq" /\ acc # "crashed"
    /\ queue' = IF Len(queue) < Depth THEN Append(queue, Null) ELSE queue
    /\ dtor' = "waitExit"
    /\ UNCHANGED <<recvVars, accVars, contextVars, clientVars, historyVars, deleted>>

\* The queue is drained, then the maps are destroyed with what they hold.
DtorEnd ==
    /\ dtor = "waitExit" /\ acc = "exited"
    /\ deleted' = [o \in Objects |->
           deleted[o] + IF \/ o \in Range(queue)
                           \/ \E m \in Messages : o \in Range(accum[m])
                           \/ \E c \in Contexts : o \in Range(head[c])
                        THEN 1 ELSE 0]
    /\ queue' = <<>>
    /\ accum' = [m \in Messages |-> <<>>]
    /\ head' = [c \in Contexts |-> <<>>]
    /\ exists' = {}
    /\ handler' = {}
    /\ dtor' = "destroyed"
    /\ UNCHANGED <<recvVars, acc, item, msgId, token, pool, clientVars, historyVars>>

-----------------------------------------------------------------------------
Accumulate ==
    \/ AccPoll \/ AccGet \/ AccGetTimeout \/ AccAccumulate \/ AccSingle
    \/ AccSweep \/ AccStore \/ AccDispatch \/ AccRemove

Respond(w) ==
    \/ MessageGetTake(w) \/ MessageGetRead(w) \/ MessageGetClear(w)
    \/ GetResponseRemove(w)

Next ==
    \/ \E s \in Segments : Receive(s)
    \/ Submit \/ SubmitRefused \/ RecvDelete
    \/ Accumulate
    \/ \E w \in Clients : GetResponse(w) \/ MessageGetTimeout(w) \/ Respond(w)
    \/ DtorExitReq \/ DtorRelease \/ DtorEnd

\* Threads go on with what they are doing; a Get that finds an element does
\* not time out for ever.  Nothing makes segments arrive or clients ask.
Fairness ==
    /\ WF_vars(Accumulate)
    /\ SF_vars(AccGet)
    /\ \A w \in Clients : WF_vars(Respond(w))

Spec == Init /\ [][Next]_vars /\ Fairness

-----------------------------------------------------------------------------
ObjectLists == Seq(Objects)

\* Objects, lists, contexts and threads have their types.
TypeOK ==
    /\ content \in [Objects -> Segments \cup {Null}]
    /\ recv \in [at : {"recv", "submit", "refused"}, seg : Objects \cup {Null}]
    /\ queue \in Seq(Objects \cup {Null}) /\ Len(queue) <= Depth
    /\ acc \in {"poll", "get", "handle", "put", "remove", "exited", "crashed"}
    /\ item \in Seq(Objects \cup {Null}) /\ msgId \in handler \cup {0}
    /\ accum \in [Messages -> ObjectLists]
    /\ handler \subseteq exists /\ exists \subseteq Contexts
    /\ head \in [Contexts -> ObjectLists]
    /\ token \in [Contexts -> {0, 1}]
    /\ pool \in Seq({0, 1})
    /\ client \in [Clients -> {"idle", "take", "timedOut", "read", "clear", "remove", "done"}]
    /\ timed \in [Clients -> BOOLEAN]
    /\ response \in [Clients -> ObjectLists]
    /\ dispatched \subseteq Objects /\ refused \subseteq Objects
    /\ puts \in [Contexts -> Nat]
    /\ delivered \subseteq ObjectLists
    /\ deleted \in [Objects -> Nat]
    /\ dtor \in {"none", "exitReq", "waitExit", "destroyed"}

\* Two objects of a list hold the same segment.
Copies(list) ==
    \E i, j \in DOMAIN list : i # j /\ content[list[i]] = content[list[j]]

\* Objects of one message, as many as it has segments, none of them twice, in
\* the order of their numbers and with the last segment among them: each segment
\* once, unless a copy takes the place of another.
Whole(list) ==
    LET m == MessageOf(list[1]) IN
    /\ Len(list) = Length[m] /\ IsInjective(list)
    /\ \A i \in DOMAIN list : MessageOf(list[i]) = m
    /\ \A i, j \in DOMAIN list : i < j => FragNum(list[i]) <= FragNum(list[j])
    /\ \E i \in DOMAIN list : FragNum(list[i]) = Length[m]
    /\ Copies(list) \/ [i \in DOMAIN list |-> content[list[i]]]
                           = [i \in 1 .. Length[m] |-> <<m, i>>]

\* What is delivered is whole, in whatever order its segments came and whatever
\* was lost.  Complete only counts: with two copies of a segment in an accumulator
\* a message may be delivered that lacks another.
DeliveredWhole == \A list \in delivered : Whole(list)

\* The places where an object is held.
Places(o) ==
    {<<"queue", i>> : i \in {j \in DOMAIN queue : queue[j] = o}}
        \cup {<<"accum", m>> : m \in {n \in Messages : o \in Range(accum[n])}}
        \cup {<<"head", c>> : c \in {d \in Contexts : o \in Range(head[d])}}
        \cup {<<"response", w>> : w \in {v \in Clients :
                 o \in Range(response[v]) /\ client[v] # "clear"}}
        \cup {<<"recv", 0>> : x \in {recv.seg} \cap {o}}
        \cup {<<"item", 0>> : x \in Range(item) \cap {o}}
        \cup {<<"dispatched", 0>> : x \in dispatched \cap {o}}

\* Everything has its type, and an object that has arrived has one owner and has
\* not been deleted, or has none and has been deleted once.  One that the queue
\* refused is deleted twice: by SubmitSegment, and by RecvThread, which holds it
\* until then.  Left out are the contexts of clients for which a second message
\* came, whose store races with the reader of the first.
OneOwner ==
    /\ TypeOK
    /\ acc # "crashed" =>
        \A o \in Arrived :
            \/ Context[MessageOf(o)] \in Range(Request) /\ puts[Context[MessageOf(o)]] > 1
            \/ Cardinality(Places(o)) = 1 /\ deleted[o] = 0
            \/ Places(o) = {} /\ deleted[o] = IF o \in refused THEN 2 ELSE 1
            \/ /\ recv.at = "refused" /\ recv.seg = o /\ o \in refused
               /\ Places(o) = {<<"recv", 0>>} /\ deleted[o] = 1

\* A successful GetResponse returns a message, for the client's own request:
\* a token in a context's semaphore never stays without a message.
ResponseIsMine ==
    \A w \in Clients :
        client[w] \in {"clear", "remove", "done"} =>
            /\ response[w] # <<>>
            /\ Context[MessageOf(response[w][1])] = Request[w]

\* A client that waits without time-out for a message that has come gets it.
ReplyIsSeen ==
    \A w \in Clients :
        (client[w] = "take" /\ head[Request[w]] # <<>>)
            ~> (client[w] \in {"timedOut", "done"} \/ acc = "crashed")

\* What came in before a time-out is still there for the next GetResponse.
LateReplyKept ==
    [][\A w \in Clients :
           client[w] \in {"take", "timedOut"} /\ head[Request[w]] # <<>>
               /\ dtor' # "destroyed" =>
               head'[Request[w]] # <<>>]_vars

=============================================================================
