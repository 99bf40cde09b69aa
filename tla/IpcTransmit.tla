---------------------------- MODULE IpcTransmit ----------------------------
(***************************************************************************)
(* cp::IpcTransmitQueue (cpIpcNodeUtil.cpp) with the clients that hand it  *)
(* messages, the transmit thread of IpcNode that empties it (cpIpcNode.cpp *)
(* XmitThread), the transport it sends through (cpIpcTransport.cpp Send)   *)
(* and the part of ~IpcNode that stops it.  A message is a chain of        *)
(* segments; only its first one that is still unsent is in the list, and   *)
(* the message id reaches a segment only when its predecessor leaves.      *)
(* The semaphore is used as module Semaphore specifies it.                 *)
(***************************************************************************)
EXTENDS Integers, Sequences, FiniteSets, SequencesExt

CONSTANTS Senders, Messages,
          Length,     \* segments of each message
          Priority,   \* of each message; numerically lower is more urgent
          IdLimit,    \* 2^32 in the code
          Null        \* the NULL that ReleaseThread queues

Segments == UNION {{m} \X (1 .. Length[m]) : m \in Messages}

ASSUME IpcTransmitAssumption ==
    /\ Length \in [Messages -> Nat \ {0}]
    /\ Priority \in [Messages -> 0 .. 3]
    /\ IdLimit \in Nat /\ IdLimit > 2
    /\ Null \notin Segments

VARIABLES queue,     \* m_PriorityQueue
          sem,       \* tokens of m_SemTransmit
          locked,    \* m_Mutex is held across steps (by SegmentGet alone)
          msgId,     \* m_MsgId
          idOf,      \* the MsgId field of each segment
          linked,    \* segments whose m_NextSeg is not NULL
          sender,    \* what each client is doing
          consumer,  \* where the caller of SegmentGet is
          segment,   \* its pSegment
          dtor,      \* how far ~IpcNode is
          order,     \* history: messages in the order they were queued
          sent,      \* history: segments in the order the transport got them
          deleted    \* history: how often each segment was deleted

vars == <<queue, sem, locked, msgId, idOf, linked, sender, consumer, segment,
          dtor, order, sent, deleted>>

queueVars == <<queue, msgId, idOf, linked, order>>

ConsumerSteps == {"poll", "take", "lock", "check", "give", "send", "failed", "exited",
                  "crashed"}

Submitted == Range(order)

Init ==
    /\ queue = <<>>
    /\ sem = 0
    /\ locked = FALSE
    /\ msgId = 0
    /\ idOf = [s \in Segments |-> 0]
    /\ linked = {s \in Segments : s[2] < Length[s[1]]}
    /\ sender = [c \in Senders |-> "idle"]
    /\ consumer = "poll"
    /\ segment = Null
    /\ dtor = "none"
    /\ order = <<>>
    /\ sent = <<>>
    /\ deleted = [s \in Segments |-> 0]

-----------------------------------------------------------------------------
\* What the comparison in TransmitMessage reads of an entry.
Urgency(entry) == IF entry = Null THEN 4 ELSE Priority[entry[1]]

\* Mutant: the new entry overtakes those of its own priority.
Overtakes_Equal(m, entry) == entry # Null /\ Priority[m] <= Urgency(entry)

\* A message goes in front of an entry of lower priority.
Overtakes(m, entry) == entry # Null /\ Priority[m] < Urgency(entry)

\* The scan for m's place gets to position p, having read all entries before.
ScanReaches(m, p) == \A i \in 1 .. p - 1 : queue[i] # Null /\ ~Overtakes(m, queue[i])

\* Mutant: the wrap-around to zero is not noticed.
NextId_Zero == (msgId + 1) % IdLimit

\* ++m_MsgId, over zero at the wrap-around.
NextId == IF msgId + 1 = IdLimit THEN 1 ELSE msgId + 1

Usable == dtor \notin {"draining", "destroyed", "crashed"}

\* TransmitMessage up to the unlock.
Enqueue(c, m) ==
    /\ sender[c] = "idle" /\ m \notin Submitted /\ Usable /\ ~locked
    /\ \E p \in 1 .. Len(queue) + 1 :
           /\ ScanReaches(m, p)
           /\ p <= Len(queue) => Overtakes(m, queue[p])
           /\ queue' = InsertAt(queue, p, <<m, 1>>)
    /\ msgId' = NextId
    /\ idOf' = [idOf EXCEPT ![<<m, 1>>] = NextId]
    /\ order' = Append(order, m)
    /\ sender' = [sender EXCEPT ![c] = "give"]
    /\ UNCHANGED <<sem, locked, linked, consumer, segment, dtor, sent, deleted>>

\* The same when the scan meets the NULL of ReleaseThread: the process dies,
\* and every thread with it.
EnqueueReadsNull(c, m) ==
    /\ sender[c] = "idle" /\ m \notin Submitted /\ Usable /\ ~locked
    /\ \E p \in DOMAIN queue : ScanReaches(m, p) /\ queue[p] = Null
    /\ msgId' = NextId
    /\ idOf' = [idOf EXCEPT ![<<m, 1>>] = NextId]
    /\ sender' = [d \in Senders |-> "crashed"]
    /\ consumer' = "crashed"
    /\ dtor' = "crashed"
    /\ UNCHANGED <<queue, sem, locked, linked, segment, order, sent, deleted>>

\* The Give after the unlock, and the return.
EnqueueGive(c) ==
    /\ sender[c] = "give"
    /\ sem' = sem + 1
    /\ sender' = [sender EXCEPT ![c] = "idle"]
    /\ UNCHANGED <<locked, consumer, segment, dtor, sent, deleted, queueVars>>

-----------------------------------------------------------------------------
Draining == dtor = "draining"

\* XmitThread: ThreadPoll tells whether ExitReq was called.
XmitPoll ==
    /\ consumer = "poll" /\ ~Draining
    /\ consumer' = IF dtor = "none" THEN "take" ELSE "exited"
    /\ UNCHANGED <<sem, locked, sender, segment, dtor, sent, deleted, queueVars>>

\* SegmentGet: Take succeeds.
SegmentGetTake ==
    /\ consumer = "take" /\ sem > 0
    /\ sem' = sem - 1
    /\ consumer' = "lock"
    /\ UNCHANGED <<locked, sender, segment, dtor, sent, deleted, queueVars>>

\* Take times out: after three seconds in XmitThread, at once in the destructor.
SegmentGetTimeout ==
    /\ consumer = "take"
    /\ Draining => sem = 0
    /\ consumer' = IF Draining THEN "exited" ELSE "poll"
    /\ dtor' = IF Draining THEN "destroyed" ELSE dtor
    /\ UNCHANGED <<sem, locked, sender, segment, sent, deleted, queueVars>>

\* Mutant: a message is taken for its first segment.
SegmentGetPop_FirstOnly ==
    /\ consumer = "lock" /\ ~locked /\ queue # <<>>
    /\ segment' = Head(queue)
    /\ queue' = Tail(queue)
    /\ locked' = TRUE
    /\ consumer' = "check"
    /\ UNCHANGED <<sem, msgId, idOf, linked, sender, dtor, order, sent, deleted>>

\* The front entry is taken; the segment attached to it takes its place.
SegmentGetPop ==
    /\ consumer = "lock" /\ ~locked /\ queue # <<>>
    /\ LET seg == Head(queue)
           next == <<seg[1], seg[2] + 1>>
       IN  /\ segment' = seg
           /\ IF seg \in linked
              THEN /\ idOf' = [idOf EXCEPT ![next] = idOf[seg]]
                   /\ queue' = <<next>> \o Tail(queue)
                   /\ linked' = linked \ {seg}
              ELSE /\ queue' = Tail(queue)
                   /\ UNCHANGED <<idOf, linked>>
    /\ locked' = TRUE
    /\ consumer' = "check"
    /\ UNCHANGED <<sem, msgId, sender, dtor, order, sent, deleted>>

\* "for some reason the semaphore was signalled" with an empty queue.
SegmentGetEmpty ==
    /\ consumer = "lock" /\ ~locked /\ queue = <<>>
    /\ segment' = Null
    /\ locked' = TRUE
    /\ consumer' = "check"
    /\ UNCHANGED <<sem, sender, dtor, sent, deleted, queueVars>>

\* Mutant: XmitThread takes a wake-up without a segment for its end.
Returned_Exits ==
    /\ consumer' = IF segment # Null THEN "send" ELSE "exited"
    /\ dtor' = IF segment = Null /\ Draining THEN "destroyed" ELSE dtor

\* SegmentGet returns true with a segment.  XmitThread ignores a false, the
\* destructor stops at it.
Returned ==
    /\ consumer' = IF segment # Null THEN "send" ELSE IF Draining THEN "exited" ELSE "poll"
    /\ dtor' = IF segment = Null /\ Draining THEN "destroyed" ELSE dtor

\* Mutant: nobody looks at what is left in the queue.
SegmentGetCheck_Never ==
    /\ consumer = "check"
    /\ locked' = FALSE
    /\ Returned
    /\ UNCHANGED <<sem, sender, segment, sent, deleted, queueVars>>

\* The queue is empty or the semaphore still signalled: unlock and return.
SegmentGetCheck ==
    /\ consumer = "check"
    /\ IF queue # <<>> /\ sem = 0
       THEN /\ consumer' = "give"
            /\ UNCHANGED <<locked, dtor>>
       ELSE /\ locked' = FALSE
            /\ Returned
    /\ UNCHANGED <<sem, sender, segment, sent, deleted, queueVars>>

\* It was neither when it was looked at: keep it signalled.
SegmentGetGive ==
    /\ consumer = "give"
    /\ sem' = sem + 1
    /\ locked' = FALSE
    /\ Returned
    /\ UNCHANGED <<sender, segment, sent, deleted, queueVars>>

\* The transport sends the segment or fails to, and disposes of it either way.
XmitSend ==
    /\ consumer = "send" /\ ~Draining
    /\ sent' = Append(sent, segment)
    /\ deleted' = [deleted EXCEPT ![segment] = @ + 1]
    /\ \/ consumer' = "poll" /\ segment' = Null
       \/ consumer' = "failed" /\ UNCHANGED segment
    /\ UNCHANGED <<sem, locked, sender, dtor, queueVars>>

\* Send returned false: XmitThread deletes the segment.
XmitDelete ==
    /\ consumer = "failed"
    /\ deleted' = [deleted EXCEPT ![segment] = @ + 1]
    /\ segment' = Null
    /\ consumer' = "poll"
    /\ UNCHANGED <<sem, locked, sender, dtor, sent, queueVars>>

\* ~IpcTransmitQueue deletes the segment and asks for another one.
Purge ==
    /\ consumer = "send" /\ Draining
    /\ deleted' = [deleted EXCEPT ![segment] = @ + 1]
    /\ segment' = Null
    /\ consumer' = "take"
    /\ UNCHANGED <<sem, locked, sender, dtor, sent, queueVars>>

-----------------------------------------------------------------------------
\* ~IpcNode: ExitReq.
DtorExitReq ==
    /\ dtor = "none"
    /\ dtor' = "exitReq"
    /\ UNCHANGED <<sem, locked, sender, consumer, segment, sent, deleted, queueVars>>

\* Mutant: the NULL is queued in front of everything.
ReleaseThread_Front ==
    /\ dtor = "exitReq" /\ ~locked
    /\ queue' = <<Null>> \o queue
    /\ dtor' = "give"
    /\ UNCHANGED <<sem, locked, msgId, idOf, linked, sender, consumer, segment,
                   order, sent, deleted>>

\* ReleaseThread up to the unlock.
ReleaseThread ==
    /\ dtor = "exitReq" /\ ~locked
    /\ queue' = Append(queue, Null)
    /\ dtor' = "give"
    /\ UNCHANGED <<sem, locked, msgId, idOf, linked, sender, consumer, segment,
                   order, sent, deleted>>

\* ReleaseThread's Give.
ReleaseThreadGive ==
    /\ dtor = "give"
    /\ sem' = sem + 1
    /\ dtor' = "waitExit"
    /\ UNCHANGED <<locked, sender, consumer, segment, sent, deleted, queueVars>>

\* WaitExit returns, and the members are destroyed: ~IpcTransmitQueue begins
\* to drain the queue.  Its clients must be out of it by then.
DtorDrain ==
    /\ dtor = "waitExit" /\ consumer = "exited"
    /\ \A c \in Senders : sender[c] = "idle"
    /\ dtor' = "draining"
    /\ consumer' = "take"
    /\ UNCHANGED <<sem, locked, sender, segment, sent, deleted, queueVars>>

-----------------------------------------------------------------------------
Consume ==
    \/ XmitPoll \/ SegmentGetTake \/ SegmentGetTimeout
    \/ SegmentGetPop \/ SegmentGetEmpty \/ SegmentGetCheck \/ SegmentGetGive
    \/ XmitSend \/ XmitDelete \/ Purge

Destroy == DtorExitReq \/ ReleaseThread \/ ReleaseThreadGive \/ DtorDrain

Next ==
    \/ \E c \in Senders :
           \/ EnqueueGive(c)
           \/ \E m \in Messages : Enqueue(c, m) \/ EnqueueReadsNull(c, m)
    \/ Consume
    \/ Destroy

\* Nothing makes anybody send or destroy.  Who has begun to send goes on, and
\* so does the consumer; a Take that finds a token does not time out for ever,
\* because nobody else takes them.
Fairness ==
    /\ \A c \in Senders : WF_vars(EnqueueGive(c))
    /\ WF_vars(Consume)
    /\ SF_vars(SegmentGetTake)
    /\ WF_vars(ReleaseThread \/ ReleaseThreadGive \/ DtorDrain)

Spec == Init /\ [][Next]_vars /\ Fairness

-----------------------------------------------------------------------------
\* The queue, its signal, the segments and the threads have their types.
TypeOK ==
    /\ queue \in Seq(Segments \cup {Null})
    /\ sem \in Nat
    /\ locked \in BOOLEAN
    /\ msgId \in 0 .. IdLimit - 1
    /\ idOf \in [Segments -> 0 .. IdLimit - 1]
    /\ linked \subseteq {s \in Segments : s[2] < Length[s[1]]}
    /\ sender \in [Senders -> {"idle", "give", "crashed"}]
    /\ consumer \in ConsumerSteps
    /\ segment \in Segments \cup {Null}
    /\ consumer \in {"send", "failed"} => segment # Null
    /\ dtor \in {"none", "exitReq", "give", "waitExit", "draining", "destroyed",
                "crashed"}
    /\ order \in Seq(Messages)
    /\ sent \in Seq(Segments)
    /\ deleted \in [Segments -> Nat]

\* Whatever threads send, the list is ordered by urgency, with the NULL last.
QueueByUrgency ==
    \A i, j \in DOMAIN queue : i < j => Urgency(queue[i]) <= Urgency(queue[j])

Turn(m) == SelectInSeq(order, LAMBDA n : n = m)

\* Among segments of one priority, the transport gets those of one message
\* together, in their order, and messages in the order they were queued,
\* although messages re-enter the list segment by segment.
SentInOrder ==
    \A i, j \in DOMAIN sent :
        LET m == sent[i][1]  n == sent[j][1] IN
        i < j /\ Priority[m] = Priority[n] =>
            Turn(m) < Turn(n) \/ (m = n /\ sent[i][2] < sent[j][2])

\* The receiver reassembles by message id: a segment leaves with the id of its
\* message, never 0, and two messages that are less than a turn of the counter
\* apart have different ones.
IdsTellMessagesApart ==
    /\ \A i \in DOMAIN sent :
           idOf[sent[i]] # 0 /\ idOf[sent[i]] = idOf[<<sent[i][1], 1>>]
    /\ \A i, j \in DOMAIN order :
           i < j /\ j - i < IdLimit - 1 => idOf[<<order[i], 1>>] # idOf[<<order[j], 1>>]

\* While there is anything in the queue, the transmit thread is signalled or
\* somebody is about to signal it, although senders signal outside the lock
\* and SegmentGet looks at the count before it gives.
NothingStranded ==
    queue # <<>> =>
        \/ sem > 0
        \/ consumer \in {"lock", "check", "give"}
        \/ \E c \in Senders : sender[c] = "give"
        \/ dtor \in {"give", "crashed"}

\* A queued message is handed to the transport to its last segment, unless the
\* node is destroyed.
MessagesAreSent ==
    \A s \in Segments :
        s[1] \in Submitted ~> (s \in Range(sent) \/ dtor # "none")

\* When the node is gone, no segment it accepted is left: the drain is not
\* stopped early by the NULL, nor by a semaphore without tokens.
NothingLeaks ==
    dtor = "destroyed" =>
        \A s \in Segments : s[1] \in Submitted => deleted[s] > 0

\* cpIpcNode.cpp: a segment "has either been handed over or deleted", so it is
\* deleted once.
DeletedOnce == \A s \in Segments : deleted[s] <= 1

=============================================================================
