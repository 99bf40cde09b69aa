------------------------- MODULE IpcTransmitProofs -------------------------
(* Theorems about the transmit queue, for any clients, messages, lengths    *)
(* and priorities; about the transport that carries its segments, and the   *)
(* router that the transport leads to.                                      *)
EXTENDS IpcTransmit, IpcParts, ListLemmas, FiniteSetTheorems, SequenceTheorems, TLAPS

Entries == Segments \cup {Null}

\* An entry's urgency is one of the four priorities or, for NULL, less urgent
\* than any; segments of one message share it.
LEMMA UrgencyType ==
    /\ \A e \in Entries : Urgency(e) \in 0 .. 4
    /\ \A s \in Segments : s = <<s[1], s[2]>> /\ s[1] \in Messages /\ s[2] \in 1 .. Length[s[1]]
    /\ \A s \in Segments : s # Null /\ Urgency(s) = Priority[s[1]] /\ Urgency(s) \in 0 .. 3
    /\ Urgency(Null) = 4
<1>1. \A s \in Segments : s = <<s[1], s[2]>> /\ s[1] \in Messages /\ s[2] \in 1 .. Length[s[1]]
  BY DEF Segments
<1>2. \A s \in Segments : s # Null /\ Urgency(s) = Priority[s[1]] /\ Urgency(s) \in 0 .. 3
  BY <1>1, IpcTransmitAssumption DEF Urgency
<1>3. Urgency(Null) = 4
  BY DEF Urgency
<1>4. \A e \in Entries : Urgency(e) \in 0 .. 4
  BY <1>2, <1>3 DEF Entries
<1> QED
  BY <1>1, <1>2, <1>3, <1>4

-----------------------------------------------------------------------------
\* The constructed queue, its semaphore and its clients are well typed.
LEMMA TypeInit == Init => TypeOK
<1> SUFFICES ASSUME Init PROVE TypeOK
  OBVIOUS
<1>1. IdLimit \in Nat /\ IdLimit > 2
  BY IpcTransmitAssumption
<1>2. 0 \in 0 .. IdLimit - 1
  BY <1>1
<1>3. idOf \in [Segments -> 0 .. IdLimit - 1] /\ msgId \in 0 .. IdLimit - 1
  BY <1>2 DEF Init
<1>4. linked \subseteq {s \in Segments : s[2] < Length[s[1]]}
  BY DEF Init
<1>5. queue \in Seq(Segments \cup {Null}) /\ order \in Seq(Messages) /\ sent \in Seq(Segments)
  BY DEF Init
<1>6. sender \in [Senders -> {"idle", "give", "crashed"}] /\ deleted \in [Segments -> Nat]
  BY DEF Init
<1>7. /\ sem \in Nat /\ locked \in BOOLEAN /\ consumer \in ConsumerSteps
      /\ segment \in Segments \cup {Null} /\ consumer \notin {"send", "failed"}
      /\ dtor \in {"none", "exitReq", "give", "waitExit", "draining", "destroyed"}
  BY DEF Init, ConsumerSteps
<1> QED
  BY <1>3, <1>4, <1>5, <1>6, <1>7 DEF TypeOK

\* The front of the queue, if it has a successor, and the queue without it.
LEMMA PopProperties ==
    ASSUME TypeOK, queue # <<>>
    PROVE  /\ Head(queue) \in Entries /\ Head(queue) = queue[1]
           /\ Tail(queue) \in Seq(Entries)
           /\ Len(Tail(queue)) = Len(queue) - 1
           /\ \A i \in 1 .. Len(queue) - 1 : Tail(queue)[i] = queue[i + 1]
           /\ Head(queue) \in linked =>
                  LET next == <<Head(queue)[1], Head(queue)[2] + 1>> IN
                  /\ next \in Segments
                  /\ Urgency(next) = Urgency(Head(queue))
<1>1. queue \in Seq(Entries)
  BY DEF TypeOK, Entries
<1>2. /\ Head(queue) \in Entries /\ Tail(queue) \in Seq(Entries)
      /\ Len(Tail(queue)) = Len(queue) - 1
      /\ \A i \in 1 .. Len(Tail(queue)) : Tail(queue)[i] = queue[i + 1]
  BY <1>1, HeadTailProperties
<1>3. Head(queue) = queue[1]
  BY <1>1
<1>4. ASSUME NEW s \in linked
      PROVE  LET next == <<s[1], s[2] + 1>> IN
             next \in Segments /\ Urgency(next) = Urgency(s)
  <2> DEFINE next == <<s[1], s[2] + 1>>
  <2>1. s \in Segments /\ s[2] < Length[s[1]]
    BY <1>4 DEF TypeOK
  <2>2. s[1] \in Messages /\ s[2] \in 1 .. Length[s[1]] /\ Length[s[1]] \in Nat
    BY <2>1, UrgencyType, IpcTransmitAssumption
  <2>3. s[2] + 1 \in 1 .. Length[s[1]]
    BY <2>1, <2>2
  <2>4. next \in Segments
    BY <2>2, <2>3 DEF Segments
  <2>5. Urgency(next) = Priority[next[1]] /\ Urgency(s) = Priority[s[1]]
    BY <2>1, <2>4, UrgencyType
  <2> QED
    BY <2>4, <2>5
<1> QED
  BY <1>2, <1>3, <1>4

\* ++m_MsgId stays within its width and skips zero at the wrap-around.
LEMMA NextIdType ==
    ASSUME TypeOK PROVE NextId \in 0 .. IdLimit - 1 /\ NextId # 0
BY IpcTransmitAssumption DEF TypeOK, NextId

\* Every step of a client, of XmitThread and of ~IpcNode preserves the types.
LEMMA TypeStep == TypeOK /\ [Next]_vars => TypeOK'
<1> SUFFICES ASSUME TypeOK, [Next]_vars PROVE TypeOK'
  OBVIOUS
<1>0. queue \in Seq(Entries)
  BY DEF TypeOK, Entries
<1>1. ASSUME NEW c \in Senders, NEW m \in Messages, Enqueue(c, m) PROVE TypeOK'
  <2>1. PICK p \in 1 .. Len(queue) + 1 : queue' = InsertAt(queue, p, <<m, 1>>)
    BY <1>1 DEF Enqueue
  <2>2. <<m, 1>> \in Segments
    BY IpcTransmitAssumption DEF Segments
  <2>3. queue' \in Seq(Entries)
    BY <1>0, <2>1, <2>2, InsertAtProperties DEF Entries
  <2>4. idOf' \in [Segments -> 0 .. IdLimit - 1] /\ msgId' \in 0 .. IdLimit - 1
    BY <1>1, NextIdType DEF Enqueue, TypeOK
  <2>5. order' \in Seq(Messages)
    BY <1>1 DEF Enqueue, TypeOK
  <2> QED
    BY <1>1, <2>3, <2>4, <2>5 DEF Enqueue, TypeOK, Entries
<1>2. ASSUME NEW c \in Senders, NEW m \in Messages, EnqueueReadsNull(c, m) PROVE TypeOK'
  BY <1>2, NextIdType DEF EnqueueReadsNull, TypeOK, ConsumerSteps
<1>3. ASSUME NEW c \in Senders, EnqueueGive(c) PROVE TypeOK'
  BY <1>3 DEF EnqueueGive, TypeOK, queueVars
<1>4. CASE XmitPoll
  BY <1>4 DEF XmitPoll, TypeOK, queueVars, ConsumerSteps
<1>5. CASE SegmentGetTake
  BY <1>5 DEF SegmentGetTake, TypeOK, queueVars, ConsumerSteps
<1>6. CASE SegmentGetTimeout
  BY <1>6 DEF SegmentGetTimeout, TypeOK, queueVars, ConsumerSteps
<1>7. CASE SegmentGetPop
  <2> DEFINE seg == Head(queue)
             next == <<seg[1], seg[2] + 1>>
  <2>1. queue # <<>>
    BY <1>7 DEF SegmentGetPop
  <2>2. /\ seg \in Entries /\ Tail(queue) \in Seq(Entries)
        /\ seg \in linked => next \in Segments
    BY <2>1, PopProperties
  <2>3. CASE seg \in linked
    <3>1. /\ segment' = seg /\ idOf' = [idOf EXCEPT ![next] = idOf[seg]]
          /\ queue' = <<next>> \o Tail(queue) /\ linked' = linked \ {seg}
      BY <1>7, <2>3 DEF SegmentGetPop
    <3>2. next \in Segments /\ seg \in Segments
      BY <2>2, <2>3 DEF TypeOK
    <3>3. <<next>> \in Seq(Entries)
      BY <3>2 DEF Entries
    <3>4. queue' \in Seq(Entries)
      BY <2>2, <3>1, <3>3, ConcatProperties
    <3>5. idOf' \in [Segments -> 0 .. IdLimit - 1]
      BY <3>1, <3>2 DEF TypeOK
    <3>6. linked' \subseteq {s \in Segments : s[2] < Length[s[1]]}
      BY <3>1 DEF TypeOK
    <3>7. segment' \in Segments \cup {Null}
      BY <3>1, <3>2
    <3> HIDE DEF seg, next
    <3> QED
      BY <1>7, <3>4, <3>5, <3>6, <3>7 DEF SegmentGetPop, TypeOK, ConsumerSteps, Entries
  <2>4. CASE seg \notin linked
    <3>1. segment' = seg /\ queue' = Tail(queue) /\ idOf' = idOf /\ linked' = linked
      BY <1>7, <2>4 DEF SegmentGetPop
    <3>2. segment' \in Segments \cup {Null} /\ queue' \in Seq(Entries)
      BY <2>2, <3>1 DEF Entries
    <3> HIDE DEF seg, next
    <3> QED
      BY <1>7, <3>1, <3>2 DEF SegmentGetPop, TypeOK, ConsumerSteps, Entries
  <2> QED
    BY <2>3, <2>4
<1>8. CASE SegmentGetEmpty
  BY <1>8 DEF SegmentGetEmpty, TypeOK, queueVars, ConsumerSteps
<1>9. CASE SegmentGetCheck
  BY <1>9 DEF SegmentGetCheck, Returned, TypeOK, queueVars, ConsumerSteps
<1>10. CASE SegmentGetGive
  <2>1. sem' \in Nat
    BY <1>10 DEF SegmentGetGive, TypeOK
  <2>2. /\ consumer' \in ConsumerSteps
        /\ consumer' \in {"send", "failed"} => segment # Null
        /\ dtor' \in {"none", "exitReq", "give", "waitExit", "draining", "destroyed",
                      "crashed"}
    BY <1>10 DEF SegmentGetGive, Returned, TypeOK, ConsumerSteps
  <2> QED
    BY <1>10, <2>1, <2>2 DEF SegmentGetGive, TypeOK, queueVars
<1>11. CASE XmitSend \/ XmitDelete \/ Purge
  <2>1. segment \in Segments
    BY <1>11 DEF XmitSend, XmitDelete, Purge, TypeOK
  <2>2. deleted' \in [Segments -> Nat] /\ segment' \in Segments \cup {Null}
    <3>1. deleted' = [deleted EXCEPT ![segment] = @ + 1]
      BY <1>11 DEF XmitSend, XmitDelete, Purge
    <3>2. segment' \in {segment, Null}
      BY <1>11 DEF XmitSend, XmitDelete, Purge
    <3> QED
      BY <2>1, <3>1, <3>2 DEF TypeOK
  <2>3. sent' \in Seq(Segments)
    <3>1. sent' = Append(sent, segment) \/ sent' = sent
      BY <1>11 DEF XmitSend, XmitDelete, Purge
    <3>2. sent \in Seq(Segments)
      BY DEF TypeOK
    <3> QED
      BY <2>1, <3>1, <3>2, AppendProperties
  <2>4. segment \in Segments /\ Null \notin Segments
    BY <2>1, UrgencyType
  <2>5. /\ consumer' \in ConsumerSteps
        /\ consumer' \in {"send", "failed"} => segment' # Null
    <3>1. CASE XmitSend
      BY <3>1, <2>4 DEF XmitSend, ConsumerSteps
    <3>2. CASE XmitDelete \/ Purge
      BY <3>2 DEF XmitDelete, Purge, ConsumerSteps
    <3> QED
      BY <1>11, <3>1, <3>2
  <2>6. /\ queue' = queue /\ sem' = sem /\ locked' = locked /\ msgId' = msgId
        /\ idOf' = idOf /\ linked' = linked /\ sender' = sender /\ dtor' = dtor
        /\ order' = order
    BY <1>11 DEF XmitSend, XmitDelete, Purge, queueVars
  <2> QED
    BY <2>2, <2>3, <2>5, <2>6 DEF TypeOK
<1>12. CASE DtorExitReq \/ ReleaseThreadGive \/ DtorDrain
  BY <1>12 DEF DtorExitReq, ReleaseThreadGive, DtorDrain, TypeOK, queueVars, ConsumerSteps
<1>13. CASE ReleaseThread
  <2>1. queue' \in Seq(Entries)
    BY <1>0, <1>13 DEF ReleaseThread, Entries
  <2> QED
    BY <1>13, <2>1 DEF ReleaseThread, TypeOK, Entries
<1>14. CASE UNCHANGED vars
  BY <1>14 DEF vars, TypeOK
<1> QED
  BY <1>1, <1>2, <1>3, <1>4, <1>5, <1>6, <1>7, <1>8, <1>9, <1>10, <1>11, <1>12,
     <1>13, <1>14 DEF Next, Consume, Destroy


\* TypeOK is an invariant.
THEOREM TypeCorrect == Spec => []TypeOK
<1> QED
  BY TypeInit, TypeStep, PTL DEF Spec

-----------------------------------------------------------------------------
\* TransmitMessage inserts in order, SegmentGet puts a segment of the same priority
\* where the front one was, and the NULL goes behind everything.
LEMMA UrgencyStep == TypeOK /\ QueueByUrgency /\ [Next]_vars => QueueByUrgency'
<1> SUFFICES ASSUME TypeOK, QueueByUrgency, [Next]_vars PROVE QueueByUrgency'
  OBVIOUS
<1>0. /\ queue \in Seq(Entries)
      /\ Len(queue) \in Nat
      /\ DOMAIN queue = 1 .. Len(queue)
      /\ \A i \in 1 .. Len(queue) : queue[i] \in Entries /\ Urgency(queue[i]) \in 0 .. 4
  BY UrgencyType DEF TypeOK, Entries
\* A message is put behind every entry that is as urgent and in front of the
\* first that is not: what it overtakes is behind that one.
<1>1. ASSUME NEW c \in Senders, NEW m \in Messages, Enqueue(c, m) PROVE QueueByUrgency'
  <2> DEFINE new == <<m, 1>>
  <2>1. PICK p \in 1 .. Len(queue) + 1 :
            /\ ScanReaches(m, p)
            /\ p <= Len(queue) => Overtakes(m, queue[p])
            /\ queue' = InsertAt(queue, p, new)
    BY <1>1 DEF Enqueue
  <2>2. new \in Entries /\ Urgency(new) = Priority[m] /\ Urgency(new) \in 0 .. 3
    <3>1. new \in Segments
      BY IpcTransmitAssumption DEF Segments
    <3> QED
      BY <3>1, UrgencyType DEF Entries
  <2> HIDE DEF new
  <2>3. /\ Len(queue') = Len(queue) + 1
        /\ DOMAIN queue' = 1 .. Len(queue) + 1
        /\ \A i \in 1 .. Len(queue) + 1 :
               queue'[i] = IF i < p THEN queue[i] ELSE IF i = p THEN new ELSE queue[i - 1]
    BY <1>0, <2>1, <2>2, InsertAtProperties
  <2>4. \A i \in 1 .. Len(queue) : i < p => Urgency(queue[i]) <= Urgency(new)
    <3> SUFFICES ASSUME NEW i \in 1 .. Len(queue), i < p
                 PROVE  Urgency(queue[i]) <= Urgency(new)
      OBVIOUS
    <3>1. queue[i] # Null /\ ~Overtakes(m, queue[i])
      BY <1>0, <2>1 DEF ScanReaches
    <3>2. ~(Priority[m] < Urgency(queue[i]))
      BY <3>1 DEF Overtakes
    <3> QED
      BY <1>0, <2>2, <3>2
  <2>5. \A i \in 1 .. Len(queue) : p <= i => Urgency(new) <= Urgency(queue[i])
    <3> SUFFICES ASSUME NEW i \in 1 .. Len(queue), p <= i
                 PROVE  Urgency(new) <= Urgency(queue[i])
      OBVIOUS
    <3>1. p \in 1 .. Len(queue) /\ Priority[m] < Urgency(queue[p])
      BY <1>0, <2>1 DEF Overtakes
    <3>2. Urgency(queue[p]) <= Urgency(queue[i])
      BY <1>0, <3>1 DEF QueueByUrgency
    <3> QED
      BY <1>0, <2>2, <3>1, <3>2
  <2>6. SUFFICES ASSUME NEW i \in 1 .. Len(queue) + 1, NEW j \in 1 .. Len(queue) + 1, i < j
                 PROVE  Urgency(queue'[i]) <= Urgency(queue'[j])
    BY <2>3 DEF QueueByUrgency, Urgency
  <2>7. CASE j < p
    <3>1. i \in 1 .. Len(queue) /\ j \in 1 .. Len(queue) /\ queue'[i] = queue[i] /\ queue'[j] = queue[j]
      BY <1>0, <2>3, <2>6, <2>7
    <3> QED
      BY <1>0, <2>6, <3>1 DEF QueueByUrgency
  <2>8. CASE j = p
    <3>1. i \in 1 .. Len(queue) /\ i < p /\ queue'[i] = queue[i] /\ queue'[j] = new
      BY <1>0, <2>3, <2>6, <2>8
    <3> QED
      BY <2>4, <3>1
  <2>9. CASE p < j
    <3>1. j - 1 \in 1 .. Len(queue) /\ p <= j - 1 /\ queue'[j] = queue[j - 1]
      BY <1>0, <2>3, <2>9
    <3>2. CASE i = p
      BY <2>3, <2>5, <3>1, <3>2
    <3>3. CASE i < p
      <4>1. i \in 1 .. Len(queue) /\ i < j - 1 /\ queue'[i] = queue[i]
        BY <1>0, <2>3, <2>9, <3>3
      <4> QED
        BY <1>0, <3>1, <4>1 DEF QueueByUrgency
    <3>4. CASE p < i
      <4>1. i - 1 \in 1 .. Len(queue) /\ i - 1 < j - 1 /\ queue'[i] = queue[i - 1]
        BY <1>0, <2>3, <2>6, <3>4
      <4> QED
        BY <1>0, <3>1, <4>1 DEF QueueByUrgency
    <3> QED
      BY <1>0, <3>2, <3>3, <3>4
  <2> QED
    BY <1>0, <2>7, <2>8, <2>9
\* What follows a segment in its message is exactly as urgent as it was.
<1>2. CASE SegmentGetPop
  <2> DEFINE seg == Head(queue)
             next == <<seg[1], seg[2] + 1>>
  <2>1. queue # <<>>
    BY <1>2 DEF SegmentGetPop
  <2>2. /\ seg = queue[1]
        /\ Tail(queue) \in Seq(Entries)
        /\ Len(Tail(queue)) = Len(queue) - 1
        /\ \A i \in 1 .. Len(queue) - 1 : Tail(queue)[i] = queue[i + 1]
        /\ seg \in linked => next \in Segments /\ Urgency(next) = Urgency(seg)
    BY <2>1, PopProperties
  <2>3. CASE seg \in linked
    <3>1. queue' = <<next>> \o Tail(queue)
      BY <1>2, <2>3 DEF SegmentGetPop
    <3>2. <<next>> \in Seq(Entries) /\ Len(<<next>>) = 1 /\ <<next>>[1] = next
      BY <2>2, <2>3 DEF Entries
    <3> HIDE DEF seg, next
    <3>3. /\ Len(queue') = Len(queue)
          /\ DOMAIN queue' = 1 .. Len(queue)
          /\ \A i \in 1 .. Len(queue) : queue'[i] = IF i = 1 THEN next ELSE queue[i]
      <4>1. /\ queue' \in Seq(Entries)
            /\ Len(queue') = 1 + (Len(queue) - 1)
            /\ \A i \in 1 .. 1 + (Len(queue) - 1) :
                   queue'[i] = IF i <= 1 THEN <<next>>[i] ELSE Tail(queue)[i - 1]
        BY <2>2, <3>1, <3>2, ConcatProperties
      <4> QED
        BY <1>0, <2>2, <3>2, <4>1
    <3>4. \A i \in 1 .. Len(queue) : Urgency(queue'[i]) = Urgency(queue[i])
      BY <2>2, <2>3, <3>3
    <3> QED
      BY <1>0, <3>3, <3>4 DEF QueueByUrgency, Urgency
  <2>4. CASE seg \notin linked
    <3>1. queue' = Tail(queue)
      BY <1>2, <2>4 DEF SegmentGetPop
    <3>2. DOMAIN queue' = 1 .. Len(queue) - 1 /\ \A i \in 1 .. Len(queue) - 1 : queue'[i] = queue[i + 1]
      BY <1>0, <2>2, <3>1
    <3>3. ASSUME NEW i \in 1 .. Len(queue) - 1, NEW j \in 1 .. Len(queue) - 1, i < j
          PROVE  Urgency(queue'[i]) <= Urgency(queue'[j])
      <4>1. i + 1 \in 1 .. Len(queue) /\ j + 1 \in 1 .. Len(queue) /\ i + 1 < j + 1
        BY <1>0, <3>3
      <4> QED
        BY <1>0, <3>2, <4>1 DEF QueueByUrgency
    <3> QED
      BY <3>2, <3>3 DEF QueueByUrgency, Urgency
  <2> QED
    BY <2>3, <2>4
\* NULL is less urgent than anything, and goes last.
<1>3. CASE ReleaseThread
  <2>1. /\ DOMAIN queue' = 1 .. Len(queue) + 1
        /\ \A i \in 1 .. Len(queue) : queue'[i] = queue[i]
        /\ queue'[Len(queue) + 1] = Null
    BY <1>0, <1>3 DEF ReleaseThread, Entries
  <2>2. \A i \in 1 .. Len(queue) + 1 : Urgency(queue'[i]) \in 0 .. 4
    BY <1>0, <2>1, UrgencyType
  <2>3. ASSUME NEW i \in 1 .. Len(queue) + 1, NEW j \in 1 .. Len(queue) + 1, i < j
        PROVE  Urgency(queue'[i]) <= Urgency(queue'[j])
    <3>1. CASE j = Len(queue) + 1
      BY <2>1, <2>2, <3>1, UrgencyType
    <3>2. CASE j # Len(queue) + 1
      BY <1>0, <2>1, <2>3, <3>2 DEF QueueByUrgency
    <3> QED
      BY <3>1, <3>2
  <2> QED
    BY <2>1, <2>3 DEF QueueByUrgency, Urgency
<1>4. CASE UNCHANGED queue
  BY <1>4 DEF QueueByUrgency, Urgency
<1>5. [Next]_vars => \/ \E c \in Senders, m \in Messages : Enqueue(c, m)
                     \/ SegmentGetPop \/ ReleaseThread \/ UNCHANGED queue
  BY DEF Next, Consume, Destroy, vars, queueVars, EnqueueReadsNull, EnqueueGive, XmitPoll,
     SegmentGetTake, SegmentGetTimeout, SegmentGetEmpty, SegmentGetCheck, SegmentGetGive,
     XmitSend, XmitDelete, Purge, DtorExitReq, ReleaseThreadGive, DtorDrain
<1> QED
  BY <1>1, <1>2, <1>3, <1>4, <1>5

\* The transmit list is ordered by urgency whatever clients send.
THEOREM UrgencyOrdered == Spec => []QueueByUrgency
<1>1. Init => QueueByUrgency
  BY DEF Init, QueueByUrgency
<1> QED
  BY <1>1, TypeCorrect, UrgencyStep, PTL DEF Spec

-----------------------------------------------------------------------------
\* Whoever leaves something in the list without a token is about to give one.
LEMMA SignalStep == TypeOK /\ NothingStranded /\ [Next]_vars => NothingStranded'
<1> SUFFICES ASSUME TypeOK, NothingStranded, [Next]_vars PROVE NothingStranded'
  OBVIOUS
<1>0. sem \in Nat
  BY DEF TypeOK
<1>1. ASSUME NEW c \in Senders, NEW m \in Messages, Enqueue(c, m) PROVE NothingStranded'
  BY <1>1 DEF Enqueue, NothingStranded, TypeOK
<1>2. ASSUME NEW c \in Senders, NEW m \in Messages, EnqueueReadsNull(c, m) PROVE NothingStranded'
  BY <1>2 DEF EnqueueReadsNull, NothingStranded, TypeOK
<1>3. ASSUME NEW c \in Senders, EnqueueGive(c) PROVE NothingStranded'
  <2>1. sem' > 0
    BY <1>0, <1>3 DEF EnqueueGive
  <2> QED
    BY <2>1 DEF NothingStranded
<1>4. CASE XmitPoll \/ SegmentGetTimeout \/ XmitSend \/ XmitDelete \/ Purge \/ DtorExitReq
  <2>1. queue' = queue /\ sem' = sem /\ sender' = sender
    BY <1>4 DEF XmitPoll, SegmentGetTimeout, XmitSend, XmitDelete, Purge, DtorExitReq, queueVars
  <2>2. consumer' = consumer \/ consumer \in {"poll", "take", "send", "failed"}
    BY <1>4 DEF XmitPoll, SegmentGetTimeout, XmitSend, XmitDelete, Purge, DtorExitReq
  <2>3. dtor \in {"give", "crashed"} => dtor' = dtor
    BY <1>4 DEF XmitPoll, SegmentGetTimeout, XmitSend, XmitDelete, Purge, DtorExitReq, Draining
  <2> QED
    BY <2>1, <2>2, <2>3 DEF NothingStranded
<1>5. CASE SegmentGetTake \/ SegmentGetPop \/ SegmentGetEmpty
  BY <1>5 DEF SegmentGetTake, SegmentGetPop, SegmentGetEmpty, NothingStranded
<1>6. CASE SegmentGetCheck
  <2>1. CASE queue # <<>> /\ sem = 0
    BY <1>6, <2>1 DEF SegmentGetCheck, NothingStranded
  <2>2. CASE ~(queue # <<>> /\ sem = 0)
    BY <1>0, <1>6, <2>2 DEF SegmentGetCheck, NothingStranded, queueVars
  <2> QED
    BY <2>1, <2>2
<1>7. CASE SegmentGetGive \/ ReleaseThreadGive
  <2>1. sem' > 0
    BY <1>0, <1>7 DEF SegmentGetGive, ReleaseThreadGive
  <2> QED
    BY <2>1 DEF NothingStranded
<1>8. CASE ReleaseThread \/ DtorDrain
  BY <1>8 DEF ReleaseThread, DtorDrain, NothingStranded, queueVars
<1>9. CASE UNCHANGED vars
  BY <1>9 DEF vars, NothingStranded
<1> QED
  BY <1>1, <1>2, <1>3, <1>4, <1>5, <1>6, <1>7, <1>8, <1>9 DEF Next, Consume, Destroy

\* A queue with something in it is signalled, or about to be, or being served.
THEOREM SignalKept == Spec => []NothingStranded
<1>1. Init => NothingStranded
  BY DEF Init, NothingStranded
<1> QED
  BY <1>1, TypeCorrect, SignalStep, PTL DEF Spec

-----------------------------------------------------------------------------
(* What the two operations that reorder the list leave of it.              *)

\* What comes after a segment in its message.
After(s) == <<s[1], s[2] + 1>>

\* The list of m_PriorityQueue holds segments and the NULL, by position.
LEMMA QueueType ==
    ASSUME TypeOK
    PROVE  /\ queue \in Seq(Entries) /\ Len(queue) \in Nat /\ DOMAIN queue = 1 .. Len(queue)
           /\ \A i \in DOMAIN queue : queue[i] \in Entries
           /\ \A i \in DOMAIN queue : queue[i] # Null => queue[i] \in Segments
<1>1. queue \in Seq(Entries)
  BY DEF TypeOK, Entries
<1>2. queue \in [1 .. Len(queue) -> Entries] /\ Len(queue) \in Nat
  BY <1>1, LenProperties
<1> QED
  BY <1>1, <1>2 DEF Entries

\* TransmitMessage puts the message behind entries that are as urgent, and in
\* front of one that is less.
LEMMA EnqueueShape ==
    ASSUME TypeOK, NEW c \in Senders, NEW m \in Messages, Enqueue(c, m)
    PROVE  /\ <<m, 1>> \in Segments
           /\ \E p \in 1 .. Len(queue) + 1 :
                  /\ \A i \in 1 .. p - 1 : queue[i] # Null /\ ~Overtakes(m, queue[i])
                  /\ p <= Len(queue) => Overtakes(m, queue[p])
                  /\ DOMAIN queue' = 1 .. Len(queue) + 1
                  /\ \A i \in 1 .. Len(queue) + 1 :
                         queue'[i] = IF i < p THEN queue[i]
                                     ELSE IF i = p THEN <<m, 1>> ELSE queue[i - 1]
<1> DEFINE new == <<m, 1>>
<1>1. new \in Segments
  BY IpcTransmitAssumption DEF Segments
<1>2. PICK p \in 1 .. Len(queue) + 1 :
          /\ ScanReaches(m, p)
          /\ p <= Len(queue) => Overtakes(m, queue[p])
          /\ queue' = InsertAt(queue, p, new)
  BY DEF Enqueue
<1> HIDE DEF new
<1>3. /\ queue' \in Seq(Entries) /\ Len(queue') = Len(queue) + 1
      /\ \A i \in 1 .. Len(queue) + 1 :
             queue'[i] = IF i < p THEN queue[i] ELSE IF i = p THEN new ELSE queue[i - 1]
  <2>1. PICK q : q = queue
    OBVIOUS
  <2>2. q \in Seq(Entries) /\ new \in Entries /\ p \in 1 .. Len(q) + 1
    BY <1>1, <2>1, QueueType DEF Entries
  <2>3. /\ InsertAt(q, p, new) \in Seq(Entries)
        /\ Len(InsertAt(q, p, new)) = Len(q) + 1
        /\ \A i \in 1 .. Len(q) + 1 :
               InsertAt(q, p, new)[i] = IF i < p THEN q[i] ELSE IF i = p THEN new ELSE q[i - 1]
    BY <2>2, InsertAtProperties
  <2> QED
    BY <1>2, <2>1, <2>3
<1>4. DOMAIN queue' = 1 .. Len(queue) + 1
  BY <1>3, LenProperties
<1>5. \A i \in 1 .. p - 1 : queue[i] # Null /\ ~Overtakes(m, queue[i])
  BY <1>2 DEF ScanReaches
<1> QED
  BY <1>1, <1>2, <1>3, <1>4, <1>5 DEF new

\* TransmitMessage adds the first segment of its message and nothing else.
LEMMA EnqueueRange ==
    ASSUME TypeOK, NEW c \in Senders, NEW m \in Messages, Enqueue(c, m)
    PROVE  Range(queue') = Range(queue) \cup {<<m, 1>>}
<1>1. PICK p \in 1 .. Len(queue) + 1 :
          /\ DOMAIN queue' = 1 .. Len(queue) + 1
          /\ \A i \in 1 .. Len(queue) + 1 :
                 queue'[i] = IF i < p THEN queue[i] ELSE IF i = p THEN <<m, 1>> ELSE queue[i - 1]
  BY EnqueueShape
<1>2. Len(queue) \in Nat /\ DOMAIN queue = 1 .. Len(queue)
  BY QueueType
<1>3. ASSUME NEW i \in DOMAIN queue' PROVE queue'[i] \in Range(queue) \cup {<<m, 1>>}
  <2>1. CASE i < p
    <3>1. i \in DOMAIN queue
      BY <1>1, <1>2, <2>1
    <3> QED
      BY <1>1, <2>1, <3>1 DEF Range
  <2>2. CASE i = p
    BY <1>1, <2>2
  <2>3. CASE p < i
    <3>1. i - 1 \in DOMAIN queue /\ ~(i < p) /\ i # p
      BY <1>1, <1>2, <2>3
    <3> QED
      BY <1>1, <3>1 DEF Range
  <2> QED
    BY <1>1, <1>2, <2>1, <2>2, <2>3
<1>4. ASSUME NEW k \in DOMAIN queue PROVE \E i \in DOMAIN queue' : queue'[i] = queue[k]
  <2>1. CASE k < p
    BY <1>1, <1>2, <2>1
  <2>2. CASE ~(k < p)
    <3>1. k + 1 \in 1 .. Len(queue) + 1 /\ ~(k + 1 < p) /\ k + 1 # p /\ k + 1 - 1 = k
      BY <1>1, <1>2, <2>2
    <3> QED
      BY <1>1, <3>1
  <2> QED
    BY <2>1, <2>2
<1>5. p \in DOMAIN queue' /\ queue'[p] = <<m, 1>>
  BY <1>1, <1>2
<1> QED
  BY <1>3, <1>4, <1>5 DEF Range

\* SegmentGet takes the first entry, and the rest of its message takes its place.
LEMMA PopShape ==
    ASSUME TypeOK, SegmentGetPop
    PROVE  /\ 1 \in DOMAIN queue /\ segment' = queue[1]
           /\ \/ /\ queue[1] \in linked /\ queue[1] \in Segments /\ After(queue[1]) \in Segments
                 /\ linked' = linked \ {queue[1]}
                 /\ idOf' = [idOf EXCEPT ![After(queue[1])] = idOf[queue[1]]]
                 /\ DOMAIN queue' = DOMAIN queue
                 /\ \A i \in DOMAIN queue : queue'[i] = IF i = 1 THEN After(queue[1]) ELSE queue[i]
              \/ /\ queue[1] \notin linked /\ UNCHANGED <<idOf, linked>>
                 /\ DOMAIN queue' = 1 .. Len(queue) - 1
                 /\ \A i \in 1 .. Len(queue) - 1 : queue'[i] = queue[i + 1]
<1> DEFINE seg == queue[1]
           next == After(seg)
<1>1. queue # <<>> /\ Len(queue) \in Nat /\ DOMAIN queue = 1 .. Len(queue)
  BY QueueType DEF SegmentGetPop
<1>2. 1 \in DOMAIN queue
  BY <1>1, QueueType, EmptySeq
<1>3. /\ Head(queue) = seg
      /\ Tail(queue) \in Seq(Entries) /\ Len(Tail(queue)) = Len(queue) - 1
      /\ \A i \in 1 .. Len(queue) - 1 : Tail(queue)[i] = queue[i + 1]
      /\ seg \in linked => next \in Segments
  BY <1>1, PopProperties DEF After
<1>4. segment' = seg
  BY <1>3 DEF SegmentGetPop
<1>5. CASE seg \in linked
  <2>1. /\ queue' = <<next>> \o Tail(queue) /\ linked' = linked \ {seg}
        /\ idOf' = [idOf EXCEPT ![next] = idOf[seg]]
    BY <1>3, <1>5 DEF SegmentGetPop, After
  <2>2. seg \in Segments
    BY <1>5 DEF TypeOK
  <2>3. <<next>> \in Seq(Entries) /\ Len(<<next>>) = 1 /\ <<next>>[1] = next
    BY <1>3, <1>5 DEF Entries
  <2> HIDE DEF seg, next
  <2>4. /\ queue' \in Seq(Entries)
        /\ Len(queue') = 1 + (Len(queue) - 1)
        /\ \A i \in 1 .. 1 + (Len(queue) - 1) :
               queue'[i] = IF i <= 1 THEN <<next>>[i] ELSE Tail(queue)[i - 1]
    BY <1>3, <2>1, <2>3, ConcatProperties
  <2>5. DOMAIN queue' = DOMAIN queue
    BY <1>1, <2>4, LenProperties
  <2>6. ASSUME NEW i \in DOMAIN queue
        PROVE  queue'[i] = IF i = 1 THEN next ELSE queue[i]
    <3>1. CASE i = 1
      BY <1>1, <2>3, <2>4, <3>1
    <3>2. CASE i # 1
      <4>1. i \in 1 .. 1 + (Len(queue) - 1) /\ ~(i <= 1) /\ i - 1 \in 1 .. Len(queue) - 1
            /\ i - 1 + 1 = i
        BY <1>1, <3>2
      <4> QED
        BY <1>3, <2>4, <3>2, <4>1
    <3> QED
      BY <3>1, <3>2
  <2> QED
    BY <1>2, <1>3, <1>4, <1>5, <2>1, <2>2, <2>5, <2>6 DEF seg, next
<1>6. CASE seg \notin linked
  <2>1. queue' = Tail(queue) /\ UNCHANGED <<idOf, linked>>
    BY <1>3, <1>6 DEF SegmentGetPop
  <2>2. DOMAIN queue' = 1 .. Len(queue) - 1
    BY <1>3, <2>1, LenProperties
  <2> QED
    BY <1>2, <1>3, <1>4, <1>6, <2>1, <2>2
<1> QED
  BY <1>5, <1>6

\* Where an entry of the list was before the front one was taken.
Shift == IF queue[1] \in linked THEN 0 ELSE 1

\* Where each entry of the list comes from when SegmentGet has taken the front one.
LEMMA PopEntries ==
    ASSUME TypeOK, SegmentGetPop, NEW j \in DOMAIN queue'
    PROVE  /\ j \in Nat /\ Shift \in {0, 1}
           /\ \/ /\ j = 1 /\ queue'[j] = After(queue[1]) /\ queue[1] \in linked
                 /\ queue[1] \in Segments /\ queue[1] # Null
              \/ /\ j + Shift \in DOMAIN queue /\ j + Shift > 1
                 /\ queue'[j] = queue[j + Shift]
<1>1. Len(queue) \in Nat /\ DOMAIN queue = 1 .. Len(queue)
  BY QueueType
<1>2. CASE queue[1] \in linked
  <2>1. /\ queue[1] \in Segments /\ DOMAIN queue' = DOMAIN queue
        /\ \A i \in DOMAIN queue : queue'[i] = IF i = 1 THEN After(queue[1]) ELSE queue[i]
    BY <1>2, PopShape
  <2>2. Shift = 0 /\ j + 0 = j /\ j \in Nat /\ (j = 1 \/ j > 1)
    BY <1>1, <1>2, <2>1 DEF Shift
  <2> QED
    BY <1>2, <2>1, <2>2, UrgencyType
<1>3. CASE queue[1] \notin linked
  <2>1. /\ DOMAIN queue' = 1 .. Len(queue) - 1
        /\ \A i \in 1 .. Len(queue) - 1 : queue'[i] = queue[i + 1]
    BY <1>3, PopShape
  <2>2. Shift = 1 /\ j + 1 \in DOMAIN queue /\ j + 1 > 1 /\ j \in Nat
    BY <1>1, <1>3, <2>1 DEF Shift
  <2> QED
    BY <2>1, <2>2
<1> QED
  BY <1>2, <1>3

\* SegmentGet loses no entry but the front one, and that one only to its successor.
LEMMA PopKeeps ==
    ASSUME TypeOK, SegmentGetPop
    PROVE  /\ \A i \in DOMAIN queue : i # 1 => queue[i] \in Range(queue')
           /\ queue[1] \in linked => After(queue[1]) \in Range(queue')
<1>1. Len(queue) \in Nat /\ DOMAIN queue = 1 .. Len(queue) /\ 1 \in DOMAIN queue
  BY QueueType, PopShape
<1>2. CASE queue[1] \in linked
  <2>1. /\ DOMAIN queue' = DOMAIN queue
        /\ \A i \in DOMAIN queue : queue'[i] = IF i = 1 THEN After(queue[1]) ELSE queue[i]
    BY <1>2, PopShape
  <2> QED
    BY <1>1, <2>1 DEF Range
<1>3. CASE queue[1] \notin linked
  <2>1. /\ DOMAIN queue' = 1 .. Len(queue) - 1
        /\ \A i \in 1 .. Len(queue) - 1 : queue'[i] = queue[i + 1]
    BY <1>3, PopShape
  <2>2. \A i \in DOMAIN queue : i # 1 => i - 1 \in DOMAIN queue' /\ queue'[i - 1] = queue[i]
    BY <1>1, <2>1
  <2> QED
    BY <1>3, <2>2 DEF Range
<1> QED
  BY <1>2, <1>3

\* What the other steps do not touch.
LEMMA QuietSteps ==
    /\ \A c \in Senders : EnqueueGive(c) => UNCHANGED <<queueVars, segment, sent, deleted, dtor, consumer>>
    /\ \/ XmitPoll \/ SegmentGetTake \/ SegmentGetTimeout \/ SegmentGetCheck \/ SegmentGetGive
       \/ DtorExitReq \/ ReleaseThreadGive \/ DtorDrain
       => UNCHANGED <<queueVars, segment, sent, deleted>>
    /\ SegmentGetEmpty => UNCHANGED <<queueVars, sent, deleted>> /\ segment' = Null
<1>1. \A c \in Senders : EnqueueGive(c) => UNCHANGED <<queueVars, segment, sent, deleted, dtor, consumer>>
  BY DEF EnqueueGive, queueVars
<1>2. \/ XmitPoll \/ SegmentGetTake \/ SegmentGetTimeout \/ SegmentGetCheck \/ SegmentGetGive
      \/ DtorExitReq \/ ReleaseThreadGive \/ DtorDrain
      => UNCHANGED <<queueVars, segment, sent, deleted>>
  BY DEF XmitPoll, SegmentGetTake, SegmentGetTimeout, SegmentGetCheck, SegmentGetGive,
         DtorExitReq, ReleaseThreadGive, DtorDrain
<1>3. SegmentGetEmpty => UNCHANGED <<queueVars, sent, deleted>> /\ segment' = Null
  BY DEF SegmentGetEmpty
<1> QED
  BY <1>1, <1>2, <1>3

-----------------------------------------------------------------------------
(* Who has been accepted.                                                  *)

\* Entries of the list, the segment the consumer has and those it sent are of
\* messages that were queued, each once; what was not queued is still whole.
Known ==
    /\ IsInjective(order)
    /\ \A i \in DOMAIN queue : queue[i] # Null => queue[i][1] \in Submitted
    /\ segment # Null => segment[1] \in Submitted
    /\ \A i \in DOMAIN sent : sent[i][1] \in Submitted
    /\ \A s \in Segments : s[1] \notin Submitted /\ s[2] < Length[s[1]] => s \in linked

\* Every entry of the list, and the segment in hand, is of a message that was queued,
\* and a message is queued once.
LEMMA KnownStep == TypeOK /\ Known /\ [Next]_vars => Known'
<1> SUFFICES ASSUME TypeOK, Known, [Next]_vars PROVE Known'
  OBVIOUS
<1>0. ASSUME UNCHANGED <<order, linked>>,
             \A i \in DOMAIN queue' : queue'[i] # Null => queue'[i][1] \in Submitted,
             segment' # Null => segment'[1] \in Submitted,
             \A i \in DOMAIN sent' : sent'[i][1] \in Submitted
      PROVE  Known'
  BY <1>0 DEF Known, Submitted
<1>1. ASSUME NEW c \in Senders, NEW m \in Messages, Enqueue(c, m) PROVE Known'
  <2>1. /\ m \notin Range(order) /\ order' = Append(order, m) /\ order \in Seq(Messages)
        /\ UNCHANGED <<linked, segment, sent>>
    BY <1>1 DEF Enqueue, Submitted, TypeOK
  <2>2. /\ Len(order) \in Nat /\ DOMAIN order = 1 .. Len(order)
        /\ \A i \in DOMAIN order : i \in DOMAIN order' /\ order'[i] = order[i]
        /\ order'[Len(order) + 1] = m
        /\ \A i \in DOMAIN order' : i \in DOMAIN order \/ i = Len(order) + 1
        /\ Range(order') = Range(order) \cup {m}
    BY <2>1, AppendShape
  <2>3. IsInjective(order')
    BY <2>1, <2>2 DEF Known, IsInjective, Range
  <2>4. ASSUME NEW i \in DOMAIN queue', queue'[i] # Null PROVE queue'[i][1] \in Range(order')
    <3>1. queue'[i] \in Range(queue) \cup {<<m, 1>>}
      BY <1>1, EnqueueRange DEF Range
    <3>2. CASE queue'[i] = <<m, 1>>
      BY <2>2, <3>2
    <3>3. CASE queue'[i] \in Range(queue)
      <4>1. PICK k \in DOMAIN queue : queue'[i] = queue[k]
        BY <3>3 DEF Range
      <4>2. queue[k][1] \in Range(order)
        BY <2>4, <4>1 DEF Known, Submitted
      <4> QED
        BY <2>2, <4>1, <4>2
    <3> QED
      BY <3>1, <3>2, <3>3
  <2> QED
    BY <2>1, <2>2, <2>3, <2>4 DEF Known, Submitted
<1>2. CASE SegmentGetPop
  <2>1. order' = order /\ sent' = sent /\ queue[1] \in Entries
    BY <1>2, PopShape, QueueType DEF SegmentGetPop
  <2>2. CASE queue[1] \in linked
    <3>1. /\ segment' = queue[1] /\ 1 \in DOMAIN queue /\ queue[1] \in Segments
          /\ linked' = linked \ {queue[1]} /\ DOMAIN queue' = DOMAIN queue
          /\ \A i \in DOMAIN queue : queue'[i] = IF i = 1 THEN After(queue[1]) ELSE queue[i]
      BY <1>2, <2>2, PopShape
    <3>2. queue[1][1] \in Submitted /\ After(queue[1])[1] = queue[1][1]
      BY <3>1, UrgencyType DEF Known, After
    <3> QED
      BY <2>1, <3>1, <3>2 DEF Known, Submitted
  <2>3. CASE queue[1] \notin linked
    <3>1. /\ segment' = queue[1] /\ 1 \in DOMAIN queue /\ linked' = linked
          /\ DOMAIN queue' = 1 .. Len(queue) - 1
          /\ \A i \in 1 .. Len(queue) - 1 : queue'[i] = queue[i + 1]
      BY <1>2, <2>3, PopShape
    <3>2. \A i \in DOMAIN queue' : i + 1 \in DOMAIN queue /\ queue'[i] = queue[i + 1]
      BY <3>1, QueueType
    <3> QED
      BY <1>0, <2>1, <3>1, <3>2 DEF Known
  <2> QED
    BY <2>2, <2>3
<1>3. CASE ReleaseThread
  <2>1. queue' = Append(queue, Null) /\ UNCHANGED <<order, linked, segment, sent>>
    BY <1>3 DEF ReleaseThread
  <2>2. \A i \in DOMAIN queue' : (i \in DOMAIN queue /\ queue'[i] = queue[i]) \/ queue'[i] = Null
    BY <2>1, QueueType, AppendShape DEF Entries
  <2> QED
    BY <1>0, <2>1, <2>2 DEF Known
<1>4. CASE XmitSend
  <2>1. /\ sent' = Append(sent, segment) /\ segment' \in {segment, Null}
        /\ UNCHANGED <<order, linked, queue>> /\ segment \in Segments /\ segment # Null
    BY <1>4 DEF XmitSend, queueVars, TypeOK
  <2>2. \A i \in DOMAIN sent' : (i \in DOMAIN sent /\ sent'[i] = sent[i]) \/ sent'[i] = segment
    BY <2>1, AppendShape DEF TypeOK
  <2> QED
    BY <1>0, <2>1, <2>2 DEF Known
<1>5. CASE XmitDelete \/ Purge \/ SegmentGetEmpty
  <2>1. segment' = Null /\ UNCHANGED <<order, linked, queue, sent>>
    BY <1>5 DEF XmitDelete, Purge, SegmentGetEmpty, queueVars
  <2> QED
    BY <1>0, <2>1 DEF Known
<1>6. CASE UNCHANGED <<queueVars, segment, sent>>
  BY <1>0, <1>6 DEF Known, queueVars
<1>7. ASSUME NEW c \in Senders, NEW m \in Messages, EnqueueReadsNull(c, m) PROVE Known'
  <2>1. UNCHANGED <<order, linked, queue, sent, segment>>
    BY <1>7 DEF EnqueueReadsNull
  <2> QED
    BY <1>0, <2>1 DEF Known
<1>8. CASE UNCHANGED vars
  BY <1>6, <1>8 DEF vars, queueVars
<1> QED
  BY <1>1, <1>2, <1>3, <1>4, <1>5, <1>6, <1>7, <1>8, QuietSteps DEF Next, Consume, Destroy

-----------------------------------------------------------------------------
(* The order in which the segments are sent.                               *)

\* Turn, Precedes and Ahead for a list q of messages, which order is.
TurnIn(q, m) == SelectInSeq(q, LAMBDA n : n = m)

Ahead(q, s, t) == Priority[s[1]] = Priority[t[1]] => TurnIn(q, s[1]) < TurnIn(q, t[1])

Precedes(q, s, t) ==
    Priority[s[1]] = Priority[t[1]] =>
        TurnIn(q, s[1]) < TurnIn(q, t[1]) \/ (s[1] = t[1] /\ s[2] < t[2])

\* The consumer is between taking a segment and sending it.
Held == consumer \in {"check", "give", "send"} /\ segment # Null

\* Among segments of one priority, those sent precede the one in the consumer's
\* hand and both precede the list, where messages are in their turn.
InTurn ==
    /\ \A i, j \in DOMAIN sent : i < j => Precedes(order, sent[i], sent[j])
    /\ \A i \in DOMAIN sent, j \in DOMAIN queue :
           queue[j] # Null => Precedes(order, sent[i], queue[j])
    /\ Held => \A i \in DOMAIN sent : Precedes(order, sent[i], segment)
    /\ Held => \A j \in DOMAIN queue : queue[j] # Null => Precedes(order, segment, queue[j])
    /\ \A i, j \in DOMAIN queue :
           i < j /\ queue[i] # Null /\ queue[j] # Null => Ahead(order, queue[i], queue[j])

\* A message's turn is its place in the list.
LEMMA TurnIs ==
    ASSUME NEW S, NEW q \in Seq(S), IsInjective(q), NEW i \in DOMAIN q
    PROVE  TurnIn(q, q[i]) = i
<1>1. DOMAIN q = 1 .. Len(q) /\ Len(q) \in Nat
  BY LenProperties
<1> DEFINE I == {k \in 1 .. Len(q) : q[k] = q[i]}
<1>2. I = {i}
  BY <1>1 DEF IsInjective
<1>3. TurnIn(q, q[i]) = IF I # {} THEN Min(I) ELSE 0
  BY DEF TurnIn, SelectInSeq
<1>4. Min({i}) = i
  BY <1>1 DEF Min
<1> QED
  BY <1>2, <1>3, <1>4

\* A message that comes behind the others changes nobody's turn.
LEMMA TurnStays ==
    ASSUME NEW q \in Seq(Messages), IsInjective(q), NEW m \in Messages, m \notin Range(q)
    PROVE  /\ \A n \in Range(q) : TurnIn(Append(q, m), n) = TurnIn(q, n)
           /\ \A n \in Range(q) : TurnIn(Append(q, m), n) < TurnIn(Append(q, m), m)
<1> DEFINE r == Append(q, m)
<1>1. /\ r \in Seq(Messages) /\ Len(q) \in Nat /\ DOMAIN q = 1 .. Len(q)
      /\ DOMAIN r = 1 .. Len(q) + 1
      /\ \A i \in DOMAIN q : i \in DOMAIN r /\ r[i] = q[i]
      /\ r[Len(q) + 1] = m
      /\ \A i \in DOMAIN r : i \in DOMAIN q \/ i = Len(q) + 1
  BY AppendShape
<1> HIDE DEF r
<1>2. IsInjective(r)
  BY <1>1 DEF IsInjective, Range
<1>3. TurnIn(r, m) = Len(q) + 1
  BY <1>1, <1>2, TurnIs
<1>4. ASSUME NEW n \in Range(q)
      PROVE  TurnIn(r, n) = TurnIn(q, n) /\ TurnIn(r, n) < TurnIn(r, m)
  <2>1. PICK i \in DOMAIN q : n = q[i]
    BY DEF Range
  <2>2. i \in DOMAIN r /\ r[i] = n
    BY <1>1, <2>1
  <2>3. TurnIn(q, n) = i
    BY <2>1, TurnIs
  <2>4. TurnIn(r, n) = i
    BY <1>1, <1>2, <2>2, TurnIs
  <2> QED
    BY <1>1, <1>3, <2>3, <2>4
<1> QED
  BY <1>4 DEF r

\* What precedes a segment precedes the rest of its message, and so does the
\* segment itself.
LEMMA PrecedesAfter ==
    ASSUME NEW q, NEW s \in Segments, NEW t \in Segments
    PROVE  /\ Precedes(q, s, t) => Precedes(q, s, After(t))
           /\ Precedes(q, t, After(t))
<1>1. s[2] \in Nat /\ t[2] \in Nat /\ After(t)[1] = t[1] /\ After(t)[2] = t[2] + 1
  BY UrgencyType, IpcTransmitAssumption DEF After
<1> QED
  BY <1>1 DEF Precedes

\* Where the list has a gap between priorities, a message is behind all that
\* are of its own.
LEMMA EnqueueBehind ==
    ASSUME TypeOK, QueueByUrgency, NEW c \in Senders, NEW m \in Messages, Enqueue(c, m)
    PROVE  \E p \in 1 .. Len(queue) + 1 :
               /\ DOMAIN queue' = 1 .. Len(queue) + 1
               /\ \A i \in 1 .. Len(queue) + 1 :
                      queue'[i] = IF i < p THEN queue[i]
                                  ELSE IF i = p THEN <<m, 1>> ELSE queue[i - 1]
               /\ \A i \in p .. Len(queue) : queue[i] # Null => Priority[queue[i][1]] # Priority[m]
<1>1. PICK p \in 1 .. Len(queue) + 1 :
          /\ p <= Len(queue) => Overtakes(m, queue[p])
          /\ DOMAIN queue' = 1 .. Len(queue) + 1
          /\ \A i \in 1 .. Len(queue) + 1 :
                 queue'[i] = IF i < p THEN queue[i]
                             ELSE IF i = p THEN <<m, 1>> ELSE queue[i - 1]
  BY EnqueueShape
<1>2. ASSUME NEW i \in p .. Len(queue), queue[i] # Null
      PROVE  Priority[queue[i][1]] # Priority[m]
  <2>1. p \in DOMAIN queue /\ i \in DOMAIN queue /\ p <= Len(queue)
    BY QueueType
  <2>2. Priority[m] < Urgency(queue[p])
    BY <1>1, <2>1 DEF Overtakes
  <2>3. Urgency(queue[p]) <= Urgency(queue[i])
    <3>1. Urgency(queue[i]) \in 0 .. 4
      BY <2>1, QueueType, UrgencyType
    <3>2. CASE p = i
      BY <3>1, <3>2
    <3>3. CASE p < i
      BY <2>1, <3>3 DEF QueueByUrgency
    <3> QED
      BY <3>2, <3>3
  <2>4. /\ queue[i] \in Segments /\ Urgency(queue[i]) = Priority[queue[i][1]]
        /\ Urgency(queue[p]) \in 0 .. 4 /\ Urgency(queue[i]) \in 0 .. 4
    BY <1>2, <2>1, QueueType, UrgencyType
  <2>5. Priority[m] \in 0 .. 3
    BY IpcTransmitAssumption
  <2> QED
    BY <2>2, <2>3, <2>4, <2>5
<1> QED
  BY <1>1, <1>2

\* Each step keeps what is still to be sent behind what was sent, priority by priority.
LEMMA InTurnStep ==
    TypeOK /\ QueueByUrgency /\ Known /\ InTurn /\ [Next]_vars => InTurn'
<1> SUFFICES ASSUME TypeOK, QueueByUrgency, Known, InTurn, [Next]_vars PROVE InTurn'
  OBVIOUS
<1>s. sent \in [1 .. Len(sent) -> Segments] /\ DOMAIN sent = 1 .. Len(sent) /\ Len(sent) \in Nat
  BY LenProperties DEF TypeOK
<1>1. ASSUME NEW c \in Senders, NEW m \in Messages, Enqueue(c, m) PROVE InTurn'
  <2>1. /\ m \notin Range(order) /\ order' = Append(order, m)
        /\ order \in Seq(Messages) /\ IsInjective(order)
        /\ UNCHANGED <<segment, sent, consumer>>
    BY <1>1 DEF Enqueue, Submitted, TypeOK, Known
  <2>2. /\ \A n \in Range(order) : TurnIn(order', n) = TurnIn(order, n)
        /\ \A n \in Range(order) : TurnIn(order', n) < TurnIn(order', m)
    BY <2>1, TurnStays
  <2>3. /\ \A i \in DOMAIN sent : sent[i][1] \in Range(order)
        /\ \A j \in DOMAIN queue : queue[j] # Null => queue[j][1] \in Range(order)
        /\ Held => segment[1] \in Range(order)
    BY DEF Known, Submitted, Held
  <2>4. ASSUME NEW s, NEW t, s[1] \in Range(order), t[1] \in Range(order)
        PROVE  /\ Precedes(order, s, t) => Precedes(order', s, t)
               /\ Ahead(order, s, t) => Ahead(order', s, t)
    BY <2>2, <2>4 DEF Precedes, Ahead
  <2>5. ASSUME NEW s, s[1] \in Range(order)
        PROVE  Precedes(order', s, <<m, 1>>) /\ Ahead(order', s, <<m, 1>>)
    BY <2>2, <2>5 DEF Precedes, Ahead
  <2>6. ASSUME NEW j \in DOMAIN queue', queue'[j] # Null
        PROVE  queue'[j] = <<m, 1>> \/ \E k \in DOMAIN queue : queue'[j] = queue[k]
    BY <1>1, EnqueueRange DEF Range
  <2>7. ASSUME NEW i \in DOMAIN sent', NEW j \in DOMAIN sent', i < j
        PROVE  Precedes(order', sent'[i], sent'[j])
    BY <2>1, <2>3, <2>4, <2>7 DEF InTurn
  <2>8. ASSUME NEW i \in DOMAIN sent', NEW j \in DOMAIN queue', queue'[j] # Null
        PROVE  Precedes(order', sent'[i], queue'[j])
    <3>1. CASE queue'[j] = <<m, 1>>
      BY <2>1, <2>3, <2>5, <3>1
    <3>2. ASSUME NEW k \in DOMAIN queue, queue'[j] = queue[k]
          PROVE  Precedes(order', sent'[i], queue'[j])
      BY <2>1, <2>3, <2>4, <2>8, <3>2 DEF InTurn
    <3> QED
      BY <2>6, <2>8, <3>1, <3>2
  <2>9. ASSUME Held', NEW i \in DOMAIN sent'
        PROVE  Precedes(order', sent'[i], segment')
    BY <2>1, <2>3, <2>4, <2>9 DEF InTurn, Held
  <2>10. ASSUME Held', NEW j \in DOMAIN queue', queue'[j] # Null
         PROVE  Precedes(order', segment', queue'[j])
    <3>1. Held /\ segment' = segment /\ segment[1] \in Range(order)
      BY <2>1, <2>3, <2>10 DEF Held
    <3>2. CASE queue'[j] = <<m, 1>>
      BY <2>5, <3>1, <3>2
    <3>3. ASSUME NEW k \in DOMAIN queue, queue'[j] = queue[k]
          PROVE  Precedes(order', segment', queue'[j])
      BY <2>3, <2>4, <2>10, <3>1, <3>3 DEF InTurn
    <3> QED
      BY <2>6, <2>10, <3>2, <3>3
  <2>11. ASSUME NEW i \in DOMAIN queue', NEW j \in DOMAIN queue', i < j,
                queue'[i] # Null, queue'[j] # Null
         PROVE  Ahead(order', queue'[i], queue'[j])
    <3>1. PICK p \in 1 .. Len(queue) + 1 :
              /\ DOMAIN queue' = 1 .. Len(queue) + 1
              /\ \A k \in 1 .. Len(queue) + 1 :
                     queue'[k] = IF k < p THEN queue[k]
                                 ELSE IF k = p THEN <<m, 1>> ELSE queue[k - 1]
              /\ \A k \in p .. Len(queue) :
                     queue[k] # Null => Priority[queue[k][1]] # Priority[m]
      BY <1>1, EnqueueBehind
    <3>2. Len(queue) \in Nat /\ DOMAIN queue = 1 .. Len(queue)
      BY QueueType
    <3>3. CASE i = p
      <4>1. j - 1 \in p .. Len(queue) /\ queue'[j] = queue[j - 1] /\ queue'[i] = <<m, 1>>
        BY <2>11, <3>1, <3>2, <3>3
      <4>2. Priority[queue'[j][1]] # Priority[m]
        BY <2>11, <3>1, <4>1
      <4> QED
        BY <4>1, <4>2 DEF Ahead
    <3>4. CASE j = p
      <4>1. i \in DOMAIN queue /\ queue'[i] = queue[i] /\ queue'[j] = <<m, 1>>
        BY <2>11, <3>1, <3>2, <3>4
      <4> QED
        BY <2>3, <2>5, <2>11, <4>1
    <3>5. CASE i # p /\ j # p
      <4> DEFINE k == IF i < p THEN i ELSE i - 1
                 l == IF j < p THEN j ELSE j - 1
      <4>1. k \in DOMAIN queue /\ l \in DOMAIN queue /\ k < l
        BY <2>11, <3>1, <3>2, <3>5
      <4>2. queue'[i] = queue[k] /\ queue'[j] = queue[l]
        BY <3>1, <3>5
      <4> HIDE DEF k, l
      <4> QED
        BY <2>3, <2>4, <2>11, <4>1, <4>2 DEF InTurn
    <3> QED
      BY <3>3, <3>4, <3>5
  <2> QED
    BY <2>7, <2>8, <2>9, <2>10, <2>11 DEF InTurn
\* SegmentGetPop: the rest of the message is where the segment was.
<1>2. CASE SegmentGetPop
  <2>1. /\ order' = order /\ sent' = sent /\ segment' = queue[1] /\ 1 \in DOMAIN queue
        /\ Len(queue) \in Nat /\ DOMAIN queue = 1 .. Len(queue)
    BY <1>2, PopShape, QueueType DEF SegmentGetPop
  <2>2. ASSUME NEW j \in DOMAIN queue'
        PROVE  \/ /\ j = 1 /\ queue'[j] = After(queue[1])
                  /\ queue[1] \in Segments /\ queue[1] # Null
               \/ \E k \in DOMAIN queue : k > 1 /\ queue'[j] = queue[k] /\ k = j + Shift
    BY <1>2, PopEntries
  <2>3. \A i \in DOMAIN queue' : i \in Nat /\ Shift \in Nat
    BY <1>2, PopEntries
  <2>4. ASSUME NEW t, t \in Segments
        PROVE  /\ \A i \in DOMAIN sent :
                      Precedes(order, sent[i], t) => Precedes(order, sent[i], After(t))
               /\ Precedes(order, t, After(t))
               /\ After(t)[1] = t[1]
    BY <1>s, <2>4, PrecedesAfter DEF After
  <2>5. ASSUME NEW i \in DOMAIN sent', NEW j \in DOMAIN queue', queue'[j] # Null
        PROVE  Precedes(order', sent'[i], queue'[j])
    <3>1. CASE j = 1 /\ queue'[j] = After(queue[1]) /\ queue[1] \in Segments /\ queue[1] # Null
      BY <2>1, <2>4, <3>1 DEF InTurn
    <3>2. ASSUME NEW k \in DOMAIN queue, queue'[j] = queue[k]
          PROVE  Precedes(order', sent'[i], queue'[j])
      BY <2>1, <2>5, <3>2 DEF InTurn
    <3> QED
      BY <2>2, <3>1, <3>2
  <2>6. ASSUME Held', NEW i \in DOMAIN sent'
        PROVE  Precedes(order', sent'[i], segment')
    BY <2>1, <2>6 DEF InTurn, Held
  <2>7. ASSUME Held', NEW j \in DOMAIN queue', queue'[j] # Null
        PROVE  Precedes(order', segment', queue'[j])
    <3>1. CASE j = 1 /\ queue'[j] = After(queue[1]) /\ queue[1] \in Segments /\ queue[1] # Null
      BY <2>1, <2>4, <3>1
    <3>2. ASSUME NEW k \in DOMAIN queue, k > 1, queue'[j] = queue[k]
          PROVE  Precedes(order', segment', queue'[j])
      <4>1. Ahead(order, queue[1], queue[k])
        BY <2>1, <2>7, <3>2 DEF InTurn, Held
      <4> QED
        BY <2>1, <3>2, <4>1 DEF Ahead, Precedes
    <3> QED
      BY <2>2, <3>1, <3>2
  <2>8. ASSUME NEW i \in DOMAIN queue', NEW j \in DOMAIN queue', i < j,
               queue'[i] # Null, queue'[j] # Null
        PROVE  Ahead(order', queue'[i], queue'[j])
    <3>1. PICK l \in DOMAIN queue : l > 1 /\ queue'[j] = queue[l] /\ l = j + Shift
      <4>1. i \in Nat /\ j \in Nat /\ i \in 1 .. j
        BY <1>2, <2>1, <2>3, <2>8, PopShape
      <4> QED
        BY <2>2, <2>8, <4>1
    <3>2. CASE i = 1 /\ queue'[i] = After(queue[1]) /\ queue[1] \in Segments /\ queue[1] # Null
      <4>1. Ahead(order, queue[1], queue[l])
        BY <2>1, <2>8, <3>1, <3>2 DEF InTurn
      <4>2. After(queue[1])[1] = queue[1][1]
        BY DEF After
      <4> QED
        BY <2>1, <3>1, <3>2, <4>1, <4>2 DEF Ahead
    <3>3. ASSUME NEW k \in DOMAIN queue, queue'[i] = queue[k], k = i + Shift
          PROVE  Ahead(order', queue'[i], queue'[j])
      <4>1. k < l
        BY <2>3, <2>8, <3>1, <3>3
      <4> QED
        BY <2>1, <2>8, <3>1, <3>3, <4>1 DEF InTurn
    <3> QED
      BY <2>2, <3>2, <3>3
  <2>9. \A i, j \in DOMAIN sent' : i < j => Precedes(order', sent'[i], sent'[j])
    BY <2>1 DEF InTurn
  <2> QED
    BY <2>5, <2>6, <2>7, <2>8, <2>9 DEF InTurn
<1>3. CASE ReleaseThread
  <2>1. queue' = Append(queue, Null) /\ UNCHANGED <<order, segment, sent, consumer>>
    BY <1>3 DEF ReleaseThread
  <2>2. \A i \in DOMAIN queue' : (i \in DOMAIN queue /\ queue'[i] = queue[i]) \/ queue'[i] = Null
    BY <2>1, QueueType, AppendShape DEF Entries
  <2>3. /\ \A i \in DOMAIN sent', j \in DOMAIN queue' :
               queue'[j] # Null => Precedes(order', sent'[i], queue'[j])
        /\ \A i, j \in DOMAIN queue' :
               i < j /\ queue'[i] # Null /\ queue'[j] # Null => Ahead(order', queue'[i], queue'[j])
    BY <2>1, <2>2 DEF InTurn
  <2>4. Held' => \A j \in DOMAIN queue' : queue'[j] # Null => Precedes(order', segment', queue'[j])
    BY <2>1, <2>2 DEF InTurn, Held
  <2>5. /\ \A i, j \in DOMAIN sent' : i < j => Precedes(order', sent'[i], sent'[j])
        /\ Held' => \A i \in DOMAIN sent' : Precedes(order', sent'[i], segment')
    BY <2>1 DEF InTurn, Held
  <2> QED
    BY <2>3, <2>4, <2>5 DEF InTurn
<1>4. CASE XmitSend
  <2>1. /\ sent' = Append(sent, segment) /\ UNCHANGED <<order, queue>>
        /\ segment \in Segments /\ Held /\ ~Held'
    BY <1>4 DEF XmitSend, queueVars, TypeOK, Held
  <2>2. /\ Len(sent) \in Nat /\ DOMAIN sent = 1 .. Len(sent) /\ DOMAIN sent' = 1 .. Len(sent) + 1
        /\ \A i \in DOMAIN sent : sent'[i] = sent[i]
        /\ sent'[Len(sent) + 1] = segment
        /\ \A i \in DOMAIN sent' : i \in DOMAIN sent \/ i = Len(sent) + 1
    BY <2>1, AppendShape DEF TypeOK
  <2>3. ASSUME NEW i \in DOMAIN sent', NEW j \in DOMAIN sent', i < j
        PROVE  Precedes(order', sent'[i], sent'[j])
    <3>1. i \in DOMAIN sent
      BY <2>2, <2>3
    <3>2. CASE j \in DOMAIN sent
      BY <2>1, <2>2, <2>3, <3>1, <3>2 DEF InTurn
    <3>3. CASE j = Len(sent) + 1
      BY <2>1, <2>2, <3>1, <3>3 DEF InTurn
    <3> QED
      BY <2>2, <3>2, <3>3
  <2>4. ASSUME NEW i \in DOMAIN sent', NEW j \in DOMAIN queue', queue'[j] # Null
        PROVE  Precedes(order', sent'[i], queue'[j])
    <3>1. CASE i \in DOMAIN sent
      BY <2>1, <2>2, <2>4, <3>1 DEF InTurn
    <3>2. CASE i = Len(sent) + 1
      BY <2>1, <2>2, <2>4, <3>2 DEF InTurn
    <3> QED
      BY <2>2, <3>1, <3>2
  <2>5. \A i, j \in DOMAIN queue' :
            i < j /\ queue'[i] # Null /\ queue'[j] # Null => Ahead(order', queue'[i], queue'[j])
    BY <2>1 DEF InTurn
  <2> QED
    BY <2>1, <2>3, <2>4, <2>5 DEF InTurn
<1>5. ASSUME UNCHANGED <<order, queue, sent>>, Held' => Held /\ segment' = segment PROVE InTurn'
  <2>1. /\ \A i, j \in DOMAIN sent' : i < j => Precedes(order', sent'[i], sent'[j])
        /\ \A i \in DOMAIN sent', j \in DOMAIN queue' :
               queue'[j] # Null => Precedes(order', sent'[i], queue'[j])
        /\ \A i, j \in DOMAIN queue' :
               i < j /\ queue'[i] # Null /\ queue'[j] # Null => Ahead(order', queue'[i], queue'[j])
    BY <1>5 DEF InTurn
  <2>2. /\ Held' => \A i \in DOMAIN sent' : Precedes(order', sent'[i], segment')
        /\ Held' => \A j \in DOMAIN queue' : queue'[j] # Null => Precedes(order', segment', queue'[j])
    BY <1>5 DEF InTurn
  <2> QED
    BY <2>1, <2>2 DEF InTurn
<1>6. CASE \/ XmitDelete \/ Purge \/ SegmentGetEmpty
           \/ \E c \in Senders, m \in Messages : EnqueueReadsNull(c, m)
  <2>1. UNCHANGED <<order, queue, sent>> /\ ~Held'
    BY <1>6 DEF XmitDelete, Purge, SegmentGetEmpty, EnqueueReadsNull, queueVars, Held
  <2> QED
    BY <1>5, <2>1
<1>7. CASE \/ XmitPoll \/ SegmentGetTake \/ SegmentGetTimeout \/ SegmentGetCheck \/ SegmentGetGive
           \/ DtorExitReq \/ ReleaseThreadGive \/ DtorDrain
           \/ (\E c \in Senders : EnqueueGive(c)) \/ UNCHANGED vars
  <2>1. UNCHANGED <<queueVars, segment, sent>>
    BY <1>7, QuietSteps DEF vars, queueVars
  <2>2. consumer' \in {"check", "give", "send"} => consumer \in {"check", "give", "send"}
    BY <1>7 DEF XmitPoll, SegmentGetTake, SegmentGetTimeout, SegmentGetCheck, SegmentGetGive,
       Returned, DtorExitReq, ReleaseThreadGive, DtorDrain, EnqueueGive, vars
  <2> QED
    BY <1>5, <2>1, <2>2 DEF Held, queueVars
<1> QED
  BY <1>1, <1>2, <1>3, <1>4, <1>6, <1>7 DEF Next, Consume, Destroy

\* Among segments of one priority, messages are sent in the order they were
\* queued and each in the order of its segments.
THEOREM OrderKept == Spec => []SentInOrder
<1>1. Init => Known /\ InTurn
  BY DEF Init, Known, InTurn, Held, IsInjective, Submitted
<1>2. InTurn => SentInOrder
  BY DEF InTurn, SentInOrder, Precedes, TurnIn, Turn
<1> QED
  BY <1>1, <1>2, TypeCorrect, UrgencyOrdered, KnownStep, InTurnStep, PTL DEF Spec

-----------------------------------------------------------------------------
(* The ids by which the receiver tells messages apart.                     *)

First(m) == <<m, 1>>

\* With ids f, the segment s has the id of its message, and it is not zero.
HasId(f, s) == f[s] # 0 /\ f[s] = f[First(s[1])]

\* The ids of two messages whose places differ by less than a turn of the
\* counter differ by as much, or by a turn less.
IdsKept ==
    /\ \A i \in DOMAIN sent : HasId(idOf, sent[i])
    /\ segment # Null => HasId(idOf, segment)
    /\ \A j \in DOMAIN queue : queue[j] # Null => HasId(idOf, queue[j])
    /\ \A i \in DOMAIN order : idOf[First(order[i])] \in 1 .. IdLimit - 1
    /\ \A i, j \in DOMAIN order : i < j /\ j - i < IdLimit - 1 =>
           idOf[First(order[j])] - idOf[First(order[i])] \in {j - i, j - i - (IdLimit - 1)}
    /\ dtor # "crashed" =>
           msgId = IF order = <<>> THEN 0 ELSE idOf[First(order[Len(order)])]

\* Before the first message no identifier was given.
LEMMA IdsInit == Init => IdsKept
BY DEF Init, IdsKept

\* TransmitMessage numbers the first segment with the next identifier, and SegmentGet
\* hands it on from segment to segment; no other step writes one.
LEMMA IdsStep == TypeOK /\ Known /\ IdsKept /\ [Next]_vars => IdsKept'
<1> SUFFICES ASSUME TypeOK, Known, IdsKept, [Next]_vars PROVE IdsKept'
  OBVIOUS
<1>s. /\ sent \in [1 .. Len(sent) -> Segments]
      /\ order \in [1 .. Len(order) -> Messages] /\ Len(order) \in Nat
      /\ idOf \in [Segments -> 0 .. IdLimit - 1]
      /\ IdLimit \in Nat /\ IdLimit > 2
  BY LenProperties, IpcTransmitAssumption DEF TypeOK
<1>f. \A m \in Messages : First(m) \in Segments /\ First(m)[1] = m
  BY IpcTransmitAssumption DEF First, Segments
\* A step that gives an id to a message that was not known.
<1>n. ASSUME NEW m \in Messages, m \notin Submitted,
             idOf' = [idOf EXCEPT ![First(m)] = NextId]
      PROVE  /\ \A s \in Segments : s[1] \in Submitted /\ HasId(idOf, s) => HasId(idOf', s)
             /\ idOf'[First(m)] = NextId /\ HasId(idOf', First(m))
             /\ \A n \in Submitted : idOf'[First(n)] = idOf[First(n)]
  <2>1. NextId # 0
    BY NextIdType
  <2>2. idOf'[First(m)] = NextId
    BY <1>n, <1>s, <1>f
  <2>3. \A n : n \in Submitted => n \in Messages /\ First(n) # First(m)
    BY <1>n, <1>s DEF Submitted, Range, First
  <2>4. \A n \in Submitted : idOf'[First(n)] = idOf[First(n)]
    BY <1>n, <1>s, <1>f, <2>3
  <2>5. ASSUME NEW s \in Segments, s[1] \in Submitted, HasId(idOf, s) PROVE HasId(idOf', s)
    <3>1. s # First(m)
      BY <1>n, <1>f, <2>5
    <3>2. idOf'[s] = idOf[s] /\ idOf'[First(s[1])] = idOf[First(s[1])]
      BY <1>n, <1>s, <2>4, <2>5, <3>1
    <3> QED
      BY <2>5, <3>2 DEF HasId
  <2> QED
    BY <1>f, <2>1, <2>2, <2>4, <2>5 DEF HasId
<1>k. /\ \A i \in DOMAIN sent : sent[i] \in Segments /\ sent[i][1] \in Submitted
      /\ segment # Null => segment \in Segments /\ segment[1] \in Submitted
      /\ \A j \in DOMAIN queue :
             queue[j] # Null => queue[j] \in Segments /\ queue[j][1] \in Submitted
      /\ \A i \in DOMAIN order : order[i] \in Submitted /\ order[i] \in Messages
  BY <1>s, QueueType DEF Known, TypeOK, Submitted, Range
<1>1. ASSUME NEW c \in Senders, NEW m \in Messages, Enqueue(c, m) PROVE IdsKept'
  <2>1. /\ m \notin Submitted /\ order' = Append(order, m) /\ order \in Seq(Messages)
        /\ idOf' = [idOf EXCEPT ![First(m)] = NextId] /\ msgId' = NextId
        /\ UNCHANGED <<segment, sent, dtor>> /\ dtor # "crashed"
    BY <1>1 DEF Enqueue, TypeOK, First, Usable
  <2>2. /\ \A s \in Segments : s[1] \in Submitted /\ HasId(idOf, s) => HasId(idOf', s)
        /\ idOf'[First(m)] = NextId /\ HasId(idOf', First(m))
        /\ \A n \in Submitted : idOf'[First(n)] = idOf[First(n)]
    BY <1>n, <2>1
  <2>3. /\ DOMAIN order = 1 .. Len(order) /\ DOMAIN order' = 1 .. Len(order) + 1
        /\ \A i \in DOMAIN order : order'[i] = order[i]
        /\ order'[Len(order) + 1] = m
        /\ \A i \in DOMAIN order' : i \in DOMAIN order \/ i = Len(order) + 1
    BY <2>1, AppendShape
  <2>4. NextId \in 1 .. IdLimit - 1
    BY <1>s, NextIdType
  <2>5. \A i \in DOMAIN order : idOf'[First(order'[i])] = idOf[First(order[i])]
    BY <1>k, <2>2, <2>3
  <2>6. /\ \A i \in DOMAIN sent' : HasId(idOf', sent'[i])
        /\ segment' # Null => HasId(idOf', segment')
    BY <1>k, <2>1, <2>2 DEF IdsKept
  <2>7. ASSUME NEW j \in DOMAIN queue', queue'[j] # Null PROVE HasId(idOf', queue'[j])
    <3>1. queue'[j] = First(m) \/ \E k \in DOMAIN queue : queue'[j] = queue[k]
      BY <1>1, EnqueueRange DEF Range, First
    <3>2. CASE queue'[j] = First(m)
      BY <2>2, <3>2
    <3>3. ASSUME NEW k \in DOMAIN queue, queue'[j] = queue[k] PROVE HasId(idOf', queue'[j])
      BY <1>k, <2>2, <2>7, <3>3 DEF IdsKept
    <3> QED
      BY <3>1, <3>2, <3>3
  <2>8. \A i \in DOMAIN order' : idOf'[First(order'[i])] \in 1 .. IdLimit - 1
    BY <2>2, <2>3, <2>4, <2>5 DEF IdsKept
  <2>9. ASSUME NEW i \in DOMAIN order', NEW j \in DOMAIN order', i < j, j - i < IdLimit - 1
        PROVE  idOf'[First(order'[j])] - idOf'[First(order'[i])]
                   \in {j - i, j - i - (IdLimit - 1)}
    <3>1. CASE j \in DOMAIN order
      <4>1. i \in DOMAIN order
        BY <1>s, <2>3, <2>9, <3>1
      <4> QED
        BY <2>5, <2>9, <3>1, <4>1 DEF IdsKept
    <3>2. CASE j = Len(order) + 1
      <4> DEFINE l == Len(order)
                 last == idOf[First(order[l])]
                 mine == idOf[First(order[i])]
      <4>1. i \in DOMAIN order /\ l \in DOMAIN order /\ order # <<>> /\ i \in 1 .. l
        BY <1>s, <2>3, <2>9, <3>2
      <4>2. /\ idOf'[First(order'[j])] = NextId /\ idOf'[First(order'[i])] = mine
            /\ msgId = last
        BY <2>1, <2>2, <2>3, <2>5, <3>2, <4>1 DEF IdsKept
      <4>3. NextId = IF last + 1 = IdLimit THEN 1 ELSE last + 1
        BY <4>2 DEF NextId
      <4>4. mine \in 1 .. IdLimit - 1 /\ last \in 1 .. IdLimit - 1
        BY <4>1 DEF IdsKept
      <4>5. i < l => last - mine \in {l - i, l - i - (IdLimit - 1)}
        BY <1>s, <2>9, <3>2, <4>1 DEF IdsKept
      <4>6. i = l => last = mine
        OBVIOUS
      <4>7. l \in Nat /\ i \in Nat /\ (i < l \/ i = l) /\ l + 1 - i < IdLimit - 1
        BY <1>s, <2>9, <3>2, <4>1
      <4>8. NextId - mine \in {l + 1 - i, l + 1 - i - (IdLimit - 1)}
        <5> HIDE DEF l, last, mine
        <5> QED
          BY <1>s, <4>3, <4>4, <4>5, <4>6, <4>7
      <4>9. j = l + 1
        BY <3>2
      <4> HIDE DEF l, last, mine
      <4>10. NextId - mine \in {j - i, j - i - (IdLimit - 1)}
        BY <1>s, <2>4, <4>4, <4>7, <4>8, <4>9
      <4> QED
        BY <4>2, <4>10
    <3> QED
      BY <2>3, <3>1, <3>2
  <2>10. msgId' = IF order' = <<>> THEN 0 ELSE idOf'[First(order'[Len(order')])]
    <3>1. Len(order') = Len(order) + 1 /\ order' # <<>>
      BY <2>1, AppendProperties
    <3> QED
      BY <2>1, <2>2, <2>3, <3>1
  <2> QED
    BY <2>6, <2>7, <2>8, <2>9, <2>10 DEF IdsKept
\* A step that gives no id to a first segment, and keeps ids where they are due.
<1>0. ASSUME UNCHANGED order, dtor' # "crashed" => dtor # "crashed" /\ msgId' = msgId,
             \A n \in Submitted : idOf'[First(n)] = idOf[First(n)],
             \A i \in DOMAIN sent' : HasId(idOf', sent'[i]),
             segment' # Null => HasId(idOf', segment'),
             \A j \in DOMAIN queue' : queue'[j] # Null => HasId(idOf', queue'[j])
      PROVE  IdsKept'
  <2>1. \A i \in DOMAIN order : idOf'[First(order'[i])] = idOf[First(order[i])]
    BY <1>0, <1>k
  <2>2. /\ \A i \in DOMAIN order' : idOf'[First(order'[i])] \in 1 .. IdLimit - 1
        /\ \A i, j \in DOMAIN order' : i < j /\ j - i < IdLimit - 1 =>
               idOf'[First(order'[j])] - idOf'[First(order'[i])]
                   \in {j - i, j - i - (IdLimit - 1)}
    BY <1>0, <2>1 DEF IdsKept
  <2>3. order # <<>> => Len(order) \in DOMAIN order
    BY <1>s, EmptySeq, LenProperties DEF TypeOK
  <2>4. dtor' # "crashed" =>
            msgId' = IF order' = <<>> THEN 0 ELSE idOf'[First(order'[Len(order')])]
    BY <1>0, <2>1, <2>3 DEF IdsKept
  <2> QED
    BY <1>0, <2>2, <2>4 DEF IdsKept
<1>2. ASSUME NEW c \in Senders, NEW m \in Messages, EnqueueReadsNull(c, m) PROVE IdsKept'
  <2>1. /\ m \notin Submitted /\ idOf' = [idOf EXCEPT ![First(m)] = NextId]
        /\ UNCHANGED <<order, queue, segment, sent>> /\ dtor' = "crashed"
    BY <1>2 DEF EnqueueReadsNull, First
  <2>2. /\ \A s \in Segments : s[1] \in Submitted /\ HasId(idOf, s) => HasId(idOf', s)
        /\ \A n \in Submitted : idOf'[First(n)] = idOf[First(n)]
    BY <1>n, <2>1
  <2>3. /\ \A i \in DOMAIN sent' : HasId(idOf', sent'[i])
        /\ segment' # Null => HasId(idOf', segment')
        /\ \A j \in DOMAIN queue' : queue'[j] # Null => HasId(idOf', queue'[j])
    BY <1>k, <2>1, <2>2 DEF IdsKept
  <2> QED
    BY <1>0, <2>1, <2>2, <2>3
<1>3. CASE SegmentGetPop
  <2>1. /\ UNCHANGED <<order, sent, dtor, msgId>> /\ segment' = queue[1] /\ 1 \in DOMAIN queue
    BY <1>3, PopShape DEF SegmentGetPop
  <2>2. /\ \A s \in Segments : HasId(idOf, s) => HasId(idOf', s)
        /\ queue[1] \in linked => HasId(idOf', After(queue[1]))
        /\ \A n \in Submitted : idOf'[First(n)] = idOf[First(n)]
    <3>1. CASE queue[1] \in linked
      <4> DEFINE seg == queue[1]
                 next == After(seg)
      <4>1. /\ seg \in Segments /\ next \in Segments /\ seg # Null
            /\ idOf' = [idOf EXCEPT ![next] = idOf[seg]]
        BY <1>3, <3>1, PopShape, UrgencyType
      <4>2. HasId(idOf, seg)
        BY <2>1, <4>1 DEF IdsKept
      <4>3. \A n : next # First(n)
        <5>1. next[2] = seg[2] + 1 /\ seg[2] \in Nat /\ seg[2] > 0
          BY <4>1, UrgencyType, IpcTransmitAssumption DEF After
        <5>2. \A n : First(n)[2] = 1
          BY DEF First
        <5> HIDE DEF next, seg
        <5>3. next[2] # 1
          BY <5>1
        <5> QED
          BY <5>2, <5>3
      <4>4. next[1] = seg[1]
        BY DEF After
      <4>5. \A s \in Segments : First(s[1]) \in Segments
        BY <1>f, UrgencyType
      <4>6. \A n \in Messages : idOf'[First(n)] = idOf[First(n)]
        BY <1>f, <1>s, <4>1, <4>3
      <4>7. \A s \in Segments : s[1] \in Messages
        BY UrgencyType
      <4> HIDE DEF next, seg
      <4>8. HasId(idOf', next)
        BY <1>s, <4>1, <4>2, <4>4, <4>6, <4>7 DEF HasId
      <4>9. ASSUME NEW s \in Segments, HasId(idOf, s), s # next PROVE HasId(idOf', s)
        BY <1>s, <4>1, <4>6, <4>7, <4>9 DEF HasId
      <4>10. \A n \in Submitted : n \in Messages
        BY <1>s DEF Submitted, Range
      <4> QED
        BY <4>6, <4>8, <4>9, <4>10 DEF next, seg
    <3>2. CASE queue[1] \notin linked
      BY <1>3, <3>2, PopShape
    <3> QED
      BY <3>1, <3>2
  <2>3. /\ \A i \in DOMAIN sent' : HasId(idOf', sent'[i])
        /\ segment' # Null => HasId(idOf', segment')
    BY <1>k, <2>1, <2>2 DEF IdsKept
  <2>4. ASSUME NEW j \in DOMAIN queue', queue'[j] # Null PROVE HasId(idOf', queue'[j])
    <3>1. CASE queue'[j] = After(queue[1]) /\ queue[1] \in linked
      BY <2>2, <3>1
    <3>2. CASE j + Shift \in DOMAIN queue /\ queue'[j] = queue[j + Shift]
      BY <1>k, <2>2, <2>4, <3>2 DEF IdsKept
    <3> QED
      BY <1>3, <3>1, <3>2, PopEntries
  <2> QED
    BY <1>0, <2>1, <2>2, <2>3, <2>4
<1>4. CASE ReleaseThread
  <2>1. /\ queue' = Append(queue, Null) /\ dtor # "crashed"
        /\ UNCHANGED <<order, idOf, msgId, segment, sent>>
    BY <1>4 DEF ReleaseThread
  <2>2. \A i \in DOMAIN queue' : (i \in DOMAIN queue /\ queue'[i] = queue[i]) \/ queue'[i] = Null
    BY <2>1, QueueType, AppendShape DEF Entries
  <2>3. \A j \in DOMAIN queue' : queue'[j] # Null => HasId(idOf', queue'[j])
    BY <2>1, <2>2 DEF IdsKept
  <2> QED
    BY <1>0, <2>1, <2>3 DEF IdsKept
<1>5. CASE XmitSend
  <2>1. /\ sent' = Append(sent, segment) /\ segment' \in {segment, Null}
        /\ UNCHANGED <<order, idOf, msgId, queue, dtor>> /\ segment \in Segments /\ segment # Null
    BY <1>5 DEF XmitSend, queueVars, TypeOK
  <2>2. \A i \in DOMAIN sent' : (i \in DOMAIN sent /\ sent'[i] = sent[i]) \/ sent'[i] = segment
    BY <2>1, AppendShape DEF TypeOK
  <2>3. \A i \in DOMAIN sent' : HasId(idOf', sent'[i])
    BY <2>1, <2>2 DEF IdsKept
  <2> QED
    BY <1>0, <2>1, <2>3 DEF IdsKept
<1>6. ASSUME UNCHANGED <<order, idOf, msgId, queue, sent>>, segment' \in {segment, Null},
             dtor' # "crashed" => dtor # "crashed"
      PROVE  IdsKept'
  BY <1>0, <1>6 DEF IdsKept
<1>7. CASE XmitDelete \/ Purge \/ SegmentGetEmpty
  BY <1>6, <1>7 DEF XmitDelete, Purge, SegmentGetEmpty, queueVars
<1>8. CASE \/ XmitPoll \/ SegmentGetTake \/ SegmentGetTimeout \/ SegmentGetCheck \/ SegmentGetGive
           \/ DtorExitReq \/ ReleaseThreadGive \/ DtorDrain
           \/ (\E c \in Senders : EnqueueGive(c)) \/ UNCHANGED vars
  <2>1. UNCHANGED <<queueVars, segment, sent>>
    BY <1>8, QuietSteps DEF vars, queueVars
  <2>2. dtor' # "crashed" => dtor # "crashed"
    BY <1>8 DEF XmitPoll, SegmentGetTake, SegmentGetTimeout, SegmentGetCheck, SegmentGetGive,
       Returned, DtorExitReq, ReleaseThreadGive, DtorDrain, EnqueueGive, Draining, vars
  <2> QED
    BY <1>6, <2>1, <2>2 DEF queueVars
<1> QED
  BY <1>1, <1>2, <1>3, <1>4, <1>5, <1>7, <1>8 DEF Next, Consume, Destroy

\* A segment leaves with the id of its message, and messages less than a turn of
\* m_MsgId apart have different ones.
THEOREM IdsDistinct == Spec => []IdsTellMessagesApart
<1>1. Init => Known
  BY DEF Init, Known, IsInjective, Submitted
<1>2. TypeOK /\ IdsKept => IdsTellMessagesApart
  <2> SUFFICES ASSUME TypeOK, IdsKept PROVE IdsTellMessagesApart
    OBVIOUS
  <2>1. \A i \in DOMAIN sent :
            idOf[sent[i]] # 0 /\ idOf[sent[i]] = idOf[<<sent[i][1], 1>>]
    BY DEF IdsKept, HasId, First
  <2>2. ASSUME NEW i \in DOMAIN order, NEW j \in DOMAIN order, i < j, j - i < IdLimit - 1
        PROVE  idOf[<<order[i], 1>>] # idOf[<<order[j], 1>>]
    <3>1. i \in Nat /\ j \in Nat /\ IdLimit \in Nat
      BY LenProperties, IpcTransmitAssumption DEF TypeOK
    <3>2. /\ idOf[First(order[i])] \in 1 .. IdLimit - 1
          /\ idOf[First(order[j])] - idOf[First(order[i])] \in {j - i, j - i - (IdLimit - 1)}
      BY <2>2 DEF IdsKept
    <3>3. j - i # 0 /\ j - i - (IdLimit - 1) # 0
      BY <2>2, <3>1
    <3>4. idOf[First(order[i])] - idOf[First(order[i])] = 0
      BY <3>1, <3>2
    <3>5. idOf[First(order[i])] # idOf[First(order[j])]
      BY <3>2, <3>3, <3>4
    <3> QED
      BY <3>5 DEF First
  <2> QED
    BY <2>1, <2>2 DEF IdsTellMessagesApart
<1> QED
  BY <1>1, <1>2, TypeCorrect, IdsInit, KnownStep, IdsStep, PTL DEF Spec

-----------------------------------------------------------------------------
(* What becomes of the segments that were accepted.                        *)

\* With links l, the segment s follows the list's entry e in its message.
Reaches(l, e, s) ==
    /\ e[1] = s[1] /\ e[2] <= s[2]
    /\ \A t \in Segments : t[1] = s[1] /\ e[2] <= t[2] /\ t[2] < s[2] => t \in l

\* A segment of a message that was queued is deleted, or in the consumer's hand,
\* or follows an entry of the list.
Accounted ==
    dtor # "crashed" =>
        \A s \in Segments : s[1] \in Submitted =>
            \/ deleted[s] > 0
            \/ Held /\ segment = s
            \/ \E e \in Range(queue) : e # Null /\ Reaches(linked, e, s)

\* Nothing is behind the NULL of ReleaseThread.
NullLast ==
    /\ \A i, j \in DOMAIN queue : queue[i] = Null => j <= i
    /\ dtor \in {"none", "exitReq"} => \A i \in DOMAIN queue : queue[i] # Null

\* No client is left when the queue is drained, and the drain ends with it empty.
Drained ==
    /\ dtor \in {"draining", "destroyed"} => \A c \in Senders : sender[c] = "idle"
    /\ dtor = "draining" /\ consumer \in {"check", "give"} /\ segment = Null => queue = <<>>
    /\ dtor = "destroyed" => queue = <<>> /\ consumer = "exited"

\* A segment leaves the list only into the hands of the thread that deletes it, and
\* its successor takes its place.
LEMMA AccountedStep == TypeOK /\ Known /\ Accounted /\ [Next]_vars => Accounted'
<1> SUFFICES ASSUME TypeOK, Known, Accounted, [Next]_vars PROVE Accounted'
  OBVIOUS
<1>0. ASSUME dtor' # "crashed" => dtor # "crashed", UNCHANGED order,
             \A s \in Segments : deleted[s] > 0 => deleted'[s] > 0,
             \A e \in Range(queue) : e # Null => e \in Range(queue'), UNCHANGED linked,
             Held => \/ Held' /\ segment' = segment
                     \/ deleted'[segment] > 0
      PROVE  Accounted'
  BY <1>0 DEF Accounted, Submitted
<1>1. ASSUME NEW c \in Senders, NEW m \in Messages, Enqueue(c, m) PROVE Accounted'
  <2>1. /\ m \notin Submitted /\ order' = Append(order, m) /\ order \in Seq(Messages)
        /\ UNCHANGED <<linked, consumer, segment, dtor, deleted>>
    BY <1>1 DEF Enqueue, TypeOK
  <2>2. Range(queue') = Range(queue) \cup {First(m)} /\ First(m) \in Segments /\ First(m) # Null
    BY <1>1, EnqueueRange, EnqueueShape, UrgencyType DEF First
  <2>3. Range(order') = Range(order) \cup {m}
    BY <2>1, AppendShape
  <2>4. ASSUME NEW s \in Segments, s[1] = m PROVE Reaches(linked', First(m), s)
    <3>1. First(m)[1] = m /\ First(m)[2] = 1
      BY DEF First
    <3>2. s[2] \in 1 .. Length[m] /\ Length[m] \in Nat
      BY <2>4, UrgencyType, IpcTransmitAssumption
    <3>3. ASSUME NEW t \in Segments, t[1] = m, t[2] < s[2] PROVE t \in linked
      <4>1. t[2] \in Nat /\ t[2] < Length[t[1]]
        BY <3>2, <3>3, UrgencyType, IpcTransmitAssumption
      <4> QED
        BY <2>1, <3>3, <4>1 DEF Known
    <3> QED
      BY <2>1, <2>4, <3>1, <3>2, <3>3 DEF Reaches
  <2>5. Held' <=> Held
    BY <2>1 DEF Held
  <2> QED
    BY <2>1, <2>2, <2>3, <2>4, <2>5 DEF Accounted, Submitted
<1>2. CASE SegmentGetPop
  <2> DEFINE seg == queue[1]
  <2>1. /\ UNCHANGED <<order, deleted, dtor>> /\ segment' = seg /\ 1 \in DOMAIN queue
        /\ consumer = "lock" /\ consumer' = "check"
    BY <1>2, PopShape DEF SegmentGetPop
  <2>2. linked' = linked \ {seg}
    BY <1>2, PopShape
  <2>3. ASSUME NEW s \in Segments, NEW i \in DOMAIN queue, queue[i] # Null,
               Reaches(linked, queue[i], s)
        PROVE  \/ Held' /\ segment' = s
               \/ \E e \in Range(queue') : e # Null /\ Reaches(linked', e, s)
    <3> DEFINE e == queue[i]
    <3>1. e \in Segments /\ e[2] \in Nat /\ s[2] \in Nat
      BY <2>3, QueueType, UrgencyType, IpcTransmitAssumption
    <3>2. e[1] = s[1] /\ e[2] <= s[2]
      BY <2>3 DEF Reaches
    <3>3. CASE seg \in Segments /\ seg[1] = s[1] /\ e[2] <= seg[2] /\ seg[2] < s[2]
      <4>1. seg \in linked /\ seg[2] \in Nat
        BY <2>3, <3>3, UrgencyType, IpcTransmitAssumption DEF Reaches
      <4>2. After(seg) \in Range(queue') /\ After(seg) # Null
        BY <1>2, <4>1, PopKeeps, PopShape, UrgencyType
      <4>3. After(seg)[1] = seg[1] /\ After(seg)[2] = seg[2] + 1
        BY DEF After
      <4>4. ASSUME NEW t \in Segments, t[1] = s[1], seg[2] + 1 <= t[2], t[2] < s[2]
            PROVE  t \in linked'
        <5>1. t[2] \in Nat
          BY UrgencyType, IpcTransmitAssumption
        <5>2. t # seg /\ e[2] <= t[2]
          BY <3>1, <3>3, <4>1, <4>4, <5>1
        <5>3. t \in linked
          BY <2>3, <4>4, <5>2 DEF Reaches
        <5> QED
          BY <2>2, <5>2, <5>3
      <4>5. Reaches(linked', After(seg), s)
        <5>1. seg[2] + 1 <= s[2]
          BY <3>1, <3>3, <4>1
        <5> HIDE DEF seg
        <5> QED
          BY <3>3, <4>3, <4>4, <5>1 DEF Reaches
      <4> QED
        BY <4>2, <4>5
    <3>4. CASE ~(seg \in Segments /\ seg[1] = s[1] /\ e[2] <= seg[2] /\ seg[2] < s[2])
      <4>1. Reaches(linked', e, s)
        BY <2>2, <2>3, <3>4 DEF Reaches
      <4>2. CASE i = 1
        <5>1. s[2] = e[2]
          BY <3>1, <3>2, <3>4, <4>2
        <5>2. s = seg
          BY <3>1, <3>2, <4>2, <5>1, UrgencyType
        <5> QED
          BY <2>1, <2>3, <4>2, <5>2 DEF Held
      <4>3. CASE i # 1
        BY <1>2, <2>3, <4>1, <4>3, PopKeeps
      <4> QED
        BY <4>2, <4>3
    <3> QED
      BY <3>3, <3>4
  <2>4. ASSUME NEW s \in Segments, s[1] \in Submitted, dtor # "crashed"
        PROVE  \/ deleted[s] > 0
               \/ Held' /\ segment' = s
               \/ \E e \in Range(queue') : e # Null /\ Reaches(linked', e, s)
    <3>1. ~Held
      BY <2>1 DEF Held
    <3>2. CASE \E i \in DOMAIN queue : queue[i] # Null /\ Reaches(linked, queue[i], s)
      BY <2>3, <3>2
    <3> QED
      BY <2>4, <3>1, <3>2 DEF Accounted, Range
  <2> QED
    BY <2>1, <2>4 DEF Accounted, Submitted
<1>3. CASE ReleaseThread
  <2>1. queue' = Append(queue, Null) /\ dtor # "crashed"
        /\ UNCHANGED <<order, linked, segment, consumer, deleted>>
    BY <1>3 DEF ReleaseThread
  <2>2. Range(queue') = Range(queue) \cup {Null}
    BY <2>1, QueueType, AppendShape DEF Entries
  <2> QED
    BY <1>0, <2>1, <2>2 DEF Held
<1>4. CASE XmitSend \/ XmitDelete \/ Purge
  <2>1. /\ deleted' = [deleted EXCEPT ![segment] = @ + 1] /\ segment \in Segments
        /\ UNCHANGED <<order, queue, linked, dtor>>
    BY <1>4 DEF XmitSend, XmitDelete, Purge, queueVars, TypeOK
  <2>2. deleted'[segment] > 0 /\ \A s \in Segments : deleted[s] > 0 => deleted'[s] > 0
    BY <2>1 DEF TypeOK
  <2> QED
    BY <1>0, <2>1, <2>2
<1>5. ASSUME NEW c \in Senders, NEW m \in Messages, EnqueueReadsNull(c, m) PROVE Accounted'
  BY <1>5 DEF EnqueueReadsNull, Accounted
<1>6. CASE \/ XmitPoll \/ SegmentGetTake \/ SegmentGetTimeout \/ SegmentGetEmpty
           \/ SegmentGetCheck \/ SegmentGetGive
           \/ DtorExitReq \/ ReleaseThreadGive \/ DtorDrain
           \/ (\E c \in Senders : EnqueueGive(c)) \/ UNCHANGED vars
  <2>1. UNCHANGED <<queueVars, deleted>>
    BY <1>6, QuietSteps DEF vars, queueVars
  <2>2. dtor' # "crashed" => dtor # "crashed"
    BY <1>6 DEF XmitPoll, SegmentGetTake, SegmentGetTimeout, SegmentGetEmpty, SegmentGetCheck,
       SegmentGetGive, Returned, DtorExitReq, ReleaseThreadGive, DtorDrain, EnqueueGive, Draining,
       vars
  <2>3. Held => Held' /\ segment' = segment
    BY <1>6 DEF XmitPoll, SegmentGetTake, SegmentGetTimeout, SegmentGetEmpty, SegmentGetCheck,
       SegmentGetGive, Returned, DtorExitReq, ReleaseThreadGive, DtorDrain, EnqueueGive, vars, Held
  <2> QED
    BY <1>0, <2>1, <2>2, <2>3 DEF queueVars
<1> QED
  BY <1>1, <1>2, <1>3, <1>4, <1>5, <1>6 DEF Next, Consume, Destroy

\* ReleaseThread queues its NULL last and nothing is inserted behind it.
LEMMA NullLastStep == TypeOK /\ NullLast /\ [Next]_vars => NullLast'
<1> SUFFICES ASSUME TypeOK, NullLast, [Next]_vars PROVE NullLast'
  OBVIOUS
<1>q. Len(queue) \in Nat /\ DOMAIN queue = 1 .. Len(queue)
  BY QueueType
<1>1. ASSUME NEW c \in Senders, NEW m \in Messages, Enqueue(c, m) PROVE NullLast'
  <2>1. PICK p \in 1 .. Len(queue) + 1 :
            /\ \A i \in 1 .. p - 1 : queue[i] # Null /\ ~Overtakes(m, queue[i])
            /\ DOMAIN queue' = 1 .. Len(queue) + 1
            /\ \A i \in 1 .. Len(queue) + 1 :
                   queue'[i] = IF i < p THEN queue[i]
                               ELSE IF i = p THEN <<m, 1>> ELSE queue[i - 1]
    BY <1>1, EnqueueShape
  <2>2. <<m, 1>> # Null
    BY <1>1, EnqueueShape, UrgencyType
  <2>3. ASSUME NEW i \in DOMAIN queue', queue'[i] = Null
        PROVE  i - 1 \in DOMAIN queue /\ queue[i - 1] = Null
    <3>1. ~(i < p)
      BY <1>q, <2>1, <2>3
    <3>2. i # p
      BY <2>1, <2>2, <2>3
    <3>3. i - 1 \in DOMAIN queue
      BY <1>q, <2>1, <3>1, <3>2
    <3> QED
      BY <2>1, <2>3, <3>1, <3>2, <3>3
  <2>4. ASSUME NEW i \in DOMAIN queue', NEW j \in DOMAIN queue', queue'[i] = Null
        PROVE  j <= i
    <3>1. i - 1 \in DOMAIN queue /\ queue[i - 1] = Null
      BY <2>3, <2>4
    <3>2. Len(queue) \in DOMAIN queue
      BY <1>q, <3>1
    <3>3. Len(queue) <= i - 1
      BY <3>1, <3>2 DEF NullLast
    <3> QED
      BY <1>q, <2>1, <3>3
  <2>5. dtor' = dtor
    BY <1>1 DEF Enqueue
  <2> QED
    BY <2>3, <2>4, <2>5 DEF NullLast
<1>2. CASE SegmentGetPop
  <2>1. dtor' = dtor
    BY <1>2 DEF SegmentGetPop
  <2>2. \A j \in DOMAIN queue' :
            /\ j \in Nat /\ Shift \in {0, 1}
            /\ \/ j = 1 /\ queue'[j] # Null
               \/ j + Shift \in DOMAIN queue /\ queue'[j] = queue[j + Shift]
            /\ j = 1 \/ j + Shift \in DOMAIN queue
    BY <1>2, PopEntries, PopShape, UrgencyType
  <2>3. ASSUME NEW i \in DOMAIN queue', NEW j \in DOMAIN queue', queue'[i] = Null
        PROVE  j <= i
    <3>1. i + Shift \in DOMAIN queue /\ queue[i + Shift] = Null
      BY <2>2, <2>3
    <3>2. CASE j + Shift \in DOMAIN queue
      <4>1. j + Shift <= i + Shift
        BY <3>1, <3>2 DEF NullLast
      <4> QED
        BY <2>2, <4>1
    <3>3. CASE j = 1
      <4>1. 1 <= i
        BY <1>2, <1>q, PopShape
      <4> QED
        BY <3>3, <4>1
    <3> QED
      BY <2>2, <3>2, <3>3
  <2> QED
    BY <2>1, <2>2, <2>3 DEF NullLast
<1>3. CASE ReleaseThread
  <2>1. queue' = Append(queue, Null) /\ dtor = "exitReq" /\ dtor' = "give"
    BY <1>3 DEF ReleaseThread
  <2>2. /\ DOMAIN queue' = 1 .. Len(queue) + 1
        /\ \A i \in DOMAIN queue : queue'[i] = queue[i]
        /\ \A i \in DOMAIN queue' : i \in DOMAIN queue \/ i = Len(queue) + 1
    BY <2>1, QueueType, AppendShape DEF Entries
  <2>3. \A i \in DOMAIN queue' : queue'[i] = Null => i = Len(queue) + 1
    BY <2>1, <2>2 DEF NullLast
  <2> QED
    BY <1>q, <2>1, <2>2, <2>3 DEF NullLast
<1>4. ASSUME UNCHANGED queue, dtor' \in {"none", "exitReq"} => dtor \in {"none", "exitReq"}
      PROVE  NullLast'
  BY <1>4 DEF NullLast
<1>5. CASE \/ XmitPoll \/ SegmentGetTake \/ SegmentGetTimeout \/ SegmentGetEmpty
           \/ SegmentGetCheck \/ SegmentGetGive \/ XmitSend \/ XmitDelete \/ Purge
           \/ DtorExitReq \/ ReleaseThreadGive \/ DtorDrain
           \/ (\E c \in Senders, m \in Messages : EnqueueReadsNull(c, m))
           \/ (\E c \in Senders : EnqueueGive(c)) \/ UNCHANGED vars
  <2>1. UNCHANGED queue
    BY <1>5, QuietSteps DEF vars, queueVars, XmitSend, XmitDelete, Purge, EnqueueReadsNull
  <2>2. dtor' \in {"none", "exitReq"} => dtor \in {"none", "exitReq"}
    BY <1>5 DEF XmitPoll, SegmentGetTake, SegmentGetTimeout, SegmentGetEmpty, SegmentGetCheck,
       SegmentGetGive, Returned, XmitSend, XmitDelete, Purge, DtorExitReq, ReleaseThreadGive,
       DtorDrain, EnqueueReadsNull, EnqueueGive, vars
  <2> QED
    BY <1>4, <2>1, <2>2
<1> QED
  BY <1>1, <1>2, <1>3, <1>5 DEF Next, Consume, Destroy

\* ~IpcTransmitQueue ends its drain at an empty list only.
LEMMA DrainedStep ==
    TypeOK /\ TypeOK' /\ NothingStranded /\ NullLast /\ Drained /\ [Next]_vars => Drained'
<1> SUFFICES ASSUME TypeOK, TypeOK', NothingStranded, NullLast, Drained, [Next]_vars
             PROVE  Drained'
  OBVIOUS
<1>1. ASSUME NEW c \in Senders, NEW m \in Messages, Enqueue(c, m) \/ EnqueueReadsNull(c, m)
      PROVE  Drained'
  BY <1>1 DEF Enqueue, EnqueueReadsNull, Usable, Drained
<1>2. ASSUME NEW c \in Senders, EnqueueGive(c) PROVE Drained'
  BY <1>2 DEF EnqueueGive, queueVars, Drained
<1>3. CASE SegmentGetTimeout
  <2>1. CASE Draining
    <3>1. queue = <<>>
      BY <1>3, <2>1 DEF SegmentGetTimeout, NothingStranded, Drained, Draining
    <3> QED
      BY <1>3, <2>1, <3>1 DEF SegmentGetTimeout, Drained, Draining, queueVars
  <2>2. CASE ~Draining
    BY <1>3, <2>2 DEF SegmentGetTimeout, Drained, Draining, queueVars
  <2> QED
    BY <2>1, <2>2
<1>4. CASE SegmentGetPop
  <2>1. /\ UNCHANGED <<sender, dtor>> /\ consumer = "lock" /\ segment' = queue[1]
        /\ 1 \in DOMAIN queue
    BY <1>4, PopShape DEF SegmentGetPop
  <2>2. ASSUME segment' = Null PROVE queue' = <<>>
    <3>1. Len(queue) \in Nat /\ DOMAIN queue = 1 .. Len(queue) /\ queue[1] \notin linked
      BY <2>1, <2>2, QueueType, UrgencyType DEF TypeOK
    <3>2. Len(queue) <= 1
      <4>1. queue[1] = Null
        BY <2>1, <2>2
      <4>2. Len(queue) \in DOMAIN queue /\ 1 \in DOMAIN queue
        BY <2>1, <3>1
      <4> QED
        BY <4>1, <4>2, <3>1 DEF NullLast
    <3>3. DOMAIN queue' = {}
      BY <1>4, <3>1, <3>2, PopShape
    <3>4. queue' \in Seq(Entries) /\ Len(queue') \in Nat /\ DOMAIN queue' = 1 .. Len(queue')
      BY LenProperties DEF TypeOK, Entries
    <3>5. Len(queue') = 0
      BY <3>3, <3>4
    <3> QED
      BY <3>4, <3>5, EmptySeq
  <2> QED
    BY <2>1, <2>2 DEF Drained
<1>5. CASE SegmentGetEmpty
  BY <1>5 DEF SegmentGetEmpty, queueVars, Drained
<1>6. CASE SegmentGetCheck
  <2>1. CASE queue # <<>> /\ sem = 0
    BY <1>6, <2>1 DEF SegmentGetCheck, queueVars, Drained
  <2>2. CASE ~(queue # <<>> /\ sem = 0)
    BY <1>6, <2>2 DEF SegmentGetCheck, Returned, Draining, queueVars, Drained
  <2> QED
    BY <2>1, <2>2
<1>7. CASE SegmentGetGive
  BY <1>7 DEF SegmentGetGive, Returned, Draining, queueVars, Drained
<1>8. CASE XmitPoll \/ SegmentGetTake \/ XmitSend \/ XmitDelete \/ Purge
  <2>1. UNCHANGED <<queue, sender, dtor>> /\ consumer # "exited" /\ consumer' \notin {"check", "give"}
    BY <1>8 DEF XmitPoll, SegmentGetTake, XmitSend, XmitDelete, Purge, queueVars
  <2> QED
    BY <2>1 DEF Drained
<1>9. CASE DtorExitReq \/ ReleaseThread \/ ReleaseThreadGive \/ DtorDrain
  BY <1>9 DEF DtorExitReq, ReleaseThread, ReleaseThreadGive, DtorDrain, Drained
<1>10. CASE UNCHANGED vars
  BY <1>10 DEF vars, Drained
<1> QED
  BY <1>1, <1>2, <1>3, <1>4, <1>5, <1>6, <1>7, <1>8, <1>9, <1>10 DEF Next, Consume, Destroy

\* When the node is gone, every segment that was accepted has been deleted.
THEOREM AllDeleted == Spec => []NothingLeaks
<1>1. Init => Known /\ Accounted /\ NullLast /\ Drained
  BY DEF Init, Known, Accounted, NullLast, Drained, IsInjective, Submitted, Range
<1>2. TypeOK /\ Accounted /\ Drained => NothingLeaks
  BY DEF Accounted, Drained, Held, NothingLeaks, Range
<1> QED
  BY <1>1, <1>2, TypeCorrect, SignalKept, TypeStep, KnownStep, AccountedStep, NullLastStep,
     DrainedStep, PTL DEF Spec

-----------------------------------------------------------------------------
(* IpcRouter (cpIpcRouter.cpp, cpIpcResolver.cpp), which sends what nodes  *)
(* transmit: for any servers, senders, names and addresses.                *)

AllNames == Names \cup {Broadcast}
RouterMsgs == [to : AllNames \cup {Stale}, dst : 1 .. MaxAddr]

RouterTypeOK ==
    /\ nodes = [next |-> nodes.next, queues |-> nodes.queues, names |-> nodes.names]
    /\ nodes.next \in 1 .. MaxAddr /\ nodes.queues \subseteq Rtr!Addrs
    /\ nodes.names \in [DOMAIN nodes.names -> 1 .. MaxAddr]
    /\ box \in [Rtr!Addrs -> Seq(RouterMsgs)]
    /\ owner \in [Rtr!Addrs -> Names \cup {Stale}]
    /\ incoming \in Seq(RouterMsgs)
    /\ client \in [Servers \cup RouterSenders ->
                     [pc : {"idle", "add", "open", "cache", "send"}, name : AllNames, addr : 0 .. MaxAddr]]
    /\ DOMAIN cache = RouterSenders
    /\ router \in [pc : {"start", "recv", "find", "send", "crashed"}, msg : RouterMsgs,
                   left : SUBSET Rtr!Addrs]

\* Who knows an address by a name knows the address that was given to the name: an
\* address is given once, and the broadcast address is no node's.
KnownAt(n, a) ==
    \/ n = Broadcast /\ a = MaxAddr
    \/ n \in Names /\ a \in Rtr!Addrs /\ owner[a] = n

\* The addresses that have been given are those below the next one, but for those
\* that a server has taken and not entered.
GivenOnce ==
    /\ \A a \in Rtr!Addrs : a >= nodes.next => owner[a] = Stale
    /\ \A a \in nodes.queues : owner[a] # Stale
    /\ \A c \in Servers \cup RouterSenders : client[c].pc = "open" =>
          client[c].addr \in Rtr!Addrs /\ client[c].addr < nodes.next /\ owner[client[c].addr] = Stale
    /\ \A c, d \in Servers \cup RouterSenders :
          client[c].pc = "open" /\ client[d].pc = "open" /\ client[c].addr = client[d].addr => c = d
    /\ \A c \in Servers \cup RouterSenders :
          client[c].pc \in {"add", "open"} => client[c].name \in Names

NamesKnown ==
    \A n \in DOMAIN nodes.names :
        KnownAt(n, nodes.names[n]) /\ (nodes.names[n] # MaxAddr => nodes.names[n] \in nodes.queues)

SendersKnow ==
    /\ \A c \in Servers \cup RouterSenders :
          client[c].pc \in {"cache", "send"} => KnownAt(client[c].name, client[c].addr)
    /\ \A c \in RouterSenders : \A n \in DOMAIN cache[c] : KnownAt(n, cache[c][n])

\* A message on its way has the address of its name, ...
OnTheWay ==
    /\ router.pc # "start" => \A i \in 1 .. Len(incoming) : KnownAt(incoming[i].to, incoming[i].dst)
    /\ router.pc \in {"find", "send"} => KnownAt(router.msg.to, router.msg.dst)
    /\ router.pc = "send" =>
          \A a \in router.left : router.msg.to = Broadcast \/ owner[a] = router.msg.to

\* ... and so it has when it has arrived.
Arrived ==
    \A a \in nodes.queues : \A i \in 1 .. Len(box[a]) : box[a][i].to \in {owner[a], Broadcast}

RouterIInv == RouterTypeOK /\ GivenOnce /\ NamesKnown /\ SendersKnow /\ OnTheWay /\ Arrived

\* The invariant says what NamesReachTheirNodes says.
LEMMA RouterInvariant ==
    ASSUME Rtr!RouterConstants, RouterIInv PROVE Rtr!NamesReachTheirNodes
<1>1. ASSUME NEW a \in nodes.queues, NEW i \in 1 .. Depth, i \in DOMAIN box[a]
      PROVE  box[a][i].to \in {owner[a], Broadcast}
  <2>1. box[a] \in Seq(RouterMsgs)
    BY DEF RouterIInv, RouterTypeOK
  <2>2. i \in 1 .. Len(box[a])
    BY <1>1, <2>1, LenProperties
  <2> QED
    BY <2>2 DEF RouterIInv, Arrived
<1>2. ASSUME NEW n \in DOMAIN nodes.names, nodes.names[n] # MaxAddr
      PROVE  nodes.names[n] \in nodes.queues /\ owner[nodes.names[n]] = n
  BY <1>2 DEF RouterIInv, NamesKnown, KnownAt
<1> QED
  BY <1>1, <1>2 DEF Rtr!NamesReachTheirNodes

\* What is known stays true when addresses are given that had not been.
LEMMA KnownStays ==
    ASSUME Rtr!RouterConstants, NEW n, NEW a, KnownAt(n, a), UNCHANGED owner \/
             \E b : owner[b] = Stale /\ \A d \in Rtr!Addrs \ {b} : owner'[d] = owner[d]
    PROVE  KnownAt(n, a)'
BY DEF KnownAt, Rtr!RouterConstants, Rtr!Addrs

LEMMA RouterBegins == ASSUME Rtr!RouterConstants, Rtr!RouterInit PROVE RouterIInv
<1> USE DEF Rtr!RouterInit, Rtr!RouterConstants
<1>1. <<>> \in Seq(RouterMsgs) /\ Len(<<>>) = 0 /\ DOMAIN <<>> = {}
  BY EmptySeq
<1>2. RouterTypeOK
  <2>1. nodes.names \in [DOMAIN nodes.names -> 1 .. MaxAddr]
    BY <1>1
  <2>2. router \in [pc : {"start", "recv", "find", "send", "crashed"}, msg : RouterMsgs, left : SUBSET Rtr!Addrs]
    BY DEF Rtr!Waiting, Rtr!OldMessage, RouterMsgs
  <2> QED
    BY <1>1, <2>1, <2>2 DEF RouterTypeOK, Rtr!NoCall, Rtr!Addrs, AllNames
<1>3. GivenOnce /\ NamesKnown /\ SendersKnow /\ Arrived
  BY <1>1 DEF GivenOnce, NamesKnown, SendersKnow, Arrived, Rtr!NoCall
<1>4. OnTheWay
  BY DEF OnTheWay, Rtr!Waiting
<1> QED
  BY <1>2, <1>3, <1>4 DEF RouterIInv

\* The router's begin: what is in its device is dropped.
LEMMA StartKeepsInvariant ==
    ASSUME Rtr!RouterConstants, RouterIInv, Rtr!OpenDevice \/ Rtr!Start PROVE RouterIInv'
<1> USE DEF RouterIInv, RouterTypeOK, Rtr!RouterConstants
<1>1. CASE Rtr!OpenDevice
  <2>1. Rtr!OldMessage(1) \in RouterMsgs
    BY DEF Rtr!OldMessage, RouterMsgs
  <2>2. incoming' \in Seq(RouterMsgs) /\ router.pc = "start"
    BY <1>1, <2>1 DEF Rtr!OpenDevice
  <2> QED
    BY <1>1, <2>2 DEF Rtr!OpenDevice, GivenOnce, NamesKnown, SendersKnow, OnTheWay, Arrived, KnownAt
<1>2. CASE Rtr!Start
  <2>1. /\ incoming' = <<>> /\ incoming' \in Seq(RouterMsgs) /\ Len(incoming') = 0
        /\ nodes' = [nodes EXCEPT !.names = Rtr!With(@, Broadcast, MaxAddr)] /\ router' = Rtr!Waiting
        /\ UNCHANGED <<box, owner, client, cache>>
    BY <1>2, EmptySeq DEF Rtr!Start, Rtr!Flushed
  <2>2. /\ DOMAIN nodes'.names = DOMAIN nodes.names \cup {Broadcast}
        /\ nodes'.names \in [DOMAIN nodes'.names -> 1 .. MaxAddr]
        /\ nodes'.names[Broadcast] = MaxAddr
        /\ \A y \in DOMAIN nodes.names : y # Broadcast => nodes'.names[y] = nodes.names[y]
        /\ nodes'.next = nodes.next /\ nodes'.queues = nodes.queues
        /\ nodes' = [next |-> nodes'.next, queues |-> nodes'.queues, names |-> nodes'.names]
    <3>1. nodes'.names = Rtr!With(nodes.names, Broadcast, MaxAddr) /\ MaxAddr \in 1 .. MaxAddr
      BY <2>1
    <3>2. nodes.names \in [DOMAIN nodes.names -> 1 .. MaxAddr]
      OBVIOUS
    <3>3. /\ DOMAIN nodes'.names = DOMAIN nodes.names \cup {Broadcast}
          /\ nodes'.names \in [DOMAIN nodes'.names -> 1 .. MaxAddr]
          /\ nodes'.names[Broadcast] = MaxAddr
          /\ \A y \in DOMAIN nodes.names : y # Broadcast => nodes'.names[y] = nodes.names[y]
      BY <3>1, <3>2 DEF Rtr!With
    <3>4. /\ nodes'.next = nodes.next /\ nodes'.queues = nodes.queues
          /\ nodes' = [next |-> nodes'.next, queues |-> nodes'.queues, names |-> nodes'.names]
      BY <2>1
    <3> QED
      BY <3>3, <3>4
  <2>3. router' \in [pc : {"start", "recv", "find", "send", "crashed"}, msg : RouterMsgs, left : SUBSET Rtr!Addrs]
        /\ router'.pc = "recv"
    BY <2>1 DEF Rtr!Waiting, Rtr!OldMessage, RouterMsgs
  <2>4. RouterTypeOK'
    BY <2>1, <2>2, <2>3
  <2>5. NamesKnown'
    BY <2>1, <2>2 DEF NamesKnown, KnownAt
  <2>6. GivenOnce' /\ SendersKnow' /\ Arrived' /\ OnTheWay'
    BY <2>1, <2>2, <2>3 DEF GivenOnce, SendersKnow, Arrived, OnTheWay, KnownAt
  <2> QED
    BY <2>4, <2>5, <2>6
<1> QED
  BY <1>1, <1>2

\* Servers: an address that is taken is nobody's yet, ...
LEMMA CreateKeepsInvariant ==
    ASSUME Rtr!RouterConstants, RouterIInv, NEW c \in Servers,
           (\E name \in Names : Rtr!NodeCreate(c, name)) \/ Rtr!TakeAddr(c) \/ Rtr!QueueInvalid(c)
    PROVE  RouterIInv'
<1> USE DEF RouterIInv, RouterTypeOK, Rtr!RouterConstants
<1>1. ASSUME NEW name \in Names, Rtr!NodeCreate(c, name) PROVE RouterIInv'
  <2>1. /\ client' = [client EXCEPT ![c] = [pc |-> "add", name |-> name, addr |-> 0]]
        /\ UNCHANGED <<nodes, box, owner, incoming, cache, router>>
    BY <1>1 DEF Rtr!NodeCreate
  <2>2. RouterTypeOK'
    BY <2>1 DEF AllNames
  <2> QED
    BY <2>1, <2>2 DEF GivenOnce, NamesKnown, SendersKnow, OnTheWay, Arrived, KnownAt
<1>2. ASSUME client' = [client EXCEPT ![c] = Rtr!NoCall],
             UNCHANGED <<nodes, box, owner, incoming, cache, router>>
      PROVE  RouterIInv'
  <2>1. RouterTypeOK'
    BY <1>2 DEF Rtr!NoCall, AllNames
  <2> QED
    BY <1>2, <2>1 DEF Rtr!NoCall, GivenOnce, NamesKnown, SendersKnow, OnTheWay, Arrived, KnownAt
<1>3. CASE Rtr!TakeAddr(c) /\ nodes.next < MaxAddr
  <2>1. /\ nodes' = [nodes EXCEPT !.next = nodes.next + 1] /\ client[c].pc = "add"
        /\ client' = [client EXCEPT ![c].pc = "open", ![c].addr = nodes.next]
        /\ UNCHANGED <<box, owner, incoming, cache, router>>
    BY <1>3 DEF Rtr!TakeAddr, Rtr!NextAddr
  <2>2. /\ client'[c].pc = "open" /\ client'[c].addr = nodes.next /\ client'[c].name = client[c].name
        /\ \A d \in Servers \cup RouterSenders : d # c => client'[d] = client[d]
        /\ nodes'.next = nodes.next + 1 /\ nodes'.queues = nodes.queues /\ nodes'.names = nodes.names
        /\ nodes' = [next |-> nodes'.next, queues |-> nodes'.queues, names |-> nodes'.names]
    BY <2>1
  <2>3. nodes.next \in Rtr!Addrs /\ nodes'.next \in 1 .. MaxAddr /\ nodes.next \in 0 .. MaxAddr
    BY <1>3, <2>2 DEF Rtr!Addrs
  <2>4. client' \in [Servers \cup RouterSenders ->
                     [pc : {"idle", "add", "open", "cache", "send"}, name : AllNames, addr : 0 .. MaxAddr]]
    <3>1. client'[c] = [pc |-> "open", name |-> client[c].name, addr |-> nodes.next]
      BY <2>1
    <3>2. client'[c] \in [pc : {"idle", "add", "open", "cache", "send"}, name : AllNames, addr : 0 .. MaxAddr]
      BY <2>3, <3>1
    <3> QED
      BY <2>1, <2>2, <3>2
  <2>5. RouterTypeOK'
    BY <2>1, <2>2, <2>3, <2>4
  <2>6. GivenOnce'
    <3>1. ASSUME NEW a \in Rtr!Addrs, a >= nodes'.next PROVE owner'[a] = Stale
      BY <2>1, <2>2, <2>3, <3>1 DEF GivenOnce, Rtr!Addrs
    <3>2. owner[nodes.next] = Stale
      BY <2>3 DEF GivenOnce, Rtr!Addrs
    <3>3. ASSUME NEW d \in Servers \cup RouterSenders, client'[d].pc = "open"
          PROVE  client'[d].addr \in Rtr!Addrs /\ client'[d].addr < nodes'.next /\ owner'[client'[d].addr] = Stale
      <4>1. CASE d = c
        BY <2>1, <2>2, <2>3, <3>2, <4>1
      <4>2. CASE d # c
        <5>1. client[d].addr \in Rtr!Addrs /\ client[d].addr < nodes.next /\ owner[client[d].addr] = Stale
          BY <2>2, <3>3, <4>2 DEF GivenOnce
        <5> QED
          BY <2>1, <2>2, <2>3, <4>2, <5>1 DEF Rtr!Addrs
      <4> QED
        BY <4>1, <4>2
    <3>4. ASSUME NEW d \in Servers \cup RouterSenders, d # c, client'[d].pc = "open"
          PROVE  client'[d].addr # nodes.next
      <4>1. client[d].addr \in Rtr!Addrs /\ client[d].addr < nodes.next
        BY <2>2, <3>4 DEF GivenOnce
      <4> QED
        BY <2>2, <2>3, <3>4, <4>1 DEF Rtr!Addrs
    <3>5. \A d, e \in Servers \cup RouterSenders :
             client'[d].pc = "open" /\ client'[e].pc = "open" /\ client'[d].addr = client'[e].addr => d = e
      <4> SUFFICES ASSUME NEW d \in Servers \cup RouterSenders, NEW e \in Servers \cup RouterSenders,
                          client'[d].pc = "open", client'[e].pc = "open",
                          client'[d].addr = client'[e].addr, d # e
                   PROVE  FALSE
        OBVIOUS
      <4>1. d # c /\ e # c
        BY <2>2, <3>4
      <4> QED
        BY <2>2, <4>1 DEF GivenOnce
    <3>6. \A d \in Servers \cup RouterSenders : client'[d].pc \in {"add", "open"} => client'[d].name \in Names
      BY <2>1, <2>2 DEF GivenOnce
    <3> QED
      BY <2>1, <2>2, <3>1, <3>3, <3>5, <3>6 DEF GivenOnce
  <2>7. NamesKnown' /\ SendersKnow' /\ OnTheWay' /\ Arrived'
    BY <2>1, <2>2 DEF NamesKnown, SendersKnow, OnTheWay, Arrived, KnownAt
  <2> QED
    BY <2>5, <2>6, <2>7
<1> QED
  BY <1>1, <1>2, <1>3 DEF Rtr!TakeAddr, Rtr!QueueInvalid

\* ... and is given to one name when it is entered.
LEMMA NodeAddKeepsInvariant ==
    ASSUME Rtr!RouterConstants, RouterIInv, NEW c \in Servers, Rtr!NodeAdd(c) PROVE RouterIInv'
<1> USE DEF RouterIInv, RouterTypeOK, Rtr!RouterConstants
<1> DEFINE a == client[c].addr
           name == client[c].name
<1>1. /\ client[c].pc = "open" /\ box' = [box EXCEPT ![a] = <<>>] /\ owner' = [owner EXCEPT ![a] = name]
      /\ nodes' = [nodes EXCEPT !.queues = @ \cup {a}, !.names = Rtr!With(@, name, a)]
      /\ client' = [client EXCEPT ![c] = Rtr!NoCall]
      /\ UNCHANGED <<incoming, cache, router>>
  BY DEF Rtr!NodeAdd, Rtr!Flushed
<1>2. /\ a \in Rtr!Addrs /\ a < nodes.next /\ owner[a] = Stale /\ name \in Names /\ a \notin nodes.queues
      /\ name # Stale /\ name # Broadcast /\ a # MaxAddr /\ a \in 1 .. MaxAddr
  BY <1>1 DEF GivenOnce, Rtr!Addrs
<1>3. /\ DOMAIN nodes'.names = DOMAIN nodes.names \cup {name}
      /\ nodes'.names \in [DOMAIN nodes'.names -> 1 .. MaxAddr]
      /\ nodes'.names[name] = a
      /\ \A y \in DOMAIN nodes.names : y # name => nodes'.names[y] = nodes.names[y]
      /\ nodes'.next = nodes.next /\ nodes'.queues = nodes.queues \cup {a}
      /\ nodes' = [next |-> nodes'.next, queues |-> nodes'.queues, names |-> nodes'.names]
  <2>1. nodes'.names = Rtr!With(nodes.names, name, a)
    BY <1>1
  <2>2. nodes.names \in [DOMAIN nodes.names -> 1 .. MaxAddr]
    OBVIOUS
  <2> HIDE DEF a, name
  <2>3. /\ DOMAIN nodes'.names = DOMAIN nodes.names \cup {name}
        /\ nodes'.names \in [DOMAIN nodes'.names -> 1 .. MaxAddr]
        /\ nodes'.names[name] = a
        /\ \A y \in DOMAIN nodes.names : y # name => nodes'.names[y] = nodes.names[y]
    BY <1>2, <2>1, <2>2 DEF Rtr!With
  <2>4. /\ nodes'.next = nodes.next /\ nodes'.queues = nodes.queues \cup {a}
        /\ nodes' = [next |-> nodes'.next, queues |-> nodes'.queues, names |-> nodes'.names]
    BY <1>1
  <2> QED
    BY <2>3, <2>4
<1>4. /\ owner'[a] = name /\ \A b \in Rtr!Addrs : b # a => owner'[b] = owner[b] /\ box'[b] = box[b]
      /\ box'[a] = <<>> /\ Len(box'[a]) = 0
      /\ client'[c].pc = "idle"
      /\ \A d \in Servers \cup RouterSenders : d # c => client'[d] = client[d]
  BY <1>1, <1>2, EmptySeq DEF Rtr!NoCall
<1>5. RouterTypeOK'
  <2>1. client' \in [Servers \cup RouterSenders ->
                     [pc : {"idle", "add", "open", "cache", "send"}, name : AllNames, addr : 0 .. MaxAddr]]
    BY <1>1 DEF Rtr!NoCall, AllNames
  <2>2. box' \in [Rtr!Addrs -> Seq(RouterMsgs)] /\ owner' \in [Rtr!Addrs -> Names \cup {Stale}]
    BY <1>1, <1>2, EmptySeq
  <2> HIDE DEF a, name
  <2> QED
    BY <1>1, <1>2, <1>3, <2>1, <2>2
<1> HIDE DEF a, name
<1>6. ASSUME NEW n, NEW b, KnownAt(n, b) PROVE KnownAt(n, b)' /\ b # a
  BY <1>2, <1>4, <1>6 DEF KnownAt
<1>7. GivenOnce'
  <2>1. \A b \in Rtr!Addrs : b >= nodes'.next => owner'[b] = Stale
    BY <1>2, <1>3, <1>4 DEF GivenOnce, Rtr!Addrs
  <2>2. \A b \in nodes'.queues : owner'[b] # Stale
    BY <1>2, <1>3, <1>4 DEF GivenOnce
  <2>3. ASSUME NEW d \in Servers \cup RouterSenders, client'[d].pc = "open"
        PROVE  client'[d].addr \in Rtr!Addrs /\ client'[d].addr < nodes'.next /\ owner'[client'[d].addr] = Stale
    <3>1. d # c /\ client'[d] = client[d]
      BY <1>4, <2>3
    <3>2. client[d].addr # a
      BY <1>1, <2>3, <3>1 DEF GivenOnce, a
    <3> QED
      BY <1>3, <1>4, <2>3, <3>1, <3>2 DEF GivenOnce
  <2>4. \A d \in Servers \cup RouterSenders :
           client'[d].pc \in {"add", "open"} => d # c /\ client'[d] = client[d]
    BY <1>4
  <2>5. \A d \in Servers \cup RouterSenders : client'[d].pc \in {"add", "open"} => client'[d].name \in Names
    BY <2>4 DEF GivenOnce
  <2>6. \A d, e \in Servers \cup RouterSenders :
           client'[d].pc = "open" /\ client'[e].pc = "open" /\ client'[d].addr = client'[e].addr => d = e
    BY <2>4 DEF GivenOnce
  <2> QED
    BY <2>1, <2>2, <2>3, <2>5, <2>6 DEF GivenOnce
<1>8. NamesKnown'
  <2>1. ASSUME NEW n \in DOMAIN nodes'.names
        PROVE  (KnownAt(n, nodes.names[n]) /\ (nodes.names[n] # MaxAddr => nodes.names[n] \in nodes.queues))'
    <3>1. CASE n = name
      BY <1>2, <1>3, <1>4, <3>1 DEF KnownAt
    <3>2. CASE n # name
      <4>1. n \in DOMAIN nodes.names /\ nodes'.names[n] = nodes.names[n]
        BY <1>3, <3>2
      <4> QED
        BY <1>3, <1>6, <4>1 DEF NamesKnown
    <3> QED
      BY <3>1, <3>2
  <2> QED
    BY <2>1 DEF NamesKnown
<1>9. SendersKnow'
  BY <1>1, <1>4, <1>6 DEF SendersKnow
<1>10. OnTheWay'
  <2>1. ASSUME router.pc = "send", NEW b \in router.left
        PROVE  router.msg.to = Broadcast \/ owner'[b] = router.msg.to
    <3>1. router.msg.to # Stale
      BY <2>1 DEF OnTheWay, KnownAt
    <3>2. b \in Rtr!Addrs
      BY <2>1
    <3> QED
      BY <1>2, <1>4, <2>1, <3>1, <3>2 DEF OnTheWay
  <2> QED
    BY <1>1, <1>6, <2>1 DEF OnTheWay
<1>11. Arrived'
  BY <1>2, <1>3, <1>4 DEF Arrived
<1> QED
  BY <1>5, <1>7, <1>8, <1>9, <1>10, <1>11

\* A node that goes leaves no name.
LEMMA NodeDelKeepsInvariant ==
    ASSUME Rtr!RouterConstants, RouterIInv, NEW c \in Servers, NEW a \in 1 .. MaxAddr, Rtr!NodeDel(c, a)
    PROVE  RouterIInv'
<1> USE DEF RouterIInv, RouterTypeOK, Rtr!RouterConstants
<1>1. PICK n \in Rtr!NameOf(a) \cup {Stale} :
         /\ n = Stale => Rtr!NameOf(a) = {}
         /\ nodes' = [nodes EXCEPT !.queues = @ \ {a},
                                   !.names = Rtr!Restrict(@, DOMAIN @ \ {n})]
  BY DEF Rtr!NodeDel
<1>2. /\ nodes'.names = [y \in DOMAIN nodes.names \ {n} |-> nodes.names[y]]
      /\ nodes'.next = nodes.next /\ nodes'.queues = nodes.queues \ {a}
      /\ nodes' = [next |-> nodes'.next, queues |-> nodes'.queues, names |-> nodes'.names]
  BY <1>1 DEF Rtr!Restrict
<1>3. /\ box' \in [Rtr!Addrs -> Seq(RouterMsgs)]
      /\ \A b \in Rtr!Addrs : b # a => box'[b] = box[b]
      /\ UNCHANGED <<owner, incoming, client, cache, router>>
  BY EmptySeq DEF Rtr!NodeDel
<1>4. RouterTypeOK'
  <2>1. nodes'.names \in [DOMAIN nodes'.names -> 1 .. MaxAddr]
    BY <1>2
  <2> QED
    BY <1>2, <1>3, <2>1
<1>5. ASSUME NEW m \in DOMAIN nodes'.names, nodes'.names[m] # MaxAddr
      PROVE  nodes'.names[m] \in nodes'.queues
  <2>1. m \in DOMAIN nodes.names /\ m # n /\ nodes'.names[m] = nodes.names[m]
    BY <1>2
  <2>2. nodes.names[m] \in nodes.queues /\ owner[nodes.names[m]] = m
    BY <1>5, <2>1 DEF NamesKnown, KnownAt
  <2>3. ASSUME nodes.names[m] = a PROVE FALSE
    <3>1. n \in Rtr!NameOf(a)
      BY <1>1, <2>1, <2>3 DEF Rtr!NameOf
    <3>2. nodes.names[n] = a /\ n \in DOMAIN nodes.names
      BY <3>1 DEF Rtr!NameOf
    <3>3. owner[a] = n
      BY <1>5, <2>1, <2>3, <3>2 DEF NamesKnown, KnownAt
    <3> QED
      BY <2>1, <2>2, <2>3, <3>3
  <2> QED
    BY <1>2, <2>1, <2>2, <2>3
<1>6. NamesKnown'
  <2>1. \A m \in DOMAIN nodes'.names : KnownAt(m, nodes'.names[m])
    BY <1>2 DEF NamesKnown
  <2> QED
    BY <1>3, <1>5, <2>1 DEF NamesKnown, KnownAt
<1>7. GivenOnce' /\ SendersKnow' /\ OnTheWay'
  BY <1>2, <1>3 DEF GivenOnce, SendersKnow, OnTheWay, KnownAt
<1>8. Arrived'
  BY <1>2, <1>3 DEF Arrived
<1> QED
  BY <1>4, <1>6, <1>7, <1>8

\* Senders: a name's address is the router's answer, however long it has been kept.
LEMMA LookupKeepsInvariant ==
    ASSUME Rtr!RouterConstants, RouterIInv, NEW c \in RouterSenders,
           \/ \E name \in Names \cup {Broadcast} : Rtr!Lookup(c, name)
           \/ Rtr!AddressAdd(c) \/ Rtr!Clear(c)
    PROVE  RouterIInv'
<1> USE DEF RouterIInv, RouterTypeOK, Rtr!RouterConstants
<1>1. ASSUME NEW name \in Names \cup {Broadcast}, Rtr!Lookup(c, name) PROVE RouterIInv'
  <2>1. PICK place, a :
           /\ place \in {"send", "cache"}
           /\ client' = [client EXCEPT ![c] = [pc |-> place, name |-> name, addr |-> a]]
           /\ \/ name \in DOMAIN cache[c] /\ a = cache[c][name]
              \/ Rtr!NodeFind(name) # 0 /\ a = Rtr!NodeFind(name)
    BY <1>1 DEF Rtr!Lookup
  <2>2. KnownAt(name, a)
    BY <2>1 DEF NamesKnown, SendersKnow, Rtr!NodeFind
  <2>3. a \in 0 .. MaxAddr
    BY <2>2 DEF KnownAt, Rtr!Addrs
  <2>4. UNCHANGED <<nodes, box, owner, incoming, cache, router>>
    BY <1>1 DEF Rtr!Lookup
  <2>5. RouterTypeOK'
    BY <2>1, <2>3, <2>4 DEF AllNames
  <2>6. SendersKnow'
    BY <2>1, <2>2, <2>4 DEF SendersKnow, KnownAt
  <2> QED
    BY <2>1, <2>4, <2>5, <2>6 DEF GivenOnce, NamesKnown, OnTheWay, Arrived, KnownAt
<1>2. CASE Rtr!AddressAdd(c)
  <2> DEFINE name == client[c].name
             a == client[c].addr
             new == Rtr!With(cache[c], name, a)
  <2>1. /\ client[c].pc = "cache" /\ cache' = [cache EXCEPT ![c] = new]
        /\ client' = [client EXCEPT ![c].pc = "send"]
        /\ UNCHANGED <<nodes, box, owner, incoming, router>>
    BY <1>2 DEF Rtr!AddressAdd
  <2>2. KnownAt(name, a)
    BY <2>1 DEF SendersKnow
  <2>3. \A n \in DOMAIN new : KnownAt(n, new[n])
    BY <2>2 DEF SendersKnow, Rtr!With
  <2>4. /\ client'[c].name = name /\ client'[c].addr = a /\ client'[c].pc = "send"
        /\ \A d \in Servers \cup RouterSenders : d # c => client'[d] = client[d]
        /\ cache'[c] = new /\ \A d \in RouterSenders : d # c => cache'[d] = cache[d]
    BY <2>1
  <2>5. RouterTypeOK'
    BY <2>1
  <2> HIDE DEF new, name, a
  <2>6. \A n, b : KnownAt(n, b)' <=> KnownAt(n, b)
    BY <2>1 DEF KnownAt
  <2>7. SendersKnow'
    <3>1. \A d \in Servers \cup RouterSenders :
             client'[d].pc \in {"cache", "send"} => KnownAt(client'[d].name, client'[d].addr)
      BY <2>2, <2>4 DEF SendersKnow
    <3>2. \A d \in RouterSenders : \A n \in DOMAIN cache'[d] : KnownAt(n, cache'[d][n])
      BY <2>3, <2>4 DEF SendersKnow
    <3> QED
      BY <2>1, <3>1, <3>2 DEF SendersKnow, KnownAt
  <2>8. GivenOnce' /\ NamesKnown' /\ OnTheWay' /\ Arrived'
    BY <2>1, <2>4 DEF GivenOnce, NamesKnown, OnTheWay, Arrived, KnownAt
  <2> QED
    BY <2>5, <2>7, <2>8
<1>3. CASE Rtr!Clear(c)
  <2>1. cache' = [cache EXCEPT ![c] = <<>>] /\ UNCHANGED <<nodes, box, owner, incoming, client, router>>
    BY <1>3 DEF Rtr!Clear
  <2>2. RouterTypeOK'
    BY <2>1
  <2>3. SendersKnow'
    BY <2>1, EmptySeq DEF SendersKnow, KnownAt
  <2> QED
    BY <2>1, <2>2, <2>3 DEF GivenOnce, NamesKnown, OnTheWay, Arrived, KnownAt
<1> QED
  BY <1>1, <1>2, <1>3

\* What goes into the router's device and out of it.
LEMMA DeviceKeepsInvariant ==
    ASSUME Rtr!RouterConstants, RouterIInv,
           (\E c \in RouterSenders : Rtr!ToRouter(c)) \/ Rtr!Recv
    PROVE  RouterIInv'
<1> USE DEF RouterIInv, RouterTypeOK, Rtr!RouterConstants
<1>1. ASSUME NEW c \in RouterSenders, Rtr!ToRouter(c) PROVE RouterIInv'
  <2> DEFINE m == [to |-> client[c].name, dst |-> client[c].addr]
  <2>1. /\ client[c].pc = "send" /\ client' = [client EXCEPT ![c] = Rtr!NoCall]
        /\ incoming' \in {incoming, Append(incoming, m)}
        /\ UNCHANGED <<nodes, box, owner, cache, router>>
    BY <1>1 DEF Rtr!ToRouter
  <2>2. KnownAt(m.to, m.dst)
    BY <2>1 DEF SendersKnow
  <2>3. m \in RouterMsgs
    BY <2>2 DEF KnownAt, RouterMsgs, AllNames, Rtr!Addrs
  <2> HIDE DEF m
  <2>4. /\ incoming' \in Seq(RouterMsgs)
        /\ \A i \in 1 .. Len(incoming') :
              \/ i \in 1 .. Len(incoming) /\ incoming'[i] = incoming[i]
              \/ incoming'[i] = m
    <3>1. CASE incoming' = incoming
      BY <3>1
    <3>2. CASE incoming' = Append(incoming, m)
      BY <2>3, <3>2, AppendProperties
    <3> QED
      BY <2>1, <3>1, <3>2
  <2>5. RouterTypeOK'
    BY <2>1, <2>4 DEF Rtr!NoCall, AllNames
  <2>6. OnTheWay'
    BY <2>1, <2>2, <2>4 DEF OnTheWay, KnownAt
  <2>7. SendersKnow' /\ GivenOnce'
    BY <2>1 DEF SendersKnow, GivenOnce, Rtr!NoCall, KnownAt
  <2> QED
    BY <2>1, <2>5, <2>6, <2>7 DEF NamesKnown, Arrived, KnownAt
<1>2. CASE Rtr!Recv
  <2>1. /\ router.pc = "recv" /\ incoming # <<>>
        /\ router' = [pc |-> "find", msg |-> Head(incoming), left |-> {}]
        /\ incoming' = Tail(incoming)
        /\ UNCHANGED <<nodes, box, owner, client, cache>>
    BY <1>2 DEF Rtr!Recv
  <2>2. /\ Head(incoming) \in RouterMsgs /\ Head(incoming) = incoming[1] /\ 1 \in 1 .. Len(incoming)
        /\ incoming' \in Seq(RouterMsgs)
        /\ \A i \in 1 .. Len(incoming') : i + 1 \in 1 .. Len(incoming) /\ incoming'[i] = incoming[i + 1]
    BY <2>1, HeadTailProperties, EmptySeq
  <2>3. RouterTypeOK'
    BY <2>1, <2>2
  <2>4. \A i \in 1 .. Len(incoming) : KnownAt(incoming[i].to, incoming[i].dst)
    BY <2>1 DEF OnTheWay
  <2>5. router'.pc = "find" /\ router'.msg = incoming[1]
    BY <2>1, <2>2
  <2>6. \A n, b : KnownAt(n, b)' <=> KnownAt(n, b)
    BY <2>1 DEF KnownAt
  <2>7. \A i \in 1 .. Len(incoming') : KnownAt(incoming'[i].to, incoming'[i].dst)
    BY <2>2, <2>4
  <2>8. KnownAt(router'.msg.to, router'.msg.dst)
    BY <2>2, <2>4, <2>5
  <2>9. OnTheWay'
    BY <2>1, <2>5, <2>7, <2>8 DEF OnTheWay, KnownAt
  <2> QED
    BY <2>1, <2>3, <2>9 DEF GivenOnce, NamesKnown, SendersKnow, Arrived, KnownAt
<1> QED
  BY <1>1, <1>2

\* The router's thread and the nodes: what is forwarded goes to the node that has
\* been given the address, or to nobody.
LEMMA ForwardKeepsInvariant ==
    ASSUME Rtr!RouterConstants, RouterIInv,
           Rtr!QueueFind \/ Rtr!SendOne \/ \E a \in Rtr!Addrs : Rtr!NodeRecv(a)
    PROVE  RouterIInv'
<1> USE DEF RouterIInv, RouterTypeOK, Rtr!RouterConstants
<1>0. Rtr!Waiting \in [pc : {"recv"}, msg : RouterMsgs, left : SUBSET Rtr!Addrs]
  BY DEF Rtr!Waiting, Rtr!OldMessage, RouterMsgs
<1>1. CASE Rtr!QueueFind
  <2> DEFINE dst == router.msg.dst
             found == IF dst = MaxAddr THEN nodes.queues ELSE nodes.queues \cap {dst}
  <2>1. /\ router.pc = "find"
        /\ router' = IF found = {} THEN Rtr!Waiting ELSE [router EXCEPT !.pc = "send", !.left = found]
        /\ UNCHANGED <<nodes, box, owner, incoming, client, cache>>
    BY <1>1 DEF Rtr!QueueFind
  <2>2. found \subseteq Rtr!Addrs
    OBVIOUS
  <2>3. \A a \in found : router.msg.to = Broadcast \/ owner[a] = router.msg.to
    BY <2>1 DEF OnTheWay, KnownAt, Rtr!Addrs
  <2> HIDE DEF found
  <2>4. RouterTypeOK'
    BY <1>0, <2>1, <2>2
  <2>5. OnTheWay'
    BY <1>0, <2>1, <2>3 DEF OnTheWay, KnownAt
  <2> QED
    BY <2>1, <2>4, <2>5 DEF GivenOnce, NamesKnown, SendersKnow, Arrived, KnownAt
<1>2. CASE Rtr!SendOne
  <2>1. PICK a \in router.left :
           IF a \in nodes.queues
           THEN /\ router' = IF router.left = {a} THEN Rtr!Waiting ELSE [router EXCEPT !.left = @ \ {a}]
                /\ box' = IF Len(box[a]) < Depth
                          THEN [box EXCEPT ![a] = Append(@, router.msg)] ELSE box
           ELSE /\ router' = [router EXCEPT !.pc = "crashed"]
                /\ UNCHANGED box
    BY <1>2 DEF Rtr!SendOne
  <2>2. router.pc = "send" /\ UNCHANGED <<nodes, owner, incoming, client, cache>>
    BY <1>2 DEF Rtr!SendOne
  <2>3. a \in Rtr!Addrs /\ router.msg \in RouterMsgs /\ box[a] \in Seq(RouterMsgs)
    OBVIOUS
  <2>4. /\ router' \in [pc : {"start", "recv", "find", "send", "crashed"}, msg : RouterMsgs, left : SUBSET Rtr!Addrs]
        /\ router'.pc \in {"recv", "crashed"} \/ (router'.pc = "send" /\ router'.msg = router.msg /\ router'.left \subseteq router.left)
    <3>1. CASE router' = Rtr!Waiting
      BY <1>0, <3>1
    <3>2. CASE router' = [router EXCEPT !.left = @ \ {a}]
      BY <2>2, <3>2
    <3>3. CASE router' = [router EXCEPT !.pc = "crashed"]
      BY <3>3
    <3> QED
      BY <2>1, <3>1, <3>2, <3>3
  <2>5. Append(box[a], router.msg) \in Seq(RouterMsgs)
        /\ \A i \in 1 .. Len(Append(box[a], router.msg)) :
              \/ i \in 1 .. Len(box[a]) /\ Append(box[a], router.msg)[i] = box[a][i]
              \/ Append(box[a], router.msg)[i] = router.msg
    BY <2>3, AppendProperties
  <2>6. /\ box' \in [Rtr!Addrs -> Seq(RouterMsgs)]
        /\ \A b \in Rtr!Addrs : b # a => box'[b] = box[b]
        /\ box'[a] = box[a] \/ box'[a] = Append(box[a], router.msg)
    <3>1. CASE box' = box
      BY <3>1
    <3>2. CASE box' = [box EXCEPT ![a] = Append(box[a], router.msg)]
      BY <2>3, <2>5, <3>2
    <3> QED
      BY <2>1, <3>1, <3>2
  <2>7. RouterTypeOK'
    BY <2>2, <2>4, <2>6
  <2>8. OnTheWay'
    BY <2>2, <2>4 DEF OnTheWay, KnownAt
  <2>9. Arrived'
    <3>1. router.msg.to = Broadcast \/ owner[a] = router.msg.to
      BY <2>2, <2>3 DEF OnTheWay
    <3>2. ASSUME NEW b \in nodes.queues, NEW i \in 1 .. Len(box'[b])
          PROVE  box'[b][i].to \in {owner[b], Broadcast}
      <4>1. CASE box'[b] = box[b]
        BY <3>2, <4>1 DEF Arrived
      <4>2. CASE b = a /\ box'[b] = Append(box[a], router.msg)
        BY <2>5, <3>1, <3>2, <4>2 DEF Arrived
      <4> QED
        BY <2>6, <4>1, <4>2
    <3> QED
      BY <2>2, <3>2 DEF Arrived
  <2> QED
    BY <2>2, <2>7, <2>8, <2>9 DEF GivenOnce, NamesKnown, SendersKnow, KnownAt
<1>3. ASSUME NEW a \in Rtr!Addrs, Rtr!NodeRecv(a) PROVE RouterIInv'
  <2>1. /\ a \in nodes.queues /\ box[a] # <<>> /\ box' = [box EXCEPT ![a] = Tail(@)]
        /\ UNCHANGED <<nodes, owner, incoming, client, cache, router>>
    BY <1>3 DEF Rtr!NodeRecv
  <2>2. /\ Tail(box[a]) \in Seq(RouterMsgs)
        /\ \A i \in 1 .. Len(Tail(box[a])) : i + 1 \in 1 .. Len(box[a]) /\ Tail(box[a])[i] = box[a][i + 1]
    BY <2>1, HeadTailProperties
  <2>3. RouterTypeOK'
    BY <2>1, <2>2
  <2>4. Arrived'
    BY <2>1, <2>2 DEF Arrived
  <2> QED
    BY <2>1, <2>3, <2>4 DEF GivenOnce, NamesKnown, SendersKnow, OnTheWay, KnownAt
<1> QED
  BY <1>1, <1>2, <1>3

\* Whatever nodes come and go and however long an address is kept, a message in a
\* node's queue was sent to that node's name or to all.
THEOREM MessagesReachTheirNodes ==
    ASSUME Rtr!RouterConstants PROVE Rtr!RouterSpec => []NamesReachTheirNodes
<1>1. Rtr!RouterInit => RouterIInv
  BY RouterBegins
<1>2. RouterIInv /\ [Rtr!RouterNext]_(Rtr!vars) => RouterIInv'
  <2> SUFFICES ASSUME RouterIInv, [Rtr!RouterNext]_(Rtr!vars) PROVE RouterIInv'
    OBVIOUS
  <2>1. CASE UNCHANGED Rtr!vars
    BY <2>1 DEF Rtr!vars, RouterIInv, RouterTypeOK, GivenOnce, NamesKnown, SendersKnow, OnTheWay, Arrived, KnownAt
  <2>2. CASE Rtr!RouterNext
    BY <2>2, StartKeepsInvariant, CreateKeepsInvariant, NodeAddKeepsInvariant, NodeDelKeepsInvariant,
       LookupKeepsInvariant, DeviceKeepsInvariant, ForwardKeepsInvariant DEF Rtr!RouterNext
  <2> QED
    BY <2>1, <2>2
<1>3. RouterIInv => NamesReachTheirNodes
  BY RouterInvariant DEF NamesReachTheirNodes
<1> QED
  BY <1>1, <1>2, <1>3, PTL DEF Rtr!RouterSpec

-----------------------------------------------------------------------------
(* Transport (cpIpcTransport.cpp, cpIpcStrmTransport.cpp, cpIoDev_I.cpp),   *)
(* for any lengths of segments, any wire, any errors and time-outs.         *)

Units == Nat \X Nat

TransportTypeOK ==
    /\ dev \in [kind : Trn!Kinds \cup {"none"}, wr : BOOLEAN, rd : BOOLEAN, released : BOOLEAN]
    /\ segs \in Seq(Sizes)
    /\ snd \in [op : {"idle", "header", "segment"}, left : Seq(Units), tries : Nat]
    /\ rcv \in [op : {"idle", "header", "discard", "segment"}, want : Nat, buf : Seq(Units),
                tries : Nat]
    /\ whole \in Seq(Nat) /\ \A k \in 1 .. Len(whole) : whole[k] \in 1 .. Len(segs)
    /\ delivered \in Seq(Seq(Units)) /\ cut \in BOOLEAN
    /\ wire \in Seq(IF Trn!IsStream THEN Units ELSE Seq(Units))
    /\ dev.kind = "none" => wire = <<>> /\ whole = <<>> /\ delivered = <<>> /\ snd.op = "idle"
                            /\ rcv.op = "idle"

\* Send holds what is left of its segment: of a stream the rest of the header or of
\* what follows it, otherwise the whole segment.
LeftToSend ==
    /\ snd.op = "idle" => snd.left = <<>>
    /\ snd.op # "idle" => Len(segs) > 0 /\ Len(snd.left) > 0
    /\ Trn!IsStream /\ snd.op # "idle" =>
          LET end == 2 + IF snd.op = "header" THEN 0 ELSE segs[Len(segs)]
          IN /\ Len(snd.left) <= IF snd.op = "header" THEN 2 ELSE segs[Len(segs)]
             /\ \A p \in 1 .. Len(snd.left) :
                   snd.left[p] = <<Len(segs), end - Len(snd.left) + p>>
    /\ ~Trn!IsStream /\ snd.op # "idle" =>
          snd.op = "segment" /\ snd.left = Trn!Payload(Len(segs))

BeingReceived ==
    /\ rcv.op = "idle" => rcv.buf = <<>>
    /\ rcv.op = "header" => rcv.want = 2

\* A stream's units between Send and Recv.
Flow == (rcv.buf \o wire) \o snd.left

\* The units in a list of lists and the ones of a list that comes after it are in order.
InOrder(lists, s) ==
    /\ \A i, j \in 1 .. Len(s) : i < j => Trn!Earlier(s[i], s[j])
    /\ \A d \in 1 .. Len(lists) : \A p \in 1 .. Len(lists[d]) :
          \A i \in 1 .. Len(s) : Trn!Earlier(lists[d][p], s[i])
    /\ \A d, e \in 1 .. Len(lists) : \A p \in 1 .. Len(lists[d]), q \in 1 .. Len(lists[e]) :
          d < e \/ (d = e /\ p < q) => Trn!Earlier(lists[d][p], lists[e][q])

\* Nothing is ahead of the segment being sent, nor of its header.
NotAhead(s) ==
    \A p \in 1 .. Len(s) :
        s[p][1] <= Len(segs) /\ (snd.op = "header" /\ s[p][1] = Len(segs) => s[p][2] <= 2)

UnitsInOrder ==
    Trn!IsStream =>
        /\ InOrder(delivered, Flow) /\ NotAhead(Flow)
        /\ \A d \in 1 .. Len(delivered) : NotAhead(delivered[d])

-----------------------------------------------------------------------------
\* Lists in order stay in order when a list is cut or a part is delivered, and when
\* the octets of ReleaseThread come in between.
LEMMA InOrderParts ==
    ASSUME NEW lists \in Seq(Seq(Units)), NEW s \in Seq(Units), NEW t \in Seq(Units),
           InOrder(lists, s \o t)
    PROVE  /\ InOrder(lists, s) /\ InOrder(lists, t) /\ InOrder(Append(lists, s), t)
<1>1. /\ Len(s) \in Nat /\ Len(t) \in Nat /\ Len(s \o t) = Len(s) + Len(t)
      /\ \A i \in 1 .. Len(s) + Len(t) : (s \o t)[i] = IF i <= Len(s) THEN s[i] ELSE t[i - Len(s)]
  BY ConcatProperties, LenProperties
<1>2. /\ \A i \in 1 .. Len(s) : i \in 1 .. Len(s) + Len(t) /\ (s \o t)[i] = s[i]
      /\ \A i \in 1 .. Len(t) : i + Len(s) \in 1 .. Len(s) + Len(t) /\ (s \o t)[i + Len(s)] = t[i]
  BY <1>1
<1>3. InOrder(lists, s) /\ InOrder(lists, t)
  <2>1. \A i, j \in 1 .. Len(s) : i < j => Trn!Earlier(s[i], s[j])
    BY <1>1, <1>2 DEF InOrder
  <2>2. ASSUME NEW i \in 1 .. Len(t), NEW j \in 1 .. Len(t), i < j PROVE Trn!Earlier(t[i], t[j])
    <3>1. i + Len(s) < j + Len(s)
      BY <1>1, <2>2
    <3>2. \A x, y \in 1 .. Len(s) + Len(t) : x < y => Trn!Earlier((s \o t)[x], (s \o t)[y])
      BY <1>1 DEF InOrder
    <3>3. Trn!Earlier((s \o t)[i + Len(s)], (s \o t)[j + Len(s)])
      BY <1>2, <3>1, <3>2
    <3> QED
      BY <1>2, <3>3
  <2>3. \A d \in 1 .. Len(lists) : \A p \in 1 .. Len(lists[d]) :
           /\ \A i \in 1 .. Len(s) : Trn!Earlier(lists[d][p], s[i])
           /\ \A i \in 1 .. Len(t) : Trn!Earlier(lists[d][p], t[i])
    BY <1>1, <1>2 DEF InOrder
  <2> QED
    BY <2>1, <2>2, <2>3 DEF InOrder
<1>4. \A i \in 1 .. Len(s), j \in 1 .. Len(t) : Trn!Earlier(s[i], t[j])
  <2> TAKE i \in 1 .. Len(s), j \in 1 .. Len(t)
  <2>1. i \in 1 .. Len(s \o t) /\ j + Len(s) \in 1 .. Len(s \o t) /\ i < j + Len(s)
    BY <1>1
  <2> QED
    BY <1>2, <2>1 DEF InOrder
<1>5. /\ Len(lists) \in Nat /\ Len(Append(lists, s)) = Len(lists) + 1
      /\ \A d \in 1 .. Len(lists) : Append(lists, s)[d] = lists[d]
      /\ Append(lists, s)[Len(lists) + 1] = s
  BY AppendProperties, LenProperties
<1>6. \A d \in 1 .. Len(lists) + 1 : d \in 1 .. Len(lists) \/ d = Len(lists) + 1
  BY <1>5
<1>7. InOrder(Append(lists, s), t)
  <2> DEFINE more == Append(lists, s)
  <2>1. \A d \in 1 .. Len(more) : \A p \in 1 .. Len(more[d]) :
           \A i \in 1 .. Len(t) : Trn!Earlier(more[d][p], t[i])
    BY <1>3, <1>4, <1>5, <1>6 DEF InOrder
  <2>2. ASSUME NEW d \in 1 .. Len(more), NEW e \in 1 .. Len(more), NEW p \in 1 .. Len(more[d]),
               NEW q \in 1 .. Len(more[e]), d < e \/ (d = e /\ p < q)
        PROVE  Trn!Earlier(more[d][p], more[e][q])
    <3>1. CASE e = Len(lists) + 1 /\ d = Len(lists) + 1
      BY <1>3, <1>5, <2>2, <3>1 DEF InOrder
    <3>2. CASE e = Len(lists) + 1 /\ d \in 1 .. Len(lists)
      BY <1>3, <1>5, <3>2 DEF InOrder
    <3>3. CASE e \in 1 .. Len(lists)
      <4>1. d \in 1 .. Len(lists)
        BY <1>5, <1>6, <2>2, <3>3
      <4> QED
        BY <1>3, <1>5, <2>2, <3>3, <4>1 DEF InOrder
    <3> QED
      BY <1>5, <1>6, <3>1, <3>2, <3>3
  <2> QED
    BY <1>3, <2>1, <2>2 DEF InOrder
<1> QED
  BY <1>3, <1>7

\* What is put at the end stays in order if nothing is ahead of it.
LEMMA InOrderMore ==
    ASSUME NEW lists \in Seq(Seq(Units)), NEW s \in Seq(Units), NEW t \in Seq(Units),
           InOrder(lists, s),
           \A i, j \in 1 .. Len(t) : i < j => Trn!Earlier(t[i], t[j]),
           \A i \in 1 .. Len(s), j \in 1 .. Len(t) : Trn!Earlier(s[i], t[j]),
           \A d \in 1 .. Len(lists) : \A p \in 1 .. Len(lists[d]) :
              \A j \in 1 .. Len(t) : Trn!Earlier(lists[d][p], t[j])
    PROVE  InOrder(lists, s \o t)
<1>1. /\ Len(s) \in Nat /\ Len(t) \in Nat /\ Len(s \o t) = Len(s) + Len(t)
      /\ \A i \in 1 .. Len(s) + Len(t) : (s \o t)[i] = IF i <= Len(s) THEN s[i] ELSE t[i - Len(s)]
  BY ConcatProperties, LenProperties
<1>2. \A i \in 1 .. Len(s \o t) :
         \/ i \in 1 .. Len(s) /\ (s \o t)[i] = s[i]
         \/ i - Len(s) \in 1 .. Len(t) /\ (s \o t)[i] = t[i - Len(s)]
  BY <1>1
<1>3. ASSUME NEW i \in 1 .. Len(s \o t), NEW j \in 1 .. Len(s \o t), i < j
      PROVE  Trn!Earlier((s \o t)[i], (s \o t)[j])
  <2>1. CASE i \in 1 .. Len(s) /\ j \in 1 .. Len(s)
    BY <1>1, <1>3, <2>1 DEF InOrder
  <2>2. CASE i \in 1 .. Len(s) /\ j - Len(s) \in 1 .. Len(t)
    BY <1>1, <2>2
  <2>3. CASE i - Len(s) \in 1 .. Len(t) /\ j - Len(s) \in 1 .. Len(t)
    <3>1. Trn!Earlier(t[i - Len(s)], t[j - Len(s)])
      <4> DEFINE x == i - Len(s)
                 y == j - Len(s)
      <4>1. x \in 1 .. Len(t) /\ y \in 1 .. Len(t) /\ x < y
        <5>1. i \in Int /\ j \in Int /\ Len(s) \in Int
          BY <1>1
        <5> QED
          BY <1>3, <2>3, <5>1
      <4> HIDE DEF x, y
      <4>2. Trn!Earlier(t[x], t[y])
        BY <4>1
      <4> QED
        BY <4>2 DEF x, y
    <3>2. (s \o t)[i] = t[i - Len(s)] /\ (s \o t)[j] = t[j - Len(s)]
      BY <1>1, <2>3
    <3> QED
      BY <3>1, <3>2
  <2> QED
    BY <1>1, <1>2, <1>3, <2>1, <2>2, <2>3
<1>4. ASSUME NEW d \in 1 .. Len(lists), NEW p \in 1 .. Len(lists[d]), NEW i \in 1 .. Len(s \o t)
      PROVE  Trn!Earlier(lists[d][p], (s \o t)[i])
  BY <1>2 DEF InOrder
<1> QED
  BY <1>3, <1>4 DEF InOrder

\* The octets of ReleaseThread come between any two.
LEMMA InOrderReleased ==
    ASSUME NEW lists \in Seq(Seq(Units)), NEW s \in Seq(Units), NEW t \in Seq(Units),
           InOrder(lists, s \o t), NEW r \in Units, r[1] = 0
    PROVE  InOrder(lists, (s \o <<r>>) \o t)
<1>1. \A u : Trn!Earlier(r, u) /\ Trn!Earlier(u, r)
  BY DEF Trn!Earlier
<1>2. InOrder(lists, s) /\ InOrder(lists, t)
  BY InOrderParts
<1>3. <<r>> \in Seq(Units) /\ Len(<<r>>) = 1 /\ <<r>>[1] = r
  OBVIOUS
<1>4. InOrder(lists, s \o <<r>>)
  <2>1. \A j \in 1 .. Len(<<r>>) : <<r>>[j] = r
    BY <1>3
  <2> QED
    BY <1>1, <1>2, <1>3, <2>1, InOrderMore
<1>5. s \o <<r>> \in Seq(Units)
  BY <1>3, ConcatProperties
<1>6. \A i \in 1 .. Len(t) : \A j \in 1 .. Len(s) : Trn!Earlier(s[j], t[i])
  <2>1. /\ Len(s) \in Nat /\ Len(t) \in Nat /\ Len(s \o t) = Len(s) + Len(t)
        /\ \A i \in 1 .. Len(s) + Len(t) : (s \o t)[i] = IF i <= Len(s) THEN s[i] ELSE t[i - Len(s)]
    BY ConcatProperties, LenProperties
  <2> TAKE i \in 1 .. Len(t)
  <2> TAKE j \in 1 .. Len(s)
  <2>2. /\ j \in 1 .. Len(s \o t) /\ i + Len(s) \in 1 .. Len(s \o t) /\ j < i + Len(s)
        /\ (s \o t)[j] = s[j] /\ (s \o t)[i + Len(s)] = t[i]
    BY <2>1
  <2> QED
    BY <2>2 DEF InOrder
<1>7. \A j \in 1 .. Len(s \o <<r>>), i \in 1 .. Len(t) : Trn!Earlier((s \o <<r>>)[j], t[i])
  <2>1. /\ Len(s) \in Nat /\ Len(s \o <<r>>) = Len(s) + 1
        /\ \A j \in 1 .. Len(s) + 1 : (s \o <<r>>)[j] = IF j <= Len(s) THEN s[j] ELSE <<r>>[j - Len(s)]
    BY <1>3, ConcatProperties, LenProperties
  <2>2. \A j \in 1 .. Len(s \o <<r>>) : (j \in 1 .. Len(s) /\ (s \o <<r>>)[j] = s[j]) \/ (s \o <<r>>)[j] = r
    BY <1>3, <2>1
  <2> QED
    BY <1>1, <1>6, <2>2
<1> QED
  BY <1>2, <1>4, <1>5, <1>7, InOrderMore DEF InOrder

-----------------------------------------------------------------------------
\* The frames begun so far: those of the segments whose Sends have returned true, and
\* the one being sent, of which only the header may be in the flow yet.
LastFrame == Len(whole) + IF snd.op = "idle" THEN 0 ELSE 1
Frames == [j \in 1 .. LastFrame |-> IF j <= Len(whole) THEN whole[j] ELSE Len(segs)]
Extents == [j \in 1 .. LastFrame |->
               2 + IF j > Len(whole) /\ snd.op = "header" THEN 0 ELSE segs[Frames[j]]]

\* The units of two lists put together.
LEMMA ConcatParts ==
    ASSUME NEW S, NEW s \in Seq(S), NEW t \in Seq(S)
    PROVE  /\ Len(s) \in Nat /\ Len(t) \in Nat /\ Len(s \o t) = Len(s) + Len(t)
           /\ \A i \in 1 .. Len(s) : (s \o t)[i] = s[i]
           /\ \A i \in 1 .. Len(t) : (s \o t)[Len(s) + i] = t[i]
<1>1. /\ Len(s) \in Nat /\ Len(t) \in Nat /\ Len(s \o t) = Len(s) + Len(t)
      /\ \A i \in 1 .. Len(s) + Len(t) : (s \o t)[i] = IF i <= Len(s) THEN s[i] ELSE t[i - Len(s)]
  BY ConcatProperties, LenProperties
<1>2. \A i \in 1 .. Len(t) : /\ Len(s) + i \in 1 .. Len(s) + Len(t)
                             /\ ~(Len(s) + i <= Len(s)) /\ Len(s) + i - Len(s) = i
  BY <1>1
<1> QED
  BY <1>1, <1>2

\* Where in a flow each frame is, from the f-th to the l-th: at[j] octets come before
\* the j-th one, of which extent[j] units follow; the first begins at base, before the
\* flow if its header has been read.
Layout(at, f, l, frame, extent, base, flow) ==
    /\ at \in [f .. l + 1 -> Int] /\ at[f] = base /\ at[l + 1] = Len(flow)
    /\ \A j \in f .. l : extent[j] \in Nat /\ at[j + 1] = at[j] + extent[j]
    /\ \A j \in f .. l : \A p \in 1 .. extent[j] :
          at[j] + p >= 1 => flow[at[j] + p] = <<frame[j], p>>
    /\ \A i, j \in f .. l + 1 : i <= j => at[i] <= at[j]

\* What has been delivered is what came first of what was sent.
DeliveredFirst ==
    /\ Len(delivered) <= Len(whole)
    /\ \A k \in 1 .. Len(delivered) : delivered[k] = Trn!Payload(whole[k])

\* While no frame has been left unfinished, what is in the flow is the frames that
\* follow the delivered ones, and Recv is at the begin of one or behind its header.
InStep ==
    Trn!IsStream /\ ~cut =>
        /\ rcv.op # "discard" /\ DeliveredFirst
        /\ rcv.op = "segment" =>
              /\ Len(delivered) + 1 <= LastFrame
              /\ rcv.want = segs[Frames[Len(delivered) + 1]]
        /\ \E at : Layout(at, Len(delivered) + 1, LastFrame, Frames, Extents,
                          IF rcv.op = "segment" THEN -2 ELSE 0, Flow)

\* Where the frames of a layout and their units are.
Framed(at, f, l, frame, extent, flow) ==
    /\ \A j \in f .. l + 1 : j \in Int /\ at[j] \in Int /\ at[j] <= Len(flow)
    /\ \A j \in f .. l : /\ extent[j] \in Nat /\ at[j + 1] = at[j] + extent[j]
                         /\ at[j] \in Int /\ at[j + 1] \in Int /\ at[j + 1] <= Len(flow)
    /\ \A j \in f .. l : \A p \in 1 .. extent[j] : at[j] + p >= 1 =>
          at[j] + p \in 1 .. Len(flow) /\ flow[at[j] + p] = <<frame[j], p>>

\* A layout tells where its frames are.
LEMMA LayoutFrames ==
    ASSUME NEW f \in Nat, NEW l \in Nat, f <= l + 1, NEW base, NEW at,
           NEW flow \in Seq(Units), NEW frame, NEW extent, Layout(at, f, l, frame, extent, base, flow)
    PROVE  Framed(at, f, l, frame, extent, flow)
<1>1. Len(flow) \in Nat
  BY LenProperties
<1>2. \A j \in f .. l + 1 : j \in Int /\ at[j] \in Int /\ at[j] <= Len(flow)
  <2> TAKE j \in f .. l + 1
  <2>1. j \in Int /\ l + 1 \in f .. l + 1 /\ j <= l + 1
    OBVIOUS
  <2>2. at[j] <= at[l + 1] /\ at[l + 1] = Len(flow)
    BY <2>1 DEF Layout
  <2>3. at[j] \in Int
    BY DEF Layout
  <2> QED
    BY <2>1, <2>2, <2>3
<1>3. \A j \in f .. l : /\ extent[j] \in Nat /\ at[j + 1] = at[j] + extent[j]
                        /\ at[j] \in Int /\ at[j + 1] \in Int /\ at[j + 1] <= Len(flow)
  <2> TAKE j \in f .. l
  <2>1. j \in f .. l + 1 /\ j + 1 \in f .. l + 1
    OBVIOUS
  <2>2. extent[j] \in Nat /\ at[j + 1] = at[j] + extent[j]
    BY DEF Layout
  <2> QED
    BY <1>2, <2>1, <2>2
<1>4. ASSUME NEW j \in f .. l, NEW p \in 1 .. extent[j], at[j] + p >= 1
      PROVE  at[j] + p \in 1 .. Len(flow) /\ flow[at[j] + p] = <<frame[j], p>>
  <2>1. flow[at[j] + p] = <<frame[j], p>>
    BY <1>4 DEF Layout
  <2>2. at[j] \in Int /\ extent[j] \in Nat /\ at[j] + extent[j] <= Len(flow)
    BY <1>3
  <2> QED
    BY <1>1, <1>4, <2>1, <2>2
<1> QED
  BY <1>2, <1>3, <1>4 DEF Framed

\* Frames with one more, with a longer last one, and with one less.
OneMore(f, l, frame, extent, frame2, extent2, new) ==
    /\ \A j \in f .. l : frame2[j] = frame[j] /\ extent2[j] = extent[j]
    /\ extent2[l + 1] = Len(new) /\ \A p \in 1 .. Len(new) : new[p] = <<frame2[l + 1], p>>

LongerLast(f, l, frame, extent, frame2, extent2, new) ==
    /\ \A j \in f .. l - 1 : frame2[j] = frame[j] /\ extent2[j] = extent[j]
    /\ frame2[l] = frame[l] /\ extent2[l] = extent[l] + Len(new)
    /\ \A p \in 1 .. Len(new) : new[p] = <<frame[l], extent[l] + p>>

OneLess(f, l, frame, extent, frame2, extent2, old) ==
    /\ extent[l] = Len(old)
    /\ \A j \in f .. l - 1 : frame2[j] = frame[j] /\ extent2[j] = extent[j]

\* A frame is added at the end.
LEMMA LayoutAdd ==
    ASSUME NEW f \in Nat, NEW l \in Nat, f <= l + 1, NEW base \in Int, NEW at,
           NEW flow \in Seq(Units), NEW new \in Seq(Units), NEW frame, NEW extent, NEW frame2, NEW extent2,
           Layout(at, f, l, frame, extent, base, flow),
           OneMore(f, l, frame, extent, frame2, extent2, new)
    PROVE  \E at2 : Layout(at2, f, l + 1, frame2, extent2, base, flow \o new)
<1> USE DEF OneMore
<1>0. f <= l + 1
  OBVIOUS
<1>1. /\ Len(flow) \in Nat /\ Len(new) \in Nat /\ Len(flow \o new) = Len(flow) + Len(new)
      /\ \A i \in 1 .. Len(flow) : (flow \o new)[i] = flow[i]
      /\ \A i \in 1 .. Len(new) : (flow \o new)[Len(flow) + i] = new[i]
  BY ConcatParts
<1>2. /\ \A j \in f .. l + 1 : j \in Int /\ at[j] \in Int /\ at[j] <= Len(flow)
      /\ \A j \in f .. l : /\ extent[j] \in Nat /\ at[j + 1] = at[j] + extent[j]
                           /\ at[j] \in Int /\ at[j + 1] \in Int /\ at[j + 1] <= Len(flow)
      /\ \A j \in f .. l : \A p \in 1 .. extent[j] : at[j] + p >= 1 =>
            at[j] + p \in 1 .. Len(flow) /\ flow[at[j] + p] = <<frame[j], p>>
  <2>1. Framed(at, f, l, frame, extent, flow)
    BY <1>0, LayoutFrames
  <2> QED
    BY <2>1 DEF Framed
<1>3. /\ at[f] = base /\ at[l + 1] = Len(flow)
      /\ \A i, j \in f .. l + 1 : i <= j => at[i] <= at[j]
  BY DEF Layout
<1> DEFINE at2 == [j \in f .. l + 2 |-> IF j = l + 2 THEN Len(flow) + Len(new) ELSE at[j]]
<1>4. /\ at2 \in [f .. l + 2 -> Int] /\ at2[l + 2] = Len(flow) + Len(new)
      /\ \A j \in f .. l + 1 : at2[j] = at[j]
  BY <1>1, <1>2
<1> HIDE DEF at2
<1>5. at2[f] = base /\ at2[l + 1] = Len(flow)
  <2>1. f \in f .. l + 1 /\ l + 1 \in f .. l + 1
    BY <1>0
  <2> QED
    BY <1>3, <1>4, <2>1
<1>6. \A j \in f .. l + 1 : j = l + 1 \/ (j \in f .. l /\ j + 1 \in f .. l + 1)
  OBVIOUS
<1>7. \A j \in f .. l + 1 : extent2[j] \in Nat /\ at2[j + 1] = at2[j] + extent2[j]
  <2> TAKE j \in f .. l + 1
  <2>1. CASE j = l + 1
    <3>1. j + 1 = l + 2
      BY <2>1
    <3> QED
      BY <1>1, <1>4, <1>5, <2>1, <3>1
  <2>2. CASE j \in f .. l /\ j + 1 \in f .. l + 1
    BY <1>2, <1>4, <2>2
  <2> QED
    BY <1>6, <2>1, <2>2
<1>8. ASSUME NEW j \in f .. l + 1, NEW p \in 1 .. extent2[j], at2[j] + p >= 1
      PROVE  (flow \o new)[at2[j] + p] = <<frame2[j], p>>
  <2>1. CASE j = l + 1
    <3>1. at2[j] + p = Len(flow) + p /\ p \in 1 .. Len(new)
      BY <1>5, <2>1
    <3> QED
      BY <1>1, <2>1, <3>1
  <2>2. CASE j \in f .. l
    <3>1. /\ at2[j] = at[j] /\ p \in 1 .. extent[j] /\ at[j] + p >= 1
          /\ frame2[j] = frame[j]
      BY <1>4, <1>8, <2>2
    <3>2. at[j] + p \in 1 .. Len(flow) /\ flow[at[j] + p] = <<frame[j], p>>
      BY <1>2, <2>2, <3>1
    <3> QED
      BY <1>1, <3>1, <3>2
  <2> QED
    BY <1>6, <2>1, <2>2
<1>9. \A i, j \in f .. l + 2 : i <= j => at2[i] <= at2[j]
  <2> TAKE i, j \in f .. l + 2
  <2> HAVE i <= j
  <2>1. CASE j \in f .. l + 1
    <3>1. i \in f .. l + 1
      BY <2>1
    <3> QED
      BY <1>3, <1>4, <2>1, <3>1
  <2>2. CASE j = l + 2 /\ i \in f .. l + 1
    <3>1. at2[i] = at[i]
      BY <1>4, <2>2
    <3>2. at[i] \in Int /\ at[i] <= Len(flow)
      BY <1>2, <2>2
    <3> QED
      BY <1>1, <1>4, <2>2, <3>1, <3>2
  <2>3. CASE j = l + 2 /\ i = l + 2
    BY <1>1, <1>4, <2>3
  <2> QED
    BY <2>1, <2>2, <2>3
<1>10. Layout(at2, f, l + 1, frame2, extent2, base, flow \o new)
  <2>1. l + 1 + 1 = l + 2
    OBVIOUS
  <2> QED
    BY <1>1, <1>4, <1>5, <1>7, <1>8, <1>9, <2>1 DEF Layout
<1> QED
  BY <1>10

\* The last frame gets longer.
LEMMA LayoutGrow ==
    ASSUME NEW f \in Nat, NEW l \in Nat, f <= l, NEW base \in Int, NEW at,
           NEW flow \in Seq(Units), NEW new \in Seq(Units), NEW frame, NEW extent, NEW frame2, NEW extent2,
           Layout(at, f, l, frame, extent, base, flow),
           LongerLast(f, l, frame, extent, frame2, extent2, new)
    PROVE  \E at2 : Layout(at2, f, l, frame2, extent2, base, flow \o new)
<1> USE DEF LongerLast
<1>0. f <= l + 1
  OBVIOUS
<1>1. /\ Len(flow) \in Nat /\ Len(new) \in Nat /\ Len(flow \o new) = Len(flow) + Len(new)
      /\ \A i \in 1 .. Len(flow) : (flow \o new)[i] = flow[i]
      /\ \A i \in 1 .. Len(new) : (flow \o new)[Len(flow) + i] = new[i]
  BY ConcatParts
<1>2. /\ \A j \in f .. l + 1 : j \in Int /\ at[j] \in Int /\ at[j] <= Len(flow)
      /\ \A j \in f .. l : /\ extent[j] \in Nat /\ at[j + 1] = at[j] + extent[j]
                           /\ at[j] \in Int /\ at[j + 1] \in Int /\ at[j + 1] <= Len(flow)
      /\ \A j \in f .. l : \A p \in 1 .. extent[j] : at[j] + p >= 1 =>
            at[j] + p \in 1 .. Len(flow) /\ flow[at[j] + p] = <<frame[j], p>>
  <2>1. Framed(at, f, l, frame, extent, flow)
    BY <1>0, LayoutFrames
  <2> QED
    BY <2>1 DEF Framed
<1>3. /\ at[f] = base /\ at[l + 1] = Len(flow)
      /\ \A i, j \in f .. l + 1 : i <= j => at[i] <= at[j]
  BY DEF Layout
<1> DEFINE at2 == [j \in f .. l + 1 |-> IF j = l + 1 THEN Len(flow) + Len(new) ELSE at[j]]
<1>4. /\ at2 \in [f .. l + 1 -> Int] /\ at2[l + 1] = Len(flow) + Len(new)
      /\ \A j \in f .. l : at2[j] = at[j]
  BY <1>1, <1>2
<1> HIDE DEF at2
<1>5. /\ l \in f .. l /\ at2[f] = base /\ at2[l] = at[l] /\ at[l] + extent[l] = Len(flow)
      /\ extent[l] \in Nat /\ at[l] \in Int
  <2>1. l \in f .. l /\ f \in f .. l
    OBVIOUS
  <2>2. at2[f] = at[f] /\ at2[l] = at[l] /\ at[f] = base /\ at[l + 1] = Len(flow)
    BY <1>3, <1>4, <2>1
  <2>3. extent[l] \in Nat /\ at[l] \in Int /\ at[l + 1] = at[l] + extent[l]
    BY <1>2, <2>1
  <2> QED
    BY <2>1, <2>2, <2>3
<1>6. \A j \in f .. l : j = l \/ (j \in f .. l - 1 /\ j + 1 \in f .. l)
  OBVIOUS
<1>7. \A j \in f .. l : extent2[j] \in Nat /\ at2[j + 1] = at2[j] + extent2[j]
  <2> TAKE j \in f .. l
  <2>1. CASE j = l
    <3>1. extent2[l] = extent[l] + Len(new) /\ at2[l] = at[l]
      BY <1>5
    <3>2. extent[l] \in Nat /\ Len(new) \in Nat /\ at[l] \in Int /\ Len(flow) \in Nat
          /\ at[l] + extent[l] = Len(flow)
      BY <1>1, <1>5
    <3>3. at2[l + 1] = Len(flow) + Len(new)
      BY <1>4
    <3>4. ASSUME NEW x \in Int, NEW e \in Nat, NEW m \in Nat, NEW n \in Nat, x + e = n
          PROVE  e + m \in Nat /\ x + (e + m) = n + m
      BY <3>4
    <3>5. extent[l] + Len(new) \in Nat /\ at[l] + (extent[l] + Len(new)) = Len(flow) + Len(new)
      BY <3>2, <3>4
    <3>6. extent2[l] \in Nat /\ at2[l] + extent2[l] = Len(flow) + Len(new)
      BY <3>1, <3>5
    <3> QED
      BY <2>1, <3>3, <3>6
  <2>2. CASE j \in f .. l - 1 /\ j + 1 \in f .. l
    BY <1>2, <1>4, <2>2
  <2> QED
    BY <1>6, <2>1, <2>2
<1>8. ASSUME NEW j \in f .. l, NEW p \in 1 .. extent2[j], at2[j] + p >= 1
      PROVE  (flow \o new)[at2[j] + p] = <<frame2[j], p>>
  <2>1. at2[j] = at[j] /\ at[j] \in Int /\ extent[j] \in Nat /\ frame2[j] = frame[j] /\ p \in Nat
    <3>1. extent2[j] \in Nat
      BY <1>7
    <3> QED
      BY <1>2, <1>4, <1>6, <3>1
  <2>2. CASE p \in 1 .. extent[j]
    <3>1. at[j] + p \in 1 .. Len(flow) /\ flow[at[j] + p] = <<frame[j], p>>
      BY <1>2, <1>8, <2>1, <2>2
    <3> QED
      BY <1>1, <2>1, <3>1
  <2>3. CASE p > extent[j]
    <3>1. j = l
      BY <1>6, <1>7, <2>3
    <3> DEFINE q == p - extent[j]
    <3>2. q \in 1 .. Len(new) /\ at[j] + p = Len(flow) + q /\ p = extent[j] + q
      <4>1. extent[l] \in Nat /\ p \in Nat /\ p > extent[l] /\ p <= extent[l] + Len(new)
        <5>1. p <= extent2[l] /\ extent2[l] = extent[l] + Len(new)
          BY <1>5, <1>7, <3>1
        <5> QED
          BY <1>5, <2>1, <2>3, <3>1, <5>1
      <4>2. at[l] \in Int /\ at[l] + extent[l] = Len(flow) /\ Len(new) \in Nat
        BY <1>1, <1>5
      <4>3. PICK x \in Int, e \in Nat, m \in Nat, n \in Nat, r \in Nat :
               x = at[l] /\ e = extent[l] /\ m = Len(new) /\ n = Len(flow) /\ r = p
        <5>1. Len(flow) \in Nat
          OBVIOUS
        <5> QED
          BY <4>1, <4>2, <5>1
      <4>4. x + e = n /\ r > e /\ r <= e + m
        BY <4>1, <4>2, <4>3
      <4>5. r - e \in 1 .. m /\ x + r = n + (r - e) /\ r = e + (r - e)
        BY <4>4
      <4> QED
        BY <3>1, <4>3, <4>5
    <3> HIDE DEF q
    <3>3. (flow \o new)[Len(flow) + q] = <<frame[l], extent[l] + q>>
      BY <1>1, <3>2
    <3>4. (flow \o new)[at[j] + p] = <<frame[l], p>>
      BY <3>1, <3>2, <3>3
    <3> QED
      BY <2>1, <3>1, <3>4
  <2>4. p \in 1 .. extent[j] \/ p > extent[j]
    BY <2>1
  <2> QED
    BY <2>2, <2>3, <2>4
<1>9. \A i, j \in f .. l + 1 : i <= j => at2[i] <= at2[j]
  <2> TAKE i, j \in f .. l + 1
  <2> HAVE i <= j
  <2>1. CASE j \in f .. l
    <3>1. i \in f .. l
      BY <2>1
    <3> QED
      BY <1>3, <1>4, <2>1, <3>1
  <2>2. CASE j = l + 1 /\ i \in f .. l
    <3>1. at2[i] = at[i] /\ i \in f .. l + 1
      BY <1>4, <2>2
    <3>2. at[i] \in Int /\ at[i] <= Len(flow)
      BY <1>2, <3>1
    <3> QED
      BY <1>1, <1>4, <2>2, <3>1, <3>2
  <2>3. CASE j = l + 1 /\ i = l + 1
    BY <1>1, <1>4, <2>3
  <2> QED
    BY <2>1, <2>2, <2>3
<1>10. Layout(at2, f, l, frame2, extent2, base, flow \o new)
  BY <1>1, <1>4, <1>5, <1>7, <1>8, <1>9 DEF Layout
<1> QED
  BY <1>10

\* The last frame is taken back.
LEMMA LayoutCut ==
    ASSUME NEW f \in Nat, NEW l \in Nat, f <= l, NEW base \in Int, NEW at,
           NEW s \in Seq(Units), NEW t \in Seq(Units), NEW frame, NEW extent, NEW frame2, NEW extent2,
           Layout(at, f, l, frame, extent, base, s \o t),
           OneLess(f, l, frame, extent, frame2, extent2, t)
    PROVE  /\ \E at2 : Layout(at2, f, l - 1, frame2, extent2, base, s)
           /\ base < 0 => f <= l - 1
<1> USE DEF OneLess
<1>0. f <= l + 1
  OBVIOUS
<1>1. /\ Len(s) \in Nat /\ Len(t) \in Nat /\ Len(s \o t) = Len(s) + Len(t)
      /\ \A i \in 1 .. Len(s) : (s \o t)[i] = s[i]
      /\ s \o t \in Seq(Units)
  BY ConcatParts, ConcatProperties
<1>2. /\ \A j \in f .. l + 1 : j \in Int /\ at[j] \in Int
      /\ \A j \in f .. l : /\ extent[j] \in Nat /\ at[j + 1] = at[j] + extent[j]
                           /\ at[j] \in Int /\ at[j + 1] \in Int
      /\ \A j \in f .. l : \A p \in 1 .. extent[j] : at[j] + p >= 1 =>
            at[j] + p \in 1 .. Len(s \o t) /\ (s \o t)[at[j] + p] = <<frame[j], p>>
  <2>1. Framed(at, f, l, frame, extent, s \o t)
    BY <1>0, <1>1, LayoutFrames
  <2> QED
    BY <2>1 DEF Framed
<1>3. /\ at[f] = base /\ at[l + 1] = Len(s) + Len(t)
      /\ \A i, j \in f .. l + 1 : i <= j => at[i] <= at[j]
  BY <1>1 DEF Layout
<1> DEFINE at2 == [j \in f .. l |-> at[j]]
<1>4. at2 \in [f .. l -> Int] /\ \A j \in f .. l : at2[j] = at[j] /\ j \in f .. l + 1
  <2>1. \A j \in f .. l : at[j] \in Int /\ j \in f .. l + 1
    BY <1>2
  <2> QED
    BY <2>1
<1> HIDE DEF at2
<1>5. l \in f .. l /\ f \in f .. l /\ at2[f] = base /\ at2[l] = at[l] /\ at[l] = Len(s)
  BY <1>1, <1>2, <1>3, <1>4
<1>6. \A j \in f .. l - 1 : j \in f .. l /\ j + 1 \in f .. l /\ j + 1 <= l
  OBVIOUS
<1>7. \A j \in f .. l - 1 : extent2[j] \in Nat /\ at2[j + 1] = at2[j] + extent2[j]
  BY <1>2, <1>4, <1>6
<1>8. ASSUME NEW j \in f .. l - 1, NEW p \in 1 .. extent2[j], at2[j] + p >= 1
      PROVE  s[at2[j] + p] = <<frame2[j], p>>
  <2>1. /\ at2[j] = at[j] /\ at[j] \in Int /\ extent[j] \in Nat /\ p \in 1 .. extent[j]
        /\ at[j + 1] = at[j] + extent[j] /\ frame2[j] = frame[j]
    BY <1>2, <1>4, <1>6
  <2>2. at[j + 1] <= Len(s)
    BY <1>3, <1>4, <1>5, <1>6
  <2>3. (s \o t)[at[j] + p] = <<frame[j], p>>
    BY <1>2, <1>6, <1>8, <2>1
  <2>4. at[j] + p \in 1 .. Len(s)
    BY <1>1, <1>8, <2>1, <2>2
  <2> QED
    BY <1>1, <2>1, <2>3, <2>4
<1>9. \A i, j \in f .. l : i <= j => at2[i] <= at2[j]
  BY <1>3, <1>4
<1>10. Layout(at2, f, l - 1, frame2, extent2, base, s)
  <2>1. l - 1 + 1 = l
    OBVIOUS
  <2> QED
    BY <1>1, <1>4, <1>5, <1>7, <1>8, <1>9, <2>1 DEF Layout
<1>11. base < 0 => f # l
  BY <1>1, <1>3, <1>5
<1> QED
  BY <1>10, <1>11

\* The begin is read.
LEMMA LayoutRead ==
    ASSUME NEW f \in Nat, NEW l \in Nat, f <= l + 1, NEW base \in Int, NEW at,
           NEW s \in Seq(Units), NEW t \in Seq(Units), NEW frame, NEW extent,
           Layout(at, f, l, frame, extent, base, s \o t)
    PROVE  \E at2 : Layout(at2, f, l, frame, extent, base - Len(s), t)
<1>0. f <= l + 1
  OBVIOUS
<1>1. /\ Len(s) \in Nat /\ Len(t) \in Nat /\ Len(s \o t) = Len(s) + Len(t)
      /\ \A i \in 1 .. Len(t) : (s \o t)[Len(s) + i] = t[i]
      /\ s \o t \in Seq(Units)
  BY ConcatParts, ConcatProperties
<1>2. /\ \A j \in f .. l + 1 : j \in Int /\ at[j] \in Int
      /\ \A j \in f .. l : /\ extent[j] \in Nat /\ at[j + 1] = at[j] + extent[j]
                           /\ at[j] \in Int /\ at[j + 1] \in Int
      /\ \A j \in f .. l : \A p \in 1 .. extent[j] : at[j] + p >= 1 =>
            at[j] + p \in 1 .. Len(s \o t) /\ (s \o t)[at[j] + p] = <<frame[j], p>>
  <2>1. Framed(at, f, l, frame, extent, s \o t)
    BY <1>0, <1>1, LayoutFrames
  <2> QED
    BY <2>1 DEF Framed
<1>3. /\ at[f] = base /\ at[l + 1] = Len(s) + Len(t)
      /\ \A i, j \in f .. l + 1 : i <= j => at[i] <= at[j]
  BY <1>1 DEF Layout
<1> DEFINE at2 == [j \in f .. l + 1 |-> at[j] - Len(s)]
<1>4. at2 \in [f .. l + 1 -> Int] /\ \A j \in f .. l + 1 : at2[j] = at[j] - Len(s)
  BY <1>1, <1>2
<1> HIDE DEF at2
<1>5. at2[f] = base - Len(s) /\ at2[l + 1] = Len(t)
  BY <1>1, <1>3, <1>4
<1>6. \A j \in f .. l : j \in f .. l + 1 /\ j + 1 \in f .. l + 1
  OBVIOUS
<1>7. \A j \in f .. l : extent[j] \in Nat /\ at2[j + 1] = at2[j] + extent[j]
  <2> TAKE j \in f .. l
  <2>1. /\ at2[j] = at[j] - Len(s) /\ at2[j + 1] = at[j + 1] - Len(s)
        /\ at[j + 1] = at[j] + extent[j] /\ extent[j] \in Nat /\ at[j] \in Int
    BY <1>2, <1>4, <1>6
  <2> QED
    BY <1>1, <2>1
<1>8. ASSUME NEW j \in f .. l, NEW p \in 1 .. extent[j], at2[j] + p >= 1
      PROVE  t[at2[j] + p] = <<frame[j], p>>
  <2>1. at2[j] = at[j] - Len(s) /\ at[j] \in Int /\ extent[j] \in Nat /\ p \in Int
    BY <1>2, <1>4, <1>6
  <2>2. at[j] + p >= 1
    BY <1>1, <1>8, <2>1
  <2>3. at[j] + p \in 1 .. Len(s \o t) /\ (s \o t)[at[j] + p] = <<frame[j], p>>
    BY <1>2, <2>2
  <2> DEFINE q == at2[j] + p
  <2>4. q \in 1 .. Len(t) /\ at[j] + p = Len(s) + q
    <3>1. at[j] + p <= Len(s) + Len(t)
      BY <1>1, <2>3
    <3> QED
      BY <1>1, <1>8, <2>1, <3>1
  <2> HIDE DEF q
  <2>5. t[q] = <<frame[j], p>>
    BY <1>1, <2>3, <2>4
  <2> QED
    BY <2>5 DEF q
<1>9. \A i, j \in f .. l + 1 : i <= j => at2[i] <= at2[j]
  <2> TAKE i, j \in f .. l + 1
  <2>1. /\ at2[i] = at[i] - Len(s) /\ at2[j] = at[j] - Len(s) /\ at[i] \in Int /\ at[j] \in Int
        /\ i <= j => at[i] <= at[j]
    BY <1>2, <1>3, <1>4
  <2> QED
    BY <1>1, <2>1
<1>10. Layout(at2, f, l, frame, extent, base - Len(s), t)
  BY <1>4, <1>5, <1>7, <1>8, <1>9 DEF Layout
<1> QED
  BY <1>10

\* The first frame has been read.
LEMMA LayoutNext ==
    ASSUME NEW f \in Nat, NEW l \in Nat, f <= l, NEW base \in Int, NEW at,
           NEW flow, NEW frame, NEW extent, Layout(at, f, l, frame, extent, base, flow)
    PROVE  \E at2 : Layout(at2, f + 1, l, frame, extent, base + extent[f], flow)
<1> DEFINE at2 == [j \in f + 1 .. l + 1 |-> at[j]]
<1>1. /\ at \in [f .. l + 1 -> Int] /\ at[f] = base /\ at[l + 1] = Len(flow)
      /\ \A j \in f .. l : extent[j] \in Nat /\ at[j + 1] = at[j] + extent[j]
      /\ \A j \in f .. l : \A p \in 1 .. extent[j] :
            at[j] + p >= 1 => flow[at[j] + p] = <<frame[j], p>>
      /\ \A i, j \in f .. l + 1 : i <= j => at[i] <= at[j]
  BY DEF Layout
<1>2. /\ at2 \in [f + 1 .. l + 1 -> Int] /\ at2[f + 1] = base + extent[f] /\ at2[l + 1] = Len(flow)
      /\ \A j \in f + 1 .. l + 1 : j \in f .. l + 1 /\ at2[j] = at[j]
  BY <1>1
<1> HIDE DEF at2
<1>3. /\ \A j \in f + 1 .. l : extent[j] \in Nat /\ at2[j + 1] = at2[j] + extent[j]
      /\ \A j \in f + 1 .. l : \A p \in 1 .. extent[j] :
            at2[j] + p >= 1 => flow[at2[j] + p] = <<frame[j], p>>
  <2>1. \A j \in f + 1 .. l : j \in f .. l /\ at2[j] = at[j] /\ at2[j + 1] = at[j + 1]
    BY <1>2
  <2> QED
    BY <1>1, <2>1
<1>4. \A i, j \in f + 1 .. l + 1 : i <= j => at2[i] <= at2[j]
  BY <1>1, <1>2
<1>5. Layout(at2, f + 1, l, frame, extent, base + extent[f], flow)
  BY <1>2, <1>3, <1>4 DEF Layout
<1> QED
  BY <1>5

\* Only the frames that are in the flow count.
LEMMA LayoutSame ==
    ASSUME NEW f \in Nat, NEW l \in Nat, NEW base, NEW at, NEW flow,
           NEW frame, NEW extent, NEW frame2, NEW extent2,
           Layout(at, f, l, frame, extent, base, flow),
           \A j \in f .. l : frame2[j] = frame[j] /\ extent2[j] = extent[j]
    PROVE  Layout(at, f, l, frame2, extent2, base, flow)
BY DEF Layout

-----------------------------------------------------------------------------
\* The segments in a queue, between the octets of ReleaseThread, are those that follow:
\* num[i] counts the segments up to the i-th message.
Queued(num) ==
    /\ num \in [0 .. Len(wire) -> 0 .. Len(whole)]
    /\ num[0] = Len(delivered) /\ num[Len(wire)] = Len(whole)
    /\ \A i \in 1 .. Len(wire) :
          \/ wire[i] = <<<<0, 1>>>> /\ num[i] = num[i - 1]
          \/ num[i] = num[i - 1] + 1 /\ wire[i] = Trn!Payload(whole[num[i]])

IsSent(s) == \E k \in 1 .. Len(whole) : s = Trn!Payload(whole[k])

MessagesOnTheWire ==
    /\ dev.kind = "queue" => DeliveredFirst /\ \E num : Queued(num)
    /\ dev.kind = "udp" => /\ \A i \in 1 .. Len(wire) : IsSent(wire[i])
                           /\ \A i \in 1 .. Len(delivered) : IsSent(delivered[i])

TransportIInv ==
    TransportTypeOK /\ LeftToSend /\ BeingReceived /\ UnitsInOrder /\ InStep /\ MessagesOnTheWire

\* A segment is a list of units.
LEMMA PayloadUnits ==
    ASSUME Trn!TransportConstants, TransportTypeOK, NEW n \in 1 .. Len(segs)
    PROVE  /\ segs[n] \in Sizes /\ segs[n] \in Nat /\ segs[n] >= SegData /\ segs[n] > 1
           /\ Trn!Payload(n) \in Seq(Units) /\ Len(Trn!Payload(n)) = segs[n]
           /\ \A p \in 1 .. segs[n] : Trn!Payload(n)[p] = <<n, 2 + p>>
<1>1. segs \in Seq(Sizes)
  BY DEF TransportTypeOK
<1>2. segs[n] \in Sizes /\ segs[n] \in Nat /\ segs[n] >= SegData /\ segs[n] > 1 /\ n \in Nat
  <2>1. segs[n] \in Sizes
    BY <1>1, ElementOfSeq
  <2>2. Len(segs) \in Nat
    BY <1>1, LenProperties
  <2>3. \A x \in Sizes : x \in Nat /\ x >= SegData /\ x > 1
    BY DEF Trn!TransportConstants
  <2> QED
    BY <2>1, <2>2, <2>3
<1>3. Trn!Payload(n) = [i \in 1 .. segs[n] |-> <<n, 2 + i>>]
  BY DEF Trn!Payload, Trn!HeaderLen
<1>4. Trn!Payload(n) \in [1 .. segs[n] -> Units]
  BY <1>2, <1>3 DEF Units
<1> QED
  BY <1>2, <1>3, <1>4, FunctionIsSeq

\* So is a header.
LEMMA HeaderUnits ==
    ASSUME NEW n \in Nat
    PROVE  /\ Trn!Header(n) \in Seq(Units) /\ Len(Trn!Header(n)) = 2
           /\ \A p \in 1 .. 2 : Trn!Header(n)[p] = <<n, p>>
<1>1. Trn!Header(n) = <<<<n, 1>>, <<n, 2>>>>
  BY DEF Trn!Header
<1>2. <<n, 1>> \in Units /\ <<n, 2>> \in Units
  BY DEF Units
<1>3. \A p \in 1 .. 2 : p = 1 \/ p = 2
  OBVIOUS
<1> QED
  BY <1>1, <1>2, <1>3

\* The flow is a list of units.
LEMMA FlowType ==
    ASSUME TransportTypeOK, Trn!IsStream
    PROVE  /\ rcv.buf \in Seq(Units) /\ wire \in Seq(Units) /\ snd.left \in Seq(Units)
           /\ rcv.buf \o wire \in Seq(Units) /\ Flow \in Seq(Units)
           /\ Len(Flow) = Len(rcv.buf) + Len(wire) + Len(snd.left)
<1>1. rcv.buf \in Seq(Units) /\ wire \in Seq(Units) /\ snd.left \in Seq(Units)
  BY DEF TransportTypeOK
<1>2. rcv.buf \o wire \in Seq(Units) /\ Len(rcv.buf \o wire) = Len(rcv.buf) + Len(wire)
  BY <1>1, ConcatProperties
<1> QED
  BY <1>1, <1>2, ConcatProperties DEF Flow

\* The frames, by number.
LEMMA FrameTypes ==
    ASSUME Trn!TransportConstants, TransportTypeOK, LeftToSend
    PROVE  /\ Len(whole) \in Nat /\ LastFrame \in Nat /\ Len(segs) \in Nat /\ Len(delivered) \in Nat
           /\ LastFrame = IF snd.op = "idle" THEN Len(whole) ELSE Len(whole) + 1
           /\ \A j \in 1 .. LastFrame :
                 /\ Frames[j] = IF j <= Len(whole) THEN whole[j] ELSE Len(segs)
                 /\ Frames[j] \in 1 .. Len(segs)
                 /\ Extents[j] = 2 + IF j > Len(whole) /\ snd.op = "header" THEN 0
                                     ELSE segs[Frames[j]]
                 /\ segs[Frames[j]] \in Nat /\ segs[Frames[j]] > 1 /\ Extents[j] \in Nat
<1>1. /\ Len(whole) \in Nat /\ Len(segs) \in Nat /\ Len(delivered) \in Nat
  BY LenProperties DEF TransportTypeOK
<1>2. /\ LastFrame \in Nat
      /\ LastFrame = IF snd.op = "idle" THEN Len(whole) ELSE Len(whole) + 1
  BY <1>1 DEF LastFrame
<1>3. ASSUME NEW j \in 1 .. LastFrame
      PROVE  /\ Frames[j] = IF j <= Len(whole) THEN whole[j] ELSE Len(segs)
             /\ Frames[j] \in 1 .. Len(segs)
             /\ Extents[j] = 2 + IF j > Len(whole) /\ snd.op = "header" THEN 0
                                 ELSE segs[Frames[j]]
  <2>1. Frames[j] = IF j <= Len(whole) THEN whole[j] ELSE Len(segs)
    BY DEF Frames
  <2>2. Frames[j] \in 1 .. Len(segs)
    <3>1. CASE j <= Len(whole)
      <4>1. j \in 1 .. Len(whole)
        BY <1>1, <1>2, <3>1
      <4> QED
        BY <2>1, <3>1, <4>1 DEF TransportTypeOK
    <3>2. CASE ~(j <= Len(whole))
      BY <1>1, <1>2, <2>1, <3>2 DEF LeftToSend
    <3> QED
      BY <3>1, <3>2
  <2> QED
    BY <2>1, <2>2 DEF Extents
<1>4. \A j \in 1 .. LastFrame : segs[Frames[j]] \in Nat /\ segs[Frames[j]] > 1
  BY <1>3, PayloadUnits
<1> QED
  BY <1>1, <1>2, <1>3, <1>4

\* The invariant says what DeliveredIsSent says.
LEMMA TransportInvariant ==
    ASSUME Trn!TransportConstants, TransportIInv PROVE Trn!DeliveredIsSent
<1> DEFINE handed == [i \in DOMAIN whole |-> Trn!Payload(whole[i])]
<1>1. /\ whole \in Seq(Nat) /\ delivered \in Seq(Seq(Units))
      /\ Len(whole) \in Nat /\ Len(delivered) \in Nat
      /\ DOMAIN whole = 1 .. Len(whole) /\ DOMAIN delivered = 1 .. Len(delivered)
  BY LenProperties DEF TransportIInv, TransportTypeOK
<1>2. handed \in Seq(Seq(Units)) /\ Len(handed) = Len(whole)
      /\ \A k \in 1 .. Len(whole) : handed[k] = Trn!Payload(whole[k])
  <2>1. \A k \in 1 .. Len(whole) : Trn!Payload(whole[k]) \in Seq(Units)
    BY PayloadUnits DEF TransportIInv, TransportTypeOK
  <2>2. handed \in [1 .. Len(whole) -> Seq(Units)]
    BY <1>1, <2>1
  <2> QED
    BY <1>1, <2>2, FunctionIsSeq
<1> HIDE DEF handed
<1>3. ASSUME DeliveredFirst PROVE Trn!IsPrefix(delivered, handed)
  <2>1. SubSeq(delivered, 1, Len(delivered)) = delivered
    BY <1>1, SubSeqFull
  <2>2. /\ SubSeq(handed, 1, Len(delivered)) \in Seq(Seq(Units))
        /\ Len(SubSeq(handed, 1, Len(delivered))) = Len(delivered)
        /\ \A i \in 1 .. Len(delivered) : SubSeq(handed, 1, Len(delivered))[i] = handed[i]
    <3>1. \A i \in 1 .. Len(delivered) : i \in 1 .. Len(handed) /\ handed[i] \in Seq(Units)
      BY <1>1, <1>2, <1>3, ElementOfSeq DEF DeliveredFirst
    <3> QED
      BY <1>1, <3>1, SubSeqProperties
  <2>3. \A i \in 1 .. Len(delivered) : delivered[i] = handed[i]
    BY <1>1, <1>2, <1>3 DEF DeliveredFirst
  <2>4. delivered = SubSeq(handed, 1, Len(delivered))
    BY <1>1, <2>2, <2>3, SeqEqual
  <2> QED
    BY <1>2, <1>3, <2>1, <2>4 DEF DeliveredFirst, Trn!IsPrefix
<1>4. dev.kind = "queue" \/ (Trn!IsStream /\ ~cut) => Trn!IsPrefix(delivered, handed)
  BY <1>3 DEF TransportIInv, MessagesOnTheWire, InStep, DeliveredFirst
<1>5. dev.kind = "udp" => \A i \in DOMAIN delivered : Trn!Contains(handed, delivered[i])
  BY <1>1, <1>2 DEF TransportIInv, MessagesOnTheWire, IsSent, Trn!Contains
<1>6. Trn!IsStream =>
        \A i, j \in DOMAIN delivered :
           \A p \in DOMAIN delivered[i], q \in DOMAIN delivered[j] :
              i < j \/ (i = j /\ p < q) => Trn!Earlier(delivered[i][p], delivered[j][q])
  <2>1. \A i \in DOMAIN delivered : DOMAIN delivered[i] = 1 .. Len(delivered[i])
    BY <1>1, ElementOfSeq, LenProperties
  <2> QED
    BY <1>1, <2>1 DEF TransportIInv, UnitsInOrder, InOrder
<1> QED
  BY <1>4, <1>5, <1>6 DEF Trn!DeliveredIsSent, handed

-----------------------------------------------------------------------------
\* A stream stays in order and in step while its units and frames stay the same.
LEMMA StreamStays ==
    ASSUME UnitsInOrder, InStep, Trn!IsStream, Trn!IsStream', Flow' = Flow, snd'.op = snd.op,
           UNCHANGED <<segs, whole, delivered, cut>>,
           rcv'.op # "discard" \/ rcv.op = "discard", rcv'.op = "segment" <=> rcv.op = "segment",
           rcv'.op = "segment" => rcv'.want = rcv.want
    PROVE  UnitsInOrder' /\ InStep'
<1>1. LastFrame' = LastFrame
  BY DEF LastFrame
<1>2. Frames' = Frames
  BY <1>1 DEF Frames
<1>3. Extents' = Extents
  BY <1>1, <1>2 DEF Extents
<1>4. InStep'
  <2> SUFFICES ASSUME ~cut
               PROVE  /\ rcv'.op # "discard" /\ DeliveredFirst'
                      /\ rcv'.op = "segment" =>
                            /\ Len(delivered) + 1 <= LastFrame
                            /\ rcv'.want = segs[Frames[Len(delivered) + 1]]
                      /\ \E at : Layout(at, Len(delivered) + 1, LastFrame, Frames, Extents,
                                        IF rcv'.op = "segment" THEN -2 ELSE 0, Flow)
    BY <1>1, <1>2, <1>3 DEF InStep
  <2>1. DeliveredFirst'
    BY DEF InStep, DeliveredFirst, Trn!Payload
  <2> QED
    BY <2>1 DEF InStep
<1>5. UnitsInOrder'
  BY DEF UnitsInOrder, NotAhead, InOrder
<1> QED
  BY <1>4, <1>5

\* So do messages.
LEMMA MessagesStay ==
    ASSUME MessagesOnTheWire, dev'.kind = dev.kind, UNCHANGED <<wire, segs, whole, delivered>>
    PROVE  MessagesOnTheWire'
<1>1. \A n : Trn!Payload(n)' = Trn!Payload(n)
  BY DEF Trn!Payload
<1>2. DeliveredFirst' <=> DeliveredFirst
  BY <1>1 DEF DeliveredFirst
<1>3. \A num : Queued(num)' <=> Queued(num)
  BY <1>1 DEF Queued
<1>4. \A s : IsSent(s)' <=> IsSent(s)
  BY <1>1 DEF IsSent
<1> QED
  BY <1>2, <1>3, <1>4 DEF MessagesOnTheWire

\* At first nothing is on its way.
LEMMA TransportBegins == ASSUME Trn!TransportConstants, Trn!TransportInit PROVE TransportIInv
<1> USE DEF Trn!TransportInit
<1>1. /\ <<>> \in Seq(Units) /\ <<>> \in Seq(Sizes) /\ <<>> \in Seq(Nat) /\ <<>> \in Seq(Seq(Units))
      /\ Len(<<>>) = 0
  BY EmptySeq
<1>2. dev.kind = "none" /\ ~Trn!IsStream
  BY DEF Trn!IsStream, Trn!Streams
<1>3. snd \in [op : {"idle", "header", "segment"}, left : Seq(Units), tries : Nat]
      /\ snd.op = "idle" /\ snd.left = <<>>
  BY <1>1 DEF Trn!Idle
<1>4. rcv \in [op : {"idle", "header", "discard", "segment"}, want : Nat, buf : Seq(Units), tries : Nat]
      /\ rcv.op = "idle" /\ rcv.buf = <<>>
  BY <1>1 DEF Trn!NoRecv
<1>5. TransportTypeOK
  <2>1. dev \in [kind : Trn!Kinds \cup {"none"}, wr : BOOLEAN, rd : BOOLEAN, released : BOOLEAN]
        /\ cut \in BOOLEAN
    OBVIOUS
  <2>2. /\ segs \in Seq(Sizes) /\ whole \in Seq(Nat) /\ delivered \in Seq(Seq(Units))
        /\ wire \in Seq(IF Trn!IsStream THEN Units ELSE Seq(Units))
        /\ wire = <<>> /\ whole = <<>> /\ delivered = <<>>
    BY <1>1
  <2>3. \A k \in 1 .. Len(whole) : whole[k] \in 1 .. Len(segs)
    BY <1>1
  <2> QED
    BY <1>3, <1>4, <2>1, <2>2, <2>3 DEF TransportTypeOK
<1>6. LeftToSend /\ BeingReceived
  BY <1>2, <1>3, <1>4 DEF LeftToSend, BeingReceived
<1> QED
  BY <1>2, <1>5, <1>6 DEF TransportIInv, UnitsInOrder, InStep, MessagesOnTheWire

\* A device, opened or half closed, with nothing on its way when it is opened.
LEMMA DeviceKeeps ==
    ASSUME Trn!TransportConstants, TransportIInv,
           Trn!Complete \/ \E kind \in Trn!Kinds : Trn!Open(kind)
    PROVE  TransportIInv'
<1> USE DEF TransportIInv
<1>1. CASE Trn!Complete
  <2>1. dev' \in [kind : Trn!Kinds \cup {"none"}, wr : BOOLEAN, rd : BOOLEAN, released : BOOLEAN]
        /\ dev'.kind = dev.kind /\ Trn!IsStream' = Trn!IsStream
        /\ UNCHANGED <<wire, segs, snd, rcv, whole, delivered, cut>>
    BY <1>1 DEF Trn!Complete, TransportTypeOK, Trn!IsStream
  <2>2. TransportTypeOK'
    BY <2>1 DEF TransportTypeOK
  <2>3. LeftToSend' /\ BeingReceived'
    BY <2>1 DEF LeftToSend, BeingReceived, Trn!Payload
  <2>4. UnitsInOrder' /\ InStep'
    <3>1. CASE Trn!IsStream
      BY <2>1, <3>1, StreamStays DEF Flow
    <3>2. CASE ~Trn!IsStream
      BY <2>1, <3>2 DEF UnitsInOrder, InStep
    <3> QED
      BY <3>1, <3>2
  <2>5. MessagesOnTheWire'
    BY <2>1, MessagesStay
  <2> QED
    BY <2>2, <2>3, <2>4, <2>5
<1>2. ASSUME NEW kind \in Trn!Kinds, Trn!Open(kind) PROVE TransportIInv'
  <2>1. /\ dev.kind = "none" /\ dev'.kind = kind
        /\ dev' \in [kind : Trn!Kinds \cup {"none"}, wr : BOOLEAN, rd : BOOLEAN, released : BOOLEAN]
        /\ UNCHANGED <<wire, segs, snd, rcv, whole, delivered, cut>>
    <3>1. /\ dev.kind = "none" /\ dev' = [dev EXCEPT !.kind = kind, !.wr = TRUE, !.rd = TRUE]
          /\ UNCHANGED <<wire, segs, snd, rcv, whole, delivered, cut>>
      BY <1>2, Zenon DEF Trn!Open
    <3>2. dev \in [kind : Trn!Kinds \cup {"none"}, wr : BOOLEAN, rd : BOOLEAN, released : BOOLEAN]
      BY DEF TransportTypeOK
    <3> QED
      BY <3>1, <3>2
  <2>2. /\ wire = <<>> /\ whole = <<>> /\ delivered = <<>> /\ snd.op = "idle" /\ rcv.op = "idle"
        /\ snd.left = <<>> /\ rcv.buf = <<>>
    BY <2>1 DEF TransportTypeOK, LeftToSend, BeingReceived
  <2>3. /\ Len(wire) = 0 /\ Len(whole) = 0 /\ Len(delivered) = 0
        /\ wire \in Seq(Units) /\ wire \in Seq(Seq(Units)) /\ kind # "none"
    BY <2>2, EmptySeq DEF Trn!Kinds, Trn!Streams
  <2>4. TransportTypeOK'
    BY <2>1, <2>3 DEF TransportTypeOK
  <2>5. LeftToSend' /\ BeingReceived'
    BY <2>1, <2>2 DEF LeftToSend, BeingReceived
  <2>6. Flow' = <<>> /\ Len(Flow') = 0
    <3>1. Flow' = (<<>> \o <<>>) \o <<>>
      BY <2>1, <2>2 DEF Flow
    <3> QED
      BY <3>1
  <2>7. UnitsInOrder'
    <3>1. \A i \in 1 .. Len(Flow') : FALSE
      BY <2>6
    <3>2. \A i \in 1 .. Len(delivered') : FALSE
      BY <2>1, <2>3
    <3> QED
      BY <3>1, <3>2 DEF UnitsInOrder, InOrder, NotAhead
  <2>8. InStep'
    <3>1. LastFrame' = 0 /\ Len(delivered') = 0 /\ rcv'.op = "idle"
      BY <2>1, <2>2, <2>3 DEF LastFrame
    <3>2. DeliveredFirst'
      BY <2>1, <2>3 DEF DeliveredFirst
    <3>3. Layout([j \in 1 .. 1 |-> 0], 1, 0, Frames', Extents', 0, Flow')
      BY <2>6 DEF Layout
    <3>4. Len(delivered') + 1 = 1
      BY <3>1
    <3> QED
      BY <3>1, <3>2, <3>3, <3>4 DEF InStep
  <2>9. MessagesOnTheWire'
    <3>1. DeliveredFirst'
      BY <2>1, <2>3 DEF DeliveredFirst
    <3>2. Queued([i \in 0 .. 0 |-> 0])'
      BY <2>1, <2>3 DEF Queued
    <3>3. (\A i \in 1 .. Len(wire) : IsSent(wire[i]))' /\ (\A i \in 1 .. Len(delivered) : IsSent(delivered[i]))'
      BY <2>1, <2>3
    <3> QED
      BY <3>1, <3>2, <3>3 DEF MessagesOnTheWire
  <2> QED
    BY <2>4, <2>5, <2>7, <2>8, <2>9
<1> QED
  BY <1>1, <1>2

\* The list r is q without its i-th element.
Without(S, q, i, r) ==
    /\ i \in 1 .. Len(q) /\ r \in Seq(S) /\ Len(r) = Len(q) - 1
    /\ \A j \in 1 .. Len(q) - 1 : r[j] = IF j < i THEN q[j] ELSE q[j + 1]

\* A message is taken out of the wire.
LEMMA TakeOut ==
    ASSUME NEW S, NEW q \in Seq(S), NEW i \in DOMAIN q
    PROVE  Without(S, q, i, Trn!RemoveAt(q, i))
<1>1. i \in 1 .. Len(q)
  BY LenProperties
<1>2. Trn!RemoveAt(q, i) = RemoveAt(q, i)
  BY DEF Trn!RemoveAt, RemoveAt
<1> QED
  BY <1>1, <1>2, RemoveAtProperties DEF Without

\* Datagrams are lost and doubled.
LEMMA UdpKeeps ==
    ASSUME Trn!TransportConstants, TransportIInv, NEW i, Trn!UdpLose(i) \/ Trn!UdpDouble(i)
    PROVE  TransportIInv'
<1> USE DEF TransportIInv
<1>1. /\ dev.kind = "udp" /\ ~Trn!IsStream /\ i \in DOMAIN wire
      /\ UNCHANGED <<dev, segs, snd, rcv, whole, delivered, cut>>
  BY DEF Trn!UdpLose, Trn!UdpDouble, Trn!IsStream, Trn!Streams
<1>2. wire \in Seq(Seq(Units))
  BY <1>1 DEF TransportTypeOK
<1>3. /\ wire' \in Seq(Seq(Units))
      /\ \A j \in 1 .. Len(wire') : \E k \in 1 .. Len(wire) : wire'[j] = wire[k]
  <2>1. CASE Trn!UdpLose(i)
    <3>1. /\ wire' \in Seq(Seq(Units)) /\ Len(wire') = Len(wire) - 1 /\ Len(wire) \in Nat
          /\ \A j \in 1 .. Len(wire) - 1 : wire'[j] = IF j < i THEN wire[j] ELSE wire[j + 1]
      <4>1. wire' = Trn!RemoveAt(wire, i) /\ Len(wire) \in Nat
        BY <1>2, <2>1, LenProperties DEF Trn!UdpLose
      <4>2. Without(Seq(Units), wire, i, Trn!RemoveAt(wire, i))
        BY <1>1, <1>2, TakeOut
      <4> QED
        BY <4>1, <4>2 DEF Without
    <3>2. \A j \in 1 .. Len(wire') : j \in 1 .. Len(wire) /\ j + 1 \in 1 .. Len(wire)
      BY <3>1
    <3> QED
      BY <3>1, <3>2
  <2>2. CASE Trn!UdpDouble(i)
    <3>1. wire' = Append(wire, wire[i]) /\ i \in 1 .. Len(wire) /\ wire[i] \in Seq(Units)
      BY <1>1, <1>2, <2>2, LenProperties, ElementOfSeq DEF Trn!UdpDouble
    <3> QED
      BY <1>2, <3>1, AppendProperties
  <2> QED
    BY <2>1, <2>2
<1>4. TransportTypeOK'
  BY <1>1, <1>3 DEF TransportTypeOK, Trn!IsStream
<1>5. LeftToSend' /\ BeingReceived'
  BY <1>1 DEF LeftToSend, BeingReceived, Trn!IsStream, Trn!Payload
<1>6. UnitsInOrder' /\ InStep'
  BY <1>1 DEF UnitsInOrder, InStep, Trn!IsStream
<1>7. MessagesOnTheWire'
  <2>1. \A s : IsSent(s)' <=> IsSent(s)
    BY <1>1 DEF IsSent, Trn!Payload
  <2> QED
    BY <1>1, <1>3, <2>1 DEF MessagesOnTheWire
<1> QED
  BY <1>4, <1>5, <1>6, <1>7

\* A queue or a datagram takes the whole segment.
LEMMA MessageSendKeeps ==
    ASSUME Trn!TransportConstants, TransportIInv, Trn!MessageSend PROVE TransportIInv'
<1> USE DEF TransportIInv
<1>1. PICK n, m :
      /\ n = Len(segs) /\ m = Trn!Payload(n)
      /\ ~Trn!IsStream /\ snd.op = "segment" /\ snd.left = m /\ n > 0
      /\ wire' = Append(wire, m) /\ snd' = Trn!Idle /\ whole' = Append(whole, n)
      /\ UNCHANGED <<dev, segs, rcv, delivered, cut>>
  BY DEF Trn!MessageSend, Trn!Written, LeftToSend
<1>2. /\ wire \in Seq(Seq(Units)) /\ whole \in Seq(Nat) /\ n \in Nat /\ n \in 1 .. Len(segs)
      /\ Len(wire) \in Nat /\ Len(whole) \in Nat
  <2>1. wire \in Seq(Seq(Units)) /\ whole \in Seq(Nat) /\ n \in Nat
    BY <1>1, LenProperties DEF TransportTypeOK
  <2>2. Len(wire) \in Nat /\ Len(whole) \in Nat
    BY <2>1, LenProperties
  <2> QED
    BY <1>1, <2>1, <2>2
<1>3. m \in Seq(Units) /\ Len(m) = segs[n]
  BY <1>1, <1>2, PayloadUnits
<1>4. /\ wire' \in Seq(Seq(Units)) /\ Len(wire') = Len(wire) + 1 /\ wire'[Len(wire) + 1] = m
      /\ \A j \in 1 .. Len(wire) : wire'[j] = wire[j]
  BY <1>1, <1>2, <1>3, AppendProperties
<1>5. /\ whole' \in Seq(Nat) /\ Len(whole') = Len(whole) + 1 /\ whole'[Len(whole) + 1] = n
      /\ \A k \in 1 .. Len(whole) : whole'[k] = whole[k]
  BY <1>1, <1>2, AppendProperties
<1>6. snd' \in [op : {"idle", "header", "segment"}, left : Seq(Units), tries : Nat]
      /\ snd'.op = "idle" /\ snd'.left = <<>>
  BY <1>1, EmptySeq DEF Trn!Idle
<1>7. TransportTypeOK'
  <2>1. \A k \in 1 .. Len(whole') : whole'[k] \in 1 .. Len(segs')
    <3>1. \A k \in 1 .. Len(whole') : k \in 1 .. Len(whole) \/ k = Len(whole) + 1
      BY <1>2, <1>5
    <3> QED
      BY <1>1, <1>2, <1>5, <3>1 DEF TransportTypeOK
  <2>2. ~Trn!IsStream' /\ dev.kind # "none"
    BY <1>1 DEF Trn!IsStream, TransportTypeOK
  <2> QED
    BY <1>1, <1>4, <1>5, <1>6, <2>1, <2>2 DEF TransportTypeOK
<1>8. LeftToSend' /\ BeingReceived'
  BY <1>1, <1>6 DEF LeftToSend, BeingReceived
<1>9. UnitsInOrder' /\ InStep'
  BY <1>1 DEF UnitsInOrder, InStep, Trn!IsStream
<1>10. \A k : Trn!Payload(k)' = Trn!Payload(k)
  BY <1>1 DEF Trn!Payload
<1>11. ASSUME dev'.kind = "queue" PROVE DeliveredFirst' /\ \E num : Queued(num)'
  <2>1. dev.kind = "queue"
    BY <1>1, <1>11
  <2>2. Len(delivered) <= Len(whole) /\ Len(delivered) \in Nat
    BY <2>1, LenProperties DEF MessagesOnTheWire, DeliveredFirst, TransportTypeOK
  <2>3. DeliveredFirst'
    <3>1. \A k \in 1 .. Len(delivered) : k \in 1 .. Len(whole)
      BY <1>2, <2>2
    <3> QED
      BY <1>1, <1>2, <1>5, <1>10, <2>1, <2>2, <3>1 DEF MessagesOnTheWire, DeliveredFirst
  <2>4. PICK num : Queued(num)
    BY <2>1 DEF MessagesOnTheWire
  <2>5. PICK num2 : num2 = [i \in 0 .. Len(wire) + 1 |->
                               IF i = Len(wire) + 1 THEN Len(whole) + 1 ELSE num[i]]
    OBVIOUS
  <2>6. /\ num \in [0 .. Len(wire) -> 0 .. Len(whole)]
        /\ num[0] = Len(delivered) /\ num[Len(wire)] = Len(whole)
        /\ \A i \in 1 .. Len(wire) :
              \/ wire[i] = <<<<0, 1>>>> /\ num[i] = num[i - 1]
              \/ num[i] = num[i - 1] + 1 /\ wire[i] = Trn!Payload(whole[num[i]])
    BY <2>4 DEF Queued
  <2>7. /\ num2 \in [0 .. Len(wire) + 1 -> 0 .. Len(whole) + 1] /\ num2[Len(wire) + 1] = Len(whole) + 1
        /\ \A i \in 0 .. Len(wire) : num2[i] = num[i] /\ num[i] \in 0 .. Len(whole)
    <3>1. \A i \in 0 .. Len(wire) : num[i] \in 0 .. Len(whole) /\ i # Len(wire) + 1 /\ i \in 0 .. Len(wire) + 1
      BY <1>2, <2>6
    <3>2. \A i \in 0 .. Len(wire) + 1 : i \in 0 .. Len(wire) \/ i = Len(wire) + 1
      BY <1>2
    <3>3. Len(wire) + 1 \in 0 .. Len(wire) + 1 /\ Len(whole) + 1 \in 0 .. Len(whole) + 1
          /\ 0 .. Len(whole) \subseteq 0 .. Len(whole) + 1
      BY <1>2
    <3> QED
      BY <2>5, <3>1, <3>2, <3>3
  <2>8. ASSUME NEW i \in 1 .. Len(wire) + 1
        PROVE  \/ wire'[i] = <<<<0, 1>>>> /\ num2[i] = num2[i - 1]
               \/ num2[i] = num2[i - 1] + 1 /\ wire'[i] = Trn!Payload(whole'[num2[i]])
    <3>1. CASE i = Len(wire) + 1
      <4>1. i - 1 = Len(wire) /\ i - 1 \in 0 .. Len(wire)
        BY <1>2, <3>1
      <4>2. num2[i - 1] = Len(whole) /\ num2[i] = Len(whole) + 1
        BY <2>6, <2>7, <3>1, <4>1
      <4> QED
        BY <1>1, <1>4, <1>5, <3>1, <4>2
    <3>2. CASE i \in 1 .. Len(wire)
      <4>1. i \in 0 .. Len(wire) /\ i - 1 \in 0 .. Len(wire)
        BY <3>2
      <4>2. num2[i] = num[i] /\ num2[i - 1] = num[i - 1] /\ wire'[i] = wire[i]
        BY <1>4, <2>7, <3>2, <4>1
      <4>3. CASE wire[i] = <<<<0, 1>>>> /\ num[i] = num[i - 1]
        BY <4>2, <4>3
      <4>4. CASE num[i] = num[i - 1] + 1 /\ wire[i] = Trn!Payload(whole[num[i]])
        <5>1. num[i] \in 1 .. Len(whole)
          BY <2>7, <4>1, <4>4
        <5> QED
          BY <1>5, <4>2, <4>4, <5>1
      <4> QED
        BY <2>6, <3>2, <4>3, <4>4
    <3> QED
      BY <1>2, <3>1, <3>2
  <2>9. num2[0] = Len(delivered)
    BY <1>2, <2>6, <2>7
  <2>10. Queued(num2)'
    <3>1. /\ num2 \in [0 .. Len(wire') -> 0 .. Len(whole')] /\ num2[Len(wire')] = Len(whole')
          /\ num2[0] = Len(delivered')
      BY <1>1, <1>4, <1>5, <2>7, <2>9
    <3>2. \A i \in 1 .. Len(wire') :
             \/ wire'[i] = <<<<0, 1>>>> /\ num2[i] = num2[i - 1]
             \/ num2[i] = num2[i - 1] + 1 /\ wire'[i] = Trn!Payload(whole[num2[i]])'
      BY <1>4, <1>10, <2>8
    <3> QED
      BY <3>1, <3>2 DEF Queued
  <2> QED
    BY <2>3, <2>10
<1>12. ASSUME dev'.kind = "udp"
       PROVE  (\A i \in 1 .. Len(wire) : IsSent(wire[i]))' /\ (\A i \in 1 .. Len(delivered) : IsSent(delivered[i]))'
  <2>1. \A s : IsSent(s) => IsSent(s)'
    <3>1. \A k \in 1 .. Len(whole) : k \in 1 .. Len(whole')
      BY <1>2, <1>5
    <3> QED
      BY <1>5, <1>10, <3>1 DEF IsSent
  <2>2. IsSent(m)'
    <3>1. Len(whole) + 1 \in 1 .. Len(whole') /\ m = Trn!Payload(whole'[Len(whole) + 1])
      BY <1>1, <1>2, <1>5
    <3> QED
      BY <1>10, <3>1 DEF IsSent
  <2>3. \A i \in 1 .. Len(wire') : i \in 1 .. Len(wire) \/ i = Len(wire) + 1
    BY <1>2, <1>4
  <2>4. (\A i \in 1 .. Len(wire) : IsSent(wire[i]))'
    BY <1>1, <1>4, <1>12, <2>1, <2>2, <2>3 DEF MessagesOnTheWire
  <2>5. (\A i \in 1 .. Len(delivered) : IsSent(delivered[i]))'
    BY <1>1, <1>12, <2>1 DEF MessagesOnTheWire
  <2> QED
    BY <2>4, <2>5
<1>13. MessagesOnTheWire'
  BY <1>11, <1>12 DEF MessagesOnTheWire
<1> QED
  BY <1>7, <1>8, <1>9, <1>13

\* Recv returns, with a segment or without.
LEMMA ReturnShape ==
    ASSUME Trn!TransportConstants, TransportTypeOK, NEW message \in Seq(Units), Trn!Return(message)
    PROVE  /\ rcv' \in [op : {"idle", "header", "discard", "segment"}, want : Nat, buf : Seq(Units),
                        tries : Nat]
           /\ rcv'.op = "idle" /\ rcv'.buf = <<>>
           /\ delivered' = IF Len(message) >= SegData THEN Append(delivered, message) ELSE delivered
           /\ delivered' \in Seq(Seq(Units))
<1>1. rcv' = Trn!NoRecv
      /\ delivered' = IF Len(message) >= SegData THEN Append(delivered, message) ELSE delivered
  BY DEF Trn!Return
<1>2. delivered' \in Seq(Seq(Units))
  BY <1>1, AppendProperties DEF TransportTypeOK
<1> QED
  BY <1>1, <1>2, EmptySeq DEF Trn!NoRecv

\* The oldest message of a queue is the next one that was sent, or of ReleaseThread.
LEMMA QueueRecvKeeps ==
    ASSUME Trn!TransportConstants, TransportIInv, Trn!MessageRecv(1), dev.kind = "queue"
    PROVE  DeliveredFirst' /\ \E num : Queued(num)'
<1> USE DEF TransportIInv
<1>1. /\ 1 \in DOMAIN wire /\ wire' = Trn!RemoveAt(wire, 1) /\ Trn!Return(wire[1])
      /\ UNCHANGED <<dev, segs, snd, whole, cut>> /\ wire \in Seq(Seq(Units))
  BY DEF Trn!MessageRecv, TransportTypeOK
<1>2. /\ Len(wire) \in Nat /\ 1 \in 1 .. Len(wire) /\ wire[1] \in Seq(Units)
      /\ Len(wire') = Len(wire) - 1
      /\ \A j \in 1 .. Len(wire) - 1 : wire'[j] = wire[j + 1]
  <2>0. wire \in Seq(Seq(Units)) /\ 1 \in DOMAIN wire
    BY <1>1
  <2>1. Without(Seq(Units), wire, 1, wire')
    <3>1. Without(Seq(Units), wire, 1, Trn!RemoveAt(wire, 1))
      BY <2>0, TakeOut
    <3> QED
      BY <1>1, <3>1
  <2>2. /\ 1 \in 1 .. Len(wire) /\ Len(wire') = Len(wire) - 1
        /\ \A j \in 1 .. Len(wire) - 1 : wire'[j] = IF j < 1 THEN wire[j] ELSE wire[j + 1]
    BY <2>1 DEF Without
  <2>3. \A j \in 1 .. Len(wire) - 1 : wire'[j] = wire[j + 1]
    BY <2>2
  <2>4. Len(wire) \in Nat /\ wire[1] \in Seq(Units)
    BY <2>0, <2>2, LenProperties, ElementOfSeq
  <2> QED
    BY <2>2, <2>3, <2>4
<1>3. delivered' = IF Len(wire[1]) >= SegData THEN Append(delivered, wire[1]) ELSE delivered
  BY <1>1, <1>2, ReturnShape
<1>4. /\ Len(whole) \in Nat /\ Len(delivered) \in Nat /\ delivered \in Seq(Seq(Units))
      /\ \A k \in 1 .. Len(whole) : whole[k] \in 1 .. Len(segs)
  BY LenProperties DEF TransportTypeOK
<1>5. \A k : Trn!Payload(k)' = Trn!Payload(k)
  BY <1>1 DEF Trn!Payload
<1>6. PICK num : Queued(num)
  BY DEF MessagesOnTheWire
<1>7. /\ num \in [0 .. Len(wire) -> 0 .. Len(whole)]
      /\ num[0] = Len(delivered) /\ num[Len(wire)] = Len(whole)
      /\ \A i \in 1 .. Len(wire) :
            \/ wire[i] = <<<<0, 1>>>> /\ num[i] = num[i - 1]
            \/ num[i] = num[i - 1] + 1 /\ wire[i] = Trn!Payload(whole[num[i]])
  BY <1>6 DEF Queued
<1>8. num[1] = Len(delivered') /\ DeliveredFirst'
  <2>1. 1 - 1 = 0 /\ 1 \in 0 .. Len(wire) /\ num[1] \in 0 .. Len(whole)
    BY <1>2, <1>7
  <2>2. DeliveredFirst
    BY DEF MessagesOnTheWire
  <2>3. CASE wire[1] = <<<<0, 1>>>> /\ num[1] = num[0]
    <3>1. Len(wire[1]) = 1 /\ ~(1 >= SegData)
      BY <2>3 DEF Trn!TransportConstants
    <3>2. delivered' = delivered
      BY <1>3, <3>1
    <3> QED
      BY <1>1, <1>5, <1>7, <2>2, <2>3, <3>2 DEF DeliveredFirst
  <2>4. CASE num[1] = num[0] + 1 /\ wire[1] = Trn!Payload(whole[num[1]])
    <3>1. num[1] = Len(delivered) + 1 /\ num[1] \in 1 .. Len(whole)
      BY <1>4, <1>7, <2>1, <2>4
    <3>2. whole[num[1]] \in 1 .. Len(segs)
      BY <1>4, <3>1
    <3>3. Len(wire[1]) >= SegData
      BY <2>4, <3>2, PayloadUnits
    <3>4. /\ delivered' = Append(delivered, wire[1]) /\ Len(delivered') = Len(delivered) + 1
          /\ delivered'[Len(delivered) + 1] = wire[1]
          /\ \A k \in 1 .. Len(delivered) : delivered'[k] = delivered[k]
      BY <1>2, <1>3, <1>4, <3>3, AppendProperties
    <3>5. ASSUME NEW k \in 1 .. Len(delivered') PROVE delivered'[k] = Trn!Payload(whole[k])
      <4>1. CASE k \in 1 .. Len(delivered)
        BY <2>2, <3>4, <4>1 DEF DeliveredFirst
      <4>2. CASE k = Len(delivered) + 1
        BY <2>4, <3>1, <3>4, <4>2
      <4> QED
        BY <1>4, <3>4, <4>1, <4>2
    <3> QED
      BY <1>1, <1>4, <1>5, <3>1, <3>4, <3>5 DEF DeliveredFirst
  <2> QED
    BY <1>2, <1>7, <2>1, <2>3, <2>4
<1>9. PICK num2 : num2 = [i \in 0 .. Len(wire) - 1 |-> num[i + 1]]
  OBVIOUS
<1>10. /\ num2 \in [0 .. Len(wire) - 1 -> 0 .. Len(whole)]
       /\ \A i \in 0 .. Len(wire) - 1 : num2[i] = num[i + 1]
  <2>1. \A i \in 0 .. Len(wire) - 1 : i + 1 \in 0 .. Len(wire)
    BY <1>2
  <2> QED
    BY <1>7, <1>9, <2>1
<1>11. num2[0] = Len(delivered') /\ num2[Len(wire) - 1] = Len(whole)
  <2>1. 0 + 1 = 1 /\ 0 \in 0 .. Len(wire) - 1 /\ Len(wire) - 1 \in 0 .. Len(wire) - 1
        /\ Len(wire) - 1 + 1 = Len(wire)
    BY <1>2
  <2> QED
    BY <1>7, <1>8, <1>10, <2>1
<1>12. ASSUME NEW i \in 1 .. Len(wire) - 1
       PROVE  \/ wire'[i] = <<<<0, 1>>>> /\ num2[i] = num2[i - 1]
              \/ num2[i] = num2[i - 1] + 1 /\ wire'[i] = Trn!Payload(whole[num2[i]])
  <2>1. /\ i + 1 \in 1 .. Len(wire) /\ i \in 0 .. Len(wire) - 1 /\ i - 1 \in 0 .. Len(wire) - 1
        /\ i - 1 + 1 = i /\ i + 1 - 1 = i
    BY <1>2
  <2>2. num2[i] = num[i + 1] /\ num2[i - 1] = num[i] /\ wire'[i] = wire[i + 1]
    BY <1>2, <1>10, <2>1
  <2>3. \/ wire[i + 1] = <<<<0, 1>>>> /\ num[i + 1] = num[i]
        \/ num[i + 1] = num[i] + 1 /\ wire[i + 1] = Trn!Payload(whole[num[i + 1]])
    BY <1>7, <2>1
  <2> QED
    BY <2>2, <2>3
<1>13. Queued(num2)'
  <2>1. \A i \in 1 .. Len(wire') :
             \/ wire'[i] = <<<<0, 1>>>> /\ num2[i] = num2[i - 1]
             \/ num2[i] = num2[i - 1] + 1 /\ wire'[i] = Trn!Payload(whole[num2[i]])'
    BY <1>1, <1>2, <1>5, <1>12
  <2> QED
    BY <1>1, <1>2, <1>10, <1>11, <2>1 DEF Queued
<1> QED
  BY <1>8, <1>13

\* A message is taken out of a queue or of the net.
LEMMA MessageRecvKeeps ==
    ASSUME Trn!TransportConstants, TransportIInv, NEW i, Trn!MessageRecv(i) PROVE TransportIInv'
<1> USE DEF TransportIInv
<1>1. /\ i \in DOMAIN wire /\ wire' = Trn!RemoveAt(wire, i) /\ Trn!Return(wire[i])
      /\ UNCHANGED <<dev, segs, snd, whole, cut>> /\ ~Trn!IsStream
      /\ wire \in Seq(Seq(Units)) /\ (dev.kind = "queue" => i = 1) /\ rcv.op # "idle"
  BY DEF Trn!MessageRecv, TransportTypeOK
<1>2. /\ i \in 1 .. Len(wire) /\ wire' \in Seq(Seq(Units)) /\ Len(wire') = Len(wire) - 1
      /\ \A j \in 1 .. Len(wire) - 1 : wire'[j] = IF j < i THEN wire[j] ELSE wire[j + 1]
  <2>0. wire \in Seq(Seq(Units)) /\ i \in DOMAIN wire
    BY <1>1
  <2>1. Without(Seq(Units), wire, i, wire')
    <3>1. Without(Seq(Units), wire, i, Trn!RemoveAt(wire, i))
      BY <2>0, TakeOut
    <3> QED
      BY <1>1, <3>1
  <2> QED
    BY <2>1 DEF Without
<1>3. Len(wire) \in Nat /\ wire[i] \in Seq(Units)
  BY <1>1, <1>2, LenProperties, ElementOfSeq
<1>4. /\ rcv' \in [op : {"idle", "header", "discard", "segment"}, want : Nat, buf : Seq(Units),
                   tries : Nat]
      /\ rcv'.op = "idle" /\ rcv'.buf = <<>>
      /\ delivered' = IF Len(wire[i]) >= SegData THEN Append(delivered, wire[i]) ELSE delivered
      /\ delivered' \in Seq(Seq(Units))
  BY <1>1, <1>3, ReturnShape
<1>5. TransportTypeOK'
  BY <1>1, <1>2, <1>4 DEF TransportTypeOK, Trn!IsStream
<1>6. LeftToSend' /\ BeingReceived'
  BY <1>1, <1>4 DEF LeftToSend, BeingReceived, Trn!IsStream, Trn!Payload
<1>7. UnitsInOrder' /\ InStep'
  BY <1>1 DEF UnitsInOrder, InStep, Trn!IsStream
<1>8. ASSUME dev'.kind = "udp"
      PROVE  (\A j \in 1 .. Len(wire) : IsSent(wire[j]))' /\ (\A j \in 1 .. Len(delivered) : IsSent(delivered[j]))'
  <2>1. \A s : IsSent(s)' <=> IsSent(s)
    BY <1>1 DEF IsSent, Trn!Payload
  <2>2. /\ \A j \in 1 .. Len(wire) : IsSent(wire[j])
        /\ \A j \in 1 .. Len(delivered) : IsSent(delivered[j])
    BY <1>1, <1>8 DEF MessagesOnTheWire
  <2>3. \A j \in 1 .. Len(wire') : IsSent(wire'[j])
    <3>1. \A j \in 1 .. Len(wire') : j \in 1 .. Len(wire) /\ j + 1 \in 1 .. Len(wire)
      BY <1>2, <1>3
    <3> QED
      BY <1>2, <2>2, <3>1
  <2>4. \A j \in 1 .. Len(delivered') : IsSent(delivered'[j])
    <3>1. delivered \in Seq(Seq(Units)) /\ IsSent(wire[i])
      BY <1>2, <2>2 DEF TransportTypeOK
    <3>2. CASE delivered' = delivered
      BY <2>2, <3>2
    <3>3. CASE delivered' = Append(delivered, wire[i])
      <4>1. /\ Len(delivered') = Len(delivered) + 1 /\ Len(delivered) \in Nat
            /\ delivered'[Len(delivered) + 1] = wire[i]
            /\ \A k \in 1 .. Len(delivered) : delivered'[k] = delivered[k]
        BY <1>3, <3>1, <3>3, AppendProperties, LenProperties
      <4>2. \A j \in 1 .. Len(delivered') : j \in 1 .. Len(delivered) \/ j = Len(delivered) + 1
        BY <4>1
      <4> QED
        BY <2>2, <3>1, <4>1, <4>2
    <3> QED
      BY <1>4, <3>2, <3>3
  <2> QED
    BY <2>1, <2>3, <2>4
<1>9. dev'.kind = "queue" => DeliveredFirst' /\ \E num : Queued(num)'
  BY <1>1, QueueRecvKeeps
<1>10. MessagesOnTheWire'
  BY <1>8, <1>9 DEF MessagesOnTheWire
<1> QED
  BY <1>5, <1>6, <1>7, <1>10

\* Recv begins.
LEMMA RecvSegmentKeeps ==
    ASSUME Trn!TransportConstants, TransportIInv, Trn!RecvSegment PROVE TransportIInv'
<1> USE DEF TransportIInv
<1>1. /\ dev.kind # "none" /\ rcv.op = "idle" /\ rcv.buf = <<>>
      /\ UNCHANGED <<dev, wire, segs, snd, whole, delivered, cut>>
  BY DEF Trn!RecvSegment, BeingReceived
<1>2. /\ rcv' \in [op : {"idle", "header", "discard", "segment"}, want : Nat, buf : Seq(Units),
                   tries : Nat]
      /\ rcv'.buf = <<>> /\ (rcv'.op = "header" => rcv'.want = 2)
      /\ (Trn!IsStream => rcv'.op = "header") /\ rcv'.op # "idle"
  <2>1. <<>> \in Seq(Units) /\ Retries \in Nat
    BY EmptySeq DEF Trn!TransportConstants
  <2> QED
    BY <2>1 DEF Trn!RecvSegment, Trn!NoRecv, Trn!HeaderLen
<1>3. TransportTypeOK' /\ LeftToSend' /\ BeingReceived'
  BY <1>1, <1>2 DEF TransportTypeOK, LeftToSend, BeingReceived, Trn!IsStream, Trn!Payload
<1>4. UnitsInOrder' /\ InStep'
  <2>1. CASE Trn!IsStream
    <3>1. Trn!IsStream' /\ Flow' = Flow
      BY <1>1, <1>2, <2>1 DEF Trn!IsStream, Flow
    <3> QED
      BY <1>1, <1>2, <2>1, <3>1, StreamStays
  <2>2. CASE ~Trn!IsStream
    BY <1>1, <2>2 DEF UnitsInOrder, InStep, Trn!IsStream
  <2> QED
    BY <2>1, <2>2
<1>5. MessagesOnTheWire'
  BY <1>1, MessagesStay
<1> QED
  BY <1>3, <1>4, <1>5

-----------------------------------------------------------------------------
\* A segment is handed to Send: of a stream, its header joins the flow.
LEMMA SendSegmentKeeps ==
    ASSUME Trn!TransportConstants, TransportIInv, NEW len \in Sizes, Trn!SendSegment(len)
    PROVE  TransportIInv'
<1> USE DEF TransportIInv
<1>1. PICK n :
      /\ n = Len(segs) + 1 /\ dev.kind # "none" /\ snd.op = "idle" /\ snd.left = <<>>
      /\ segs' = Append(segs, len)
      /\ snd' = [op |-> IF Trn!IsStream THEN "header" ELSE "segment",
                 left |-> IF Trn!IsStream THEN Trn!Header(n) ELSE [i \in 1 .. len |-> <<n, 2 + i>>],
                 tries |-> Retries]
      /\ UNCHANGED <<dev, wire, rcv, whole, delivered, cut>>
  BY DEF Trn!SendSegment, LeftToSend, Trn!HeaderLen
<1>2. /\ segs \in Seq(Sizes) /\ Len(segs) \in Nat /\ n \in Nat /\ n > 0
      /\ segs' \in Seq(Sizes) /\ Len(segs') = n /\ segs'[n] = len
      /\ \A k \in 1 .. Len(segs) : segs'[k] = segs[k]
  <2>1. segs \in Seq(Sizes)
    BY DEF TransportTypeOK
  <2> QED
    BY <1>1, <2>1, AppendProperties, LenProperties
<1>3. len \in Nat /\ len > 1 /\ Retries \in Nat
  BY DEF Trn!TransportConstants
<1>4. /\ Trn!Header(n) \in Seq(Units) /\ Len(Trn!Header(n)) = 2
      /\ \A p \in 1 .. 2 : Trn!Header(n)[p] = <<n, p>>
  BY <1>2, HeaderUnits
<1>5. [i \in 1 .. len |-> <<n, 2 + i>>] \in Seq(Units) /\ Len([i \in 1 .. len |-> <<n, 2 + i>>]) = len
  <2>1. [i \in 1 .. len |-> <<n, 2 + i>>] \in [1 .. len -> Units]
    BY <1>2, <1>3 DEF Units
  <2> QED
    BY <1>3, <2>1, FunctionIsSeq
<1>6. Trn!Payload(n)' = [i \in 1 .. len |-> <<n, 2 + i>>]
  BY <1>2 DEF Trn!Payload, Trn!HeaderLen
<1>7. \A k \in 1 .. Len(segs) : Trn!Payload(k)' = Trn!Payload(k)
  BY <1>2 DEF Trn!Payload
<1>8. \A k \in 1 .. Len(whole) : whole[k] \in 1 .. Len(segs) /\ whole[k] \in 1 .. Len(segs')
  BY <1>1, <1>2 DEF TransportTypeOK
<1>9. snd' \in [op : {"idle", "header", "segment"}, left : Seq(Units), tries : Nat]
  BY <1>1, <1>3, <1>4, <1>5
<1>10. TransportTypeOK'
  BY <1>1, <1>2, <1>8, <1>9 DEF TransportTypeOK, Trn!IsStream
<1>11. Trn!IsStream' <=> Trn!IsStream
  BY <1>1 DEF Trn!IsStream
<1>12. LeftToSend'
  <2>1. CASE Trn!IsStream
    <3>1. snd'.op = "header" /\ snd'.left = Trn!Header(n)
      BY <1>1, <2>1
    <3>2. \A p \in 1 .. Len(snd'.left) : snd'.left[p] = <<Len(segs'), 2 + 0 - Len(snd'.left) + p>>
      <4>1. \A p \in 1 .. 2 : snd'.left[p] = <<n, p>> /\ 2 + 0 - 2 + p = p
        BY <1>4, <3>1
      <4>2. Len(snd'.left) = 2 /\ Len(segs') = n
        BY <1>2, <1>4, <3>1
      <4> QED
        BY <4>1, <4>2
    <3> QED
      BY <1>2, <1>4, <1>11, <2>1, <3>1, <3>2 DEF LeftToSend
  <2>2. CASE ~Trn!IsStream
    <3>1. snd'.op = "segment" /\ snd'.left = Trn!Payload(n)' /\ Len(snd'.left) > 0
      BY <1>1, <1>3, <1>5, <1>6, <2>2
    <3>2. Trn!Payload(n)' = Trn!Payload(Len(segs))'
      BY <1>2 DEF Trn!Payload
    <3> QED
      BY <1>2, <1>11, <2>2, <3>1, <3>2 DEF LeftToSend
  <2> QED
    BY <2>1, <2>2
<1>13. BeingReceived'
  BY <1>1 DEF BeingReceived
<1>14. MessagesOnTheWire'
  <2>1. DeliveredFirst => DeliveredFirst'
    <3> SUFFICES ASSUME DeliveredFirst PROVE DeliveredFirst'
      OBVIOUS
    <3>1. \A k \in 1 .. Len(delivered) : k \in 1 .. Len(whole)
      BY LenProperties DEF DeliveredFirst, TransportTypeOK
    <3> QED
      BY <1>1, <1>7, <1>8, <3>1 DEF DeliveredFirst
  <2>2. ASSUME NEW num, Queued(num) PROVE Queued(num)'
    <3>1. Len(wire) \in Nat /\ num \in [0 .. Len(wire) -> 0 .. Len(whole)]
      BY <2>2, LenProperties DEF Queued, TransportTypeOK
    <3>2. ASSUME NEW i \in 1 .. Len(wire), num[i] = num[i - 1] + 1
          PROVE  Trn!Payload(whole[num[i]])' = Trn!Payload(whole[num[i]])
      <4>1. i \in 0 .. Len(wire) /\ i - 1 \in 0 .. Len(wire)
        BY <3>1
      <4>2. num[i] \in 1 .. Len(whole)
        BY <3>1, <3>2, <4>1
      <4> QED
        BY <1>1, <1>7, <1>8, <4>2
    <3> QED
      BY <1>1, <2>2, <3>2 DEF Queued
  <2>3. \A s : IsSent(s) => IsSent(s)'
    BY <1>1, <1>7, <1>8 DEF IsSent
  <2> QED
    BY <1>1, <2>1, <2>2, <2>3 DEF MessagesOnTheWire
<1>15. CASE ~Trn!IsStream
  BY <1>10, <1>11, <1>12, <1>13, <1>14, <1>15 DEF UnitsInOrder, InStep
<1>16. CASE Trn!IsStream
  <2> USE <1>16
  <2>1. snd'.op = "header" /\ snd'.left = Trn!Header(n)
    BY <1>1
  <2>2. Flow \in Seq(Units) /\ Flow' = Flow \o Trn!Header(n) /\ rcv.buf \o wire \in Seq(Units)
    <3>1. Flow = rcv.buf \o wire /\ Flow \in Seq(Units)
      BY <1>1, FlowType, ConcatEmptySeq DEF Flow
    <3> QED
      BY <1>1, <2>1, <3>1 DEF Flow
  <2>3. UnitsInOrder'
    <3>1. \A i, j \in 1 .. Len(Trn!Header(n)) : i < j => Trn!Earlier(Trn!Header(n)[i], Trn!Header(n)[j])
      BY <1>4 DEF Trn!Earlier
    <3>2. ASSUME NEW s \in Seq(Units), NotAhead(s), NEW i \in 1 .. Len(s),
                 NEW j \in 1 .. Len(Trn!Header(n))
          PROVE  Trn!Earlier(s[i], Trn!Header(n)[j]) /\ s[i][1] < n
      <4>1. s[i] \in Units /\ s[i][1] <= Len(segs)
        BY <3>2, ElementOfSeq DEF NotAhead
      <4>2. s[i][1] \in Nat /\ s[i][1] < n
        BY <1>1, <1>2, <4>1 DEF Units
      <4> QED
        BY <1>4, <4>2 DEF Trn!Earlier
    <3>3. /\ InOrder(delivered, Flow) /\ NotAhead(Flow) /\ delivered \in Seq(Seq(Units))
          /\ \A d \in 1 .. Len(delivered) : NotAhead(delivered[d]) /\ delivered[d] \in Seq(Units)
      BY ElementOfSeq DEF UnitsInOrder, TransportTypeOK
    <3>4. InOrder(delivered, Flow \o Trn!Header(n))
      BY <1>4, <2>2, <3>1, <3>2, <3>3, InOrderMore
    <3>5. ASSUME NEW s \in Seq(Units), NotAhead(s)
          PROVE  \A p \in 1 .. Len(s) : s[p][1] <= n /\ (s[p][1] = n => s[p][2] <= 2)
      <4> TAKE p \in 1 .. Len(s)
      <4>1. s[p] \in Units /\ s[p][1] <= Len(segs)
        BY <3>5, ElementOfSeq DEF NotAhead
      <4> QED
        BY <1>1, <1>2, <4>1 DEF Units
    <3>6. \A p \in 1 .. Len(Flow') : Flow'[p][1] <= n /\ (Flow'[p][1] = n => Flow'[p][2] <= 2)
      <4>1. /\ Len(Flow) \in Nat /\ Len(Flow') = Len(Flow) + 2
            /\ \A p \in 1 .. Len(Flow) : Flow'[p] = Flow[p]
            /\ \A p \in 1 .. 2 : Flow'[Len(Flow) + p] = <<n, p>>
        <5>1. Flow \in Seq(Units) /\ Trn!Header(n) \in Seq(Units)
          BY <1>4, <2>2
        <5>2. /\ Len(Flow) \in Nat /\ Len(Flow \o Trn!Header(n)) = Len(Flow) + Len(Trn!Header(n))
              /\ \A p \in 1 .. Len(Flow) : (Flow \o Trn!Header(n))[p] = Flow[p]
              /\ \A p \in 1 .. Len(Trn!Header(n)) : (Flow \o Trn!Header(n))[Len(Flow) + p] = Trn!Header(n)[p]
          BY <5>1, ConcatParts
        <5> QED
          BY <1>4, <2>2, <5>2
      <4>2. Flow'[Len(Flow) + 1] = <<n, 1>> /\ Flow'[Len(Flow) + 2] = <<n, 2>>
        BY <4>1
      <4>3. \A p \in 1 .. Len(Flow') : p \in 1 .. Len(Flow) \/ p = Len(Flow) + 1 \/ p = Len(Flow) + 2
        BY <4>1
      <4> TAKE p \in 1 .. Len(Flow')
      <4>4. CASE p \in 1 .. Len(Flow)
        <5>1. Flow[p][1] <= n /\ (Flow[p][1] = n => Flow[p][2] <= 2)
          BY <2>2, <3>3, <3>5, <4>4
        <5>2. Flow'[p] = Flow[p]
          BY <4>1, <4>4
        <5> QED
          BY <5>1, <5>2
      <4>5. CASE p = Len(Flow) + 1
        BY <1>2, <4>2, <4>5
      <4>6. CASE p = Len(Flow) + 2
        BY <1>2, <4>2, <4>6
      <4> QED
        BY <4>3, <4>4, <4>5, <4>6
    <3> QED
      <4>1. InOrder(delivered, Flow)'
        <5>1. InOrder(delivered', Flow')
          BY <1>1, <2>2, <3>4
        <5> QED
          BY <5>1 DEF InOrder
      <4>2. NotAhead(Flow)'
        BY <1>2, <3>6 DEF NotAhead
      <4>3. \A d \in 1 .. Len(delivered) : NotAhead(delivered[d])'
        BY <1>1, <1>2, <3>3, <3>5 DEF NotAhead
      <4> QED
        BY <1>1, <4>1, <4>2, <4>3 DEF UnitsInOrder
  <2>4. InStep'
    <3> SUFFICES ASSUME ~cut PROVE InStep'
      BY <1>1 DEF InStep
    <3> DEFINE f == Len(delivered) + 1
               base == IF rcv.op = "segment" THEN -2 ELSE 0
    <3>1. PICK at : Layout(at, f, LastFrame, Frames, Extents, base, Flow)
      BY DEF InStep
    <3>2. /\ Len(whole) \in Nat /\ LastFrame = Len(whole) /\ Len(delivered) \in Nat /\ LastFrame \in Nat
          /\ \A j \in 1 .. LastFrame :
                /\ Frames[j] = whole[j] /\ whole[j] \in 1 .. Len(segs)
                /\ Extents[j] = 2 + segs[whole[j]]
      <4>1. Len(whole) \in Nat /\ LastFrame = Len(whole) /\ Len(delivered) \in Nat /\ LastFrame \in Nat
        BY <1>1, FrameTypes
      <4>2. \A j \in 1 .. LastFrame :
                /\ Frames[j] = whole[j] /\ Extents[j] = 2 + segs[whole[j]]
        BY <1>1, <4>1, FrameTypes
      <4> QED
        BY <1>8, <4>1, <4>2
    <3>3. /\ LastFrame' = Len(whole) + 1 /\ Len(whole') = Len(whole)
          /\ \A j \in 1 .. LastFrame' :
                /\ Frames'[j] = IF j <= Len(whole) THEN whole[j] ELSE n
                /\ Extents'[j] = 2 + IF j > Len(whole) THEN 0 ELSE segs'[Frames'[j]]
      <4>1. /\ LastFrame' = Len(whole) + 1 /\ Len(whole') = Len(whole)
        BY <1>1, <2>1 DEF LastFrame
      <4>2. \A j \in 1 .. LastFrame' : Frames'[j] = IF j <= Len(whole) THEN whole[j] ELSE n
        BY <1>1, <1>2 DEF Frames
      <4> QED
        BY <1>1, <2>1, <4>1, <4>2 DEF Extents
    <3>4. \A j \in f .. LastFrame : Frames'[j] = Frames[j] /\ Extents'[j] = Extents[j]
      <4> TAKE j \in f .. LastFrame
      <4>1. j \in 1 .. LastFrame /\ j \in 1 .. LastFrame' /\ j <= Len(whole)
        BY <3>2, <3>3
      <4>2. segs'[whole[j]] = segs[whole[j]]
        BY <1>2, <3>2, <4>1
      <4> QED
        BY <3>2, <3>3, <4>1, <4>2
    <3>5. Frames'[LastFrame + 1] = n /\ Extents'[LastFrame + 1] = 2
      <4>1. LastFrame + 1 \in 1 .. LastFrame' /\ ~(LastFrame + 1 <= Len(whole))
        BY <3>2, <3>3
      <4> QED
        BY <3>2, <3>3, <4>1
    <3>6. f \in Nat /\ f <= LastFrame + 1 /\ DeliveredFirst /\ base \in Int
      BY <3>2 DEF InStep, DeliveredFirst
    <3> HIDE DEF f, base
    <3>7. \E at2 : Layout(at2, f, LastFrame + 1, Frames', Extents', base, Flow \o Trn!Header(n))
      <4>1. LastFrame \in Nat /\ f \in Nat /\ f <= LastFrame + 1 /\ base \in Int
            /\ Flow \in Seq(Units) /\ Trn!Header(n) \in Seq(Units)
        BY <1>4, <2>2, <3>2, <3>6
      <4>2. OneMore(f, LastFrame, Frames, Extents, Frames', Extents', Trn!Header(n))
        BY <1>4, <3>4, <3>5 DEF OneMore
      <4> QED
        BY <3>1, <4>1, <4>2, LayoutAdd
    <3>8. LastFrame' = LastFrame + 1
      BY <3>2, <3>3
    <3>9. DeliveredFirst'
      <4>1. \A k \in 1 .. Len(delivered) : k \in 1 .. Len(whole)
        BY <3>2, <3>6 DEF DeliveredFirst
      <4> QED
        BY <1>1, <1>7, <1>8, <3>6, <4>1 DEF DeliveredFirst
    <3>10. rcv.op = "segment" =>
              f <= LastFrame /\ rcv.want = segs[Frames[f]] /\ segs'[Frames'[f]] = segs[Frames[f]]
      <4> SUFFICES ASSUME rcv.op = "segment"
                   PROVE  f <= LastFrame /\ rcv.want = segs[Frames[f]] /\ segs'[Frames'[f]] = segs[Frames[f]]
        OBVIOUS
      <4>1. f <= LastFrame /\ rcv.want = segs[Frames[f]]
        BY DEF InStep, f
      <4>2. f \in 1 .. LastFrame
        BY <3>2, <4>1 DEF f
      <4> QED
        BY <1>2, <3>2, <3>4, <3>6, <4>1, <4>2
    <3>11. rcv'.op # "discard"
      BY <1>1 DEF InStep
    <3>12. \E at2 : Layout(at2, f, LastFrame', Frames', Extents', base, Flow')
      BY <2>2, <3>7, <3>8
    <3>13. rcv' = rcv /\ delivered' = delivered
      BY <1>1
    <3> QED
      BY <3>2, <3>6, <3>8, <3>9, <3>10, <3>11, <3>12, <3>13 DEF InStep, f, base
  <2> QED
    BY <1>10, <1>12, <1>13, <1>14, <2>3, <2>4
<1> QED
  BY <1>15, <1>16

-----------------------------------------------------------------------------
\* A part of the last of three lists that is moved on to the one before.
Moved(r, w, c, d) ==
    /\ w \o c \in Seq(Units) /\ r \o (w \o c) \in Seq(Units)
    /\ (r \o (w \o c)) \o d = (r \o w) \o (c \o d)

\* What is moved on stays where it is in the whole.
LEMMA MovedOn ==
    ASSUME NEW r \in Seq(Units), NEW w \in Seq(Units), NEW c \in Seq(Units), NEW d \in Seq(Units)
    PROVE  Moved(r, w, c, d)
<1>1. w \o c \in Seq(Units) /\ r \o w \in Seq(Units)
  BY ConcatProperties
<1>2. r \o (w \o c) \in Seq(Units) /\ (r \o w) \o c = r \o (w \o c)
  BY <1>1, ConcatProperties, ConcatAssociative
<1>3. ((r \o w) \o c) \o d = (r \o w) \o (c \o d)
  BY <1>1, ConcatAssociative
<1> QED
  BY <1>1, <1>2, <1>3 DEF Moved

\* SendData of a stream moves some units on in the flow.
LEMMA StreamSendMoves ==
    ASSUME TransportTypeOK, LeftToSend, NEW k, Trn!StreamSend(k)
    PROVE  /\ Trn!IsStream /\ Trn!IsStream' /\ snd.op # "idle" /\ Len(snd.left) \in Nat
           /\ k \in 1 .. Len(snd.left)
           /\ wire' \in Seq(Units) /\ rcv.buf \o wire' \in Seq(Units)
           /\ SubSeq(snd.left, k + 1, Len(snd.left)) \in Seq(Units)
           /\ Len(SubSeq(snd.left, k + 1, Len(snd.left))) = Len(snd.left) - k
           /\ \A i \in 1 .. Len(snd.left) - k :
                 SubSeq(snd.left, k + 1, Len(snd.left))[i] = snd.left[k + i]
           /\ (rcv.buf \o wire') \o SubSeq(snd.left, k + 1, Len(snd.left)) = Flow
           /\ k = Len(snd.left) => rcv.buf \o wire' = Flow
           /\ UNCHANGED <<dev, segs, rcv, delivered, cut>>
<1> DEFINE a == SubSeq(snd.left, 1, k)
           b == SubSeq(snd.left, k + 1, Len(snd.left))
<1>1. /\ Trn!IsStream /\ Trn!IsStream' /\ snd.op # "idle" /\ k \in 1 .. Len(snd.left)
      /\ wire' = wire \o a /\ UNCHANGED <<dev, segs, rcv, delivered, cut>>
  BY DEF Trn!StreamSend, Trn!IsStream
<1>2. /\ rcv.buf \in Seq(Units) /\ wire \in Seq(Units) /\ snd.left \in Seq(Units)
      /\ rcv.buf \o wire \in Seq(Units)
  BY <1>1, FlowType
<1>3. Len(snd.left) \in Nat /\ k \in 0 .. Len(snd.left) /\ \A i \in 1 .. Len(snd.left) : snd.left[i] \in Units
  BY <1>1, <1>2, LenProperties, ElementOfSeq
<1>4. a \in Seq(Units) /\ b \in Seq(Units) /\ a \o b = snd.left
  BY <1>2, <1>3, SplitIsWhole
<1>5. Len(b) = Len(snd.left) - k /\ \A i \in 1 .. Len(snd.left) - k : b[i] = snd.left[k + i]
  BY <1>1, <1>3, SubSeqProperties
<1> HIDE DEF a, b
<1>6. /\ wire \o a \in Seq(Units) /\ rcv.buf \o (wire \o a) \in Seq(Units)
      /\ (rcv.buf \o (wire \o a)) \o b = (rcv.buf \o wire) \o (a \o b)
  <2>1. rcv.buf \in Seq(Units) /\ wire \in Seq(Units) /\ a \in Seq(Units) /\ b \in Seq(Units)
    BY <1>2, <1>4
  <2>2. Moved(rcv.buf, wire, a, b)
    BY <2>1, MovedOn
  <2> QED
    BY <2>2 DEF Moved
<1>7. (rcv.buf \o wire') \o b = Flow /\ wire' \in Seq(Units) /\ rcv.buf \o wire' \in Seq(Units)
  BY <1>1, <1>4, <1>6 DEF Flow
<1>8. k = Len(snd.left) => rcv.buf \o wire' = Flow
  <2> SUFFICES ASSUME k = Len(snd.left) PROVE rcv.buf \o wire' = Flow
    OBVIOUS
  <2>1. b = <<>>
    BY <1>3, <1>4, <1>5, EmptySeq
  <2> QED
    BY <1>7, <2>1, ConcatEmptySeq
<1> QED
  BY <1>1, <1>3, <1>4, <1>5, <1>7, <1>8 DEF a, b

\* A part of a frame is written.
LEMMA PartSent ==
    ASSUME Trn!TransportConstants, TransportIInv, NEW k, Trn!StreamSend(k), k < Len(snd.left)
    PROVE  TransportIInv'
<1> USE DEF TransportIInv
<1>1. /\ Trn!IsStream /\ Trn!IsStream' /\ snd.op # "idle" /\ Len(snd.left) \in Nat
      /\ k \in 1 .. Len(snd.left) /\ wire' \in Seq(Units)
      /\ UNCHANGED <<dev, segs, rcv, delivered, cut>>
  BY StreamSendMoves
<1>2. PICK b :
      /\ b \in Seq(Units) /\ Len(b) = Len(snd.left) - k
      /\ \A i \in 1 .. Len(snd.left) - k : b[i] = snd.left[k + i]
      /\ (rcv.buf \o wire') \o b = Flow
      /\ b = SubSeq(snd.left, k + 1, Len(snd.left))
  BY StreamSendMoves
<1>3. /\ whole' = whole /\ snd' \in [op : {"idle", "header", "segment"}, left : Seq(Units), tries : Nat]
      /\ snd'.op = snd.op /\ snd'.left = b
  <2>1. whole' = whole /\ snd' = [snd EXCEPT !.left = b]
    BY <1>2 DEF Trn!StreamSend
  <2>2. snd \in [op : {"idle", "header", "segment"}, left : Seq(Units), tries : Nat]
    BY DEF TransportTypeOK
  <2> QED
    BY <1>2, <2>1, <2>2
<1>4. TransportTypeOK'
  <2>1. dev.kind # "none"
    BY <1>1 DEF Trn!IsStream, Trn!Streams
  <2> QED
    BY <1>1, <1>3, <2>1 DEF TransportTypeOK
<1>5. LeftToSend' /\ BeingReceived'
  <2> DEFINE all == IF snd.op = "header" THEN 2 ELSE segs[Len(segs)]
             end == 2 + IF snd.op = "header" THEN 0 ELSE segs[Len(segs)]
  <2>1. /\ Len(segs) > 0 /\ Len(snd.left) <= all
        /\ \A p \in 1 .. Len(snd.left) : snd.left[p] = <<Len(segs), end - Len(snd.left) + p>>
    BY <1>1 DEF LeftToSend
  <2>2. end \in Nat /\ all \in Nat
    <3>1. Len(segs) \in 1 .. Len(segs)
      BY <2>1, LenProperties DEF TransportTypeOK
    <3> QED
      BY <3>1, PayloadUnits
  <2> HIDE DEF end, all
  <2>3. Len(b) > 0 /\ Len(b) <= all /\ Len(b) \in Nat
    BY <1>1, <1>2, <2>1, <2>2
  <2>4. ASSUME NEW p \in 1 .. Len(b) PROVE b[p] = <<Len(segs), end - Len(b) + p>>
    <3>1. k + p \in 1 .. Len(snd.left) /\ p \in 1 .. Len(snd.left) - k
      BY <1>1, <1>2
    <3>2. end - Len(snd.left) + (k + p) = end - Len(b) + p
      BY <1>1, <1>2, <2>2
    <3>3. b[p] = snd.left[k + p]
      BY <1>2, <3>1
    <3>4. \A q \in 1 .. Len(snd.left) : q = k + p => snd.left[q] = <<Len(segs), end - Len(snd.left) + q>>
      BY <2>1
    <3>5. snd.left[k + p] = <<Len(segs), end - Len(snd.left) + (k + p)>>
      BY <3>1, <3>4
    <3> QED
      BY <3>2, <3>3, <3>5
  <2> QED
    BY <1>1, <1>3, <2>1, <2>3, <2>4 DEF LeftToSend, BeingReceived, end, all
<1>6. UnitsInOrder' /\ InStep'
  <2>1. Flow' = Flow
    BY <1>1, <1>2, <1>3 DEF Flow
  <2> QED
    BY <1>1, <1>3, <2>1, StreamStays
<1>7. MessagesOnTheWire'
  BY <1>1 DEF MessagesOnTheWire, Trn!IsStream, Trn!Streams
<1> QED
  BY <1>4, <1>5, <1>6, <1>7

\* Nothing is ahead of the units of the segment whose header has been sent.
LEMMA PayloadComes ==
    ASSUME Trn!TransportConstants, TransportTypeOK, snd.op = "header", NEW n, n = Len(segs), n > 0,
           NEW s \in Seq(Units), NotAhead(s), NEW i \in 1 .. Len(s), NEW j \in 1 .. segs[n]
    PROVE  Trn!Earlier(s[i], <<n, 2 + j>>)
<1>1. s[i] \in Units
  BY ElementOfSeq
<1>2. s[i][1] \in Nat /\ s[i][2] \in Nat /\ n \in Nat /\ n \in 1 .. Len(segs)
  <2>1. s[i][1] \in Nat /\ s[i][2] \in Nat
    BY <1>1 DEF Units
  <2>2. Len(segs) \in Nat
    BY LenProperties DEF TransportTypeOK
  <2> QED
    BY <2>1, <2>2
<1>3. segs[n] \in Nat /\ j \in Nat /\ j >= 1
  BY <1>2, PayloadUnits
<1>4. s[i][1] <= n /\ (s[i][1] = n => s[i][2] <= 2)
  BY DEF NotAhead
<1>5. s[i][1] < n \/ (s[i][1] = n /\ s[i][2] < 2 + j)
  BY <1>2, <1>3, <1>4
<1>6. <<n, 2 + j>>[1] = n /\ <<n, 2 + j>>[2] = 2 + j
  OBVIOUS
<1> QED
  BY <1>5, <1>6 DEF Trn!Earlier

\* The header of a segment has been written: its units join the flow.
LEMMA HeaderSent ==
    ASSUME Trn!TransportConstants, TransportIInv, NEW k, Trn!StreamSend(k), k = Len(snd.left),
           snd.op = "header"
    PROVE  TransportIInv'
<1> USE DEF TransportIInv
<1>1. /\ Trn!IsStream /\ Trn!IsStream' /\ Len(snd.left) \in Nat /\ wire' \in Seq(Units)
      /\ rcv.buf \o wire' \in Seq(Units) /\ rcv.buf \o wire' = Flow
      /\ UNCHANGED <<dev, segs, rcv, delivered, cut>>
  BY StreamSendMoves
<1>2. PICK n : n = Len(segs)
  OBVIOUS
<1>3. n \in 1 .. Len(segs) /\ n \in Nat /\ Retries \in Nat /\ n > 0
  <2>1. Len(segs) > 0 /\ Len(segs) \in Nat
    BY LenProperties DEF LeftToSend, TransportTypeOK
  <2> QED
    BY <1>2, <2>1 DEF Trn!TransportConstants
<1>4. PICK new : new = Trn!Payload(n)
  OBVIOUS
<1>5. /\ segs[n] \in Nat /\ segs[n] > 1 /\ new \in Seq(Units) /\ Len(new) = segs[n]
      /\ \A p \in 1 .. segs[n] : new[p] = <<n, 2 + p>>
  BY <1>3, <1>4, PayloadUnits
<1>6. /\ whole' = whole /\ snd'.op = "segment" /\ snd'.left = new
      /\ snd' \in [op : {"idle", "header", "segment"}, left : Seq(Units), tries : Nat]
  <2>1. snd' = [op |-> "segment", left |-> new, tries |-> Retries] /\ whole' = whole
    <3>1. ~(k < Len(snd.left)) /\ Trn!Payload(Len(segs)) = new
      BY <1>1, <1>2, <1>4
    <3>2. Trn!Written
      BY <3>1 DEF Trn!StreamSend
    <3> QED
      BY <3>1, <3>2 DEF Trn!Written
  <2> QED
    BY <1>3, <1>5, <2>1
<1>7. TransportTypeOK'
  <2>1. dev.kind # "none"
    BY <1>1 DEF Trn!IsStream, Trn!Streams
  <2> QED
    BY <1>1, <1>6, <2>1 DEF TransportTypeOK
<1>8. LeftToSend' /\ BeingReceived'
  <2>1. \A p \in 1 .. Len(new) : new[p] = <<n, 2 + segs[n] - Len(new) + p>>
    <3>1. \A p \in 1 .. segs[n] : 2 + segs[n] - segs[n] + p = 2 + p
      BY <1>5
    <3> QED
      BY <1>5, <3>1
  <2> QED
    BY <1>1, <1>2, <1>3, <1>5, <1>6, <2>1 DEF LeftToSend, BeingReceived
<1>9. Flow' = Flow \o new /\ Flow \in Seq(Units)
  <2>1. Flow' = (rcv.buf \o wire') \o new
    BY <1>1, <1>6 DEF Flow
  <2> QED
    BY <1>1, <2>1
<1>10. UnitsInOrder'
  <2>1. \A i, j \in 1 .. Len(new) : i < j => Trn!Earlier(new[i], new[j])
    <3>1. \A i, j \in 1 .. segs[n] : i < j => 2 + i < 2 + j
      BY <1>5
    <3> QED
      BY <1>5, <3>1 DEF Trn!Earlier
  <2>2. ASSUME NEW s \in Seq(Units), NotAhead(s)
        PROVE  \A i \in 1 .. Len(s), j \in 1 .. Len(new) : Trn!Earlier(s[i], new[j])
    BY <1>2, <1>3, <1>5, <2>2, PayloadComes
  <2>3. /\ InOrder(delivered, Flow) /\ NotAhead(Flow) /\ delivered \in Seq(Seq(Units))
        /\ \A d \in 1 .. Len(delivered) : NotAhead(delivered[d]) /\ delivered[d] \in Seq(Units)
    BY <1>1, ElementOfSeq DEF UnitsInOrder, TransportTypeOK
  <2>4. InOrder(delivered, Flow \o new)
    <3>1. \A d \in 1 .. Len(delivered) : \A p \in 1 .. Len(delivered[d]) :
             \A j \in 1 .. Len(new) : Trn!Earlier(delivered[d][p], new[j])
      BY <2>2, <2>3
    <3>2. \A i \in 1 .. Len(Flow), j \in 1 .. Len(new) : Trn!Earlier(Flow[i], new[j])
      BY <1>9, <2>2, <2>3
    <3> QED
      BY <1>5, <1>9, <2>1, <2>3, <3>1, <3>2, InOrderMore
  <2>5. \A p \in 1 .. Len(Flow \o new) : (Flow \o new)[p][1] <= n
    <3>1. /\ Len(Flow) \in Nat /\ Len(Flow \o new) = Len(Flow) + Len(new)
          /\ \A p \in 1 .. Len(Flow) + Len(new) :
                (Flow \o new)[p] = IF p <= Len(Flow) THEN Flow[p] ELSE new[p - Len(Flow)]
      BY <1>5, <1>9, ConcatProperties, LenProperties
    <3> TAKE p \in 1 .. Len(Flow \o new)
    <3>2. CASE p <= Len(Flow)
      <4>1. p \in 1 .. Len(Flow) /\ (Flow \o new)[p] = Flow[p]
        BY <1>5, <3>1, <3>2
      <4> QED
        BY <1>2, <2>3, <4>1 DEF NotAhead
    <3>3. CASE ~(p <= Len(Flow))
      <4>1. p - Len(Flow) \in 1 .. segs[n] /\ (Flow \o new)[p] = new[p - Len(Flow)]
        BY <1>5, <3>1, <3>3
      <4>2. \A q \in 1 .. segs[n] : new[q][1] = n
        BY <1>5
      <4> QED
        BY <1>3, <4>1, <4>2
    <3> QED
      BY <3>2, <3>3
  <2>6. NotAhead(Flow)' /\ InOrder(delivered, Flow)'
    BY <1>1, <1>2, <1>6, <1>9, <2>4, <2>5 DEF NotAhead, InOrder
  <2>7. \A d \in 1 .. Len(delivered) : NotAhead(delivered[d])'
    BY <1>1, <1>6, <2>3 DEF NotAhead
  <2> QED
    BY <1>1, <2>6, <2>7 DEF UnitsInOrder
<1>11. InStep'
  <2> SUFFICES ASSUME ~cut PROVE InStep'
    BY <1>1 DEF InStep
  <2>1. PICK f, base :
           f = Len(delivered) + 1 /\ base = IF rcv.op = "segment" THEN -2 ELSE 0
    OBVIOUS
  <2>2. PICK l : l = LastFrame
    OBVIOUS
  <2>3. /\ l \in Nat /\ l = Len(whole) + 1 /\ Len(whole) \in Nat /\ Len(delivered) \in Nat
        /\ \A j \in 1 .. l : /\ Frames[j] = IF j <= Len(whole) THEN whole[j] ELSE n
                             /\ Extents[j] = 2 + IF j > Len(whole) THEN 0 ELSE segs[Frames[j]]
    BY <1>2, <2>2, FrameTypes
  <2>4. DeliveredFirst /\ \E at : Layout(at, f, l, Frames, Extents, base, Flow)
    BY <1>1, <2>1, <2>2 DEF InStep
  <2>5. f \in Nat /\ f >= 1 /\ f <= l /\ base \in Int
    BY <2>1, <2>3, <2>4 DEF DeliveredFirst
  <2>6. LastFrame' = l /\ Frames' = Frames
    <3>1. LastFrame' = LastFrame
      BY <1>6 DEF LastFrame
    <3> QED
      BY <1>1, <1>6, <2>2, <3>1 DEF Frames
  <2>7. \A j \in 1 .. l : Extents'[j] = 2 + segs[Frames[j]]
    BY <1>1, <1>6, <2>6 DEF Extents
  <2>8. LongerLast(f, l, Frames, Extents, Frames, Extents', new)
    <3>1. \A j \in f .. l - 1 : j \in 1 .. l /\ j <= Len(whole)
      BY <2>3, <2>5
    <3>2. l \in 1 .. l /\ l > Len(whole) /\ ~(l <= Len(whole))
      BY <2>3
    <3>3. Frames[l] = n /\ Extents[l] = 2 /\ Extents'[l] = 2 + Len(new)
      BY <1>5, <2>3, <2>7, <3>2
    <3>4. \A j \in f .. l - 1 : Extents'[j] = Extents[j]
      BY <2>3, <2>7, <3>1
    <3> QED
      BY <1>5, <3>3, <3>4 DEF LongerLast
  <2>9. \E at : Layout(at, f, l, Frames, Extents', base, Flow \o new)
    <3>1. PICK at : Layout(at, f, l, Frames, Extents, base, Flow)
      BY <2>4
    <3>2. l \in Nat /\ f \in Nat /\ f <= l /\ base \in Int /\ Flow \in Seq(Units) /\ new \in Seq(Units)
      BY <1>5, <1>9, <2>3, <2>5
    <3> QED
      BY <2>8, <3>1, <3>2, LayoutGrow
  <2>10. DeliveredFirst'
    BY <1>1, <1>6, <2>4 DEF DeliveredFirst, Trn!Payload
  <2>11. /\ rcv'.op # "discard"
         /\ rcv'.op = "segment" => f <= l /\ rcv'.want = segs[Frames[f]]
    BY <1>1, <2>1, <2>2 DEF InStep
  <2> QED
    <3>1. /\ Len(delivered') + 1 = f /\ Flow' = Flow \o new /\ segs' = segs
          /\ base = IF rcv'.op = "segment" THEN -2 ELSE 0
      BY <1>1, <1>9, <2>1
    <3> QED
      BY <2>6, <2>9, <2>10, <2>11, <3>1 DEF InStep
<1>12. MessagesOnTheWire'
  BY <1>1 DEF MessagesOnTheWire, Trn!IsStream, Trn!Streams
<1> QED
  BY <1>7, <1>8, <1>10, <1>11, <1>12

\* The units stay in order when some leave the flow and perhaps are delivered.
LEMMA FlowKept ==
    ASSUME TransportTypeOK, UnitsInOrder, Trn!IsStream, NEW s \in Seq(Units), NEW t \in Seq(Units),
           Flow = s \o t, segs' = segs, snd'.op = snd.op \/ snd'.op # "header",
           \/ (Flow' = s \/ Flow' = t) /\ delivered' = delivered
           \/ Flow' = t /\ delivered' = Append(delivered, s)
    PROVE  UnitsInOrder'
<1>1. /\ delivered \in Seq(Seq(Units)) /\ Len(delivered) \in Nat
      /\ InOrder(delivered, s \o t) /\ NotAhead(s \o t)
      /\ \A d \in 1 .. Len(delivered) : NotAhead(delivered[d])
  BY LenProperties DEF UnitsInOrder, TransportTypeOK
<1>2. InOrder(delivered, s) /\ InOrder(delivered, t) /\ InOrder(Append(delivered, s), t)
  BY <1>1, InOrderParts
<1>3. NotAhead(s) /\ NotAhead(t)
  <2>1. /\ Len(s) \in Nat /\ Len(t) \in Nat /\ Len(s \o t) = Len(s) + Len(t)
        /\ \A i \in 1 .. Len(s) : (s \o t)[i] = s[i]
        /\ \A i \in 1 .. Len(t) : (s \o t)[Len(s) + i] = t[i]
    BY ConcatParts
  <2>2. NotAhead(s)
    <3>1. \A i \in 1 .. Len(s) : i \in 1 .. Len(s \o t)
      BY <2>1
    <3> QED
      BY <1>1, <2>1, <3>1 DEF NotAhead
  <2>3. NotAhead(t)
    <3> SUFFICES ASSUME NEW i \in 1 .. Len(t)
                 PROVE  t[i][1] <= Len(segs) /\ (snd.op = "header" /\ t[i][1] = Len(segs) => t[i][2] <= 2)
      BY DEF NotAhead
    <3>1. Len(s) + i \in 1 .. Len(s \o t) /\ (s \o t)[Len(s) + i] = t[i]
      BY <2>1
    <3> QED
      BY <1>1, <3>1 DEF NotAhead
  <2> QED
    BY <2>2, <2>3
<1>4. \A x : NotAhead(x) => NotAhead(x)'
  BY DEF NotAhead
<1>5. NotAhead(Flow)' /\ InOrder(delivered, Flow)'
  <2>1. InOrder(delivered', Flow')
    BY <1>2
  <2>2. NotAhead(Flow')
    BY <1>3
  <2> QED
    BY <2>1, <2>2 DEF NotAhead, InOrder
<1>6. \A d \in 1 .. Len(delivered') : NotAhead(delivered'[d])
  <2>1. CASE delivered' = delivered
    BY <1>1, <2>1
  <2>2. CASE delivered' = Append(delivered, s)
    <3>1. /\ Len(delivered') = Len(delivered) + 1 /\ delivered'[Len(delivered) + 1] = s
          /\ \A d \in 1 .. Len(delivered) : delivered'[d] = delivered[d]
      BY <1>1, <2>2, AppendProperties
    <3>2. \A d \in 1 .. Len(delivered') : d \in 1 .. Len(delivered) \/ d = Len(delivered) + 1
      BY <1>1, <3>1
    <3> QED
      BY <1>1, <1>3, <3>1, <3>2
  <2> QED
    BY <2>1, <2>2
<1>7. (\A d \in 1 .. Len(delivered) : NotAhead(delivered[d]))'
  BY <1>6 DEF NotAhead
<1> QED
  BY <1>5, <1>7 DEF UnitsInOrder

\* A segment has been written, and Send returns true.
LEMMA SegmentSent ==
    ASSUME Trn!TransportConstants, TransportIInv, NEW k, Trn!StreamSend(k), k = Len(snd.left),
           snd.op # "header"
    PROVE  TransportIInv'
<1> USE DEF TransportIInv
<1>1. /\ Trn!IsStream /\ Trn!IsStream' /\ snd.op = "segment" /\ Len(snd.left) \in Nat
      /\ wire' \in Seq(Units) /\ rcv.buf \o wire' \in Seq(Units) /\ rcv.buf \o wire' = Flow
      /\ UNCHANGED <<dev, segs, rcv, delivered, cut>>
  <2>1. snd.op # "idle"
    BY StreamSendMoves
  <2> QED
    BY <2>1, StreamSendMoves DEF TransportTypeOK
<1>2. PICK n : n = Len(segs)
  OBVIOUS
<1>3. n \in 1 .. Len(segs) /\ n \in Nat
  <2>1. Len(segs) > 0 /\ Len(segs) \in Nat
    BY <1>1, LenProperties DEF LeftToSend, TransportTypeOK
  <2> QED
    BY <1>2, <2>1
<1>4. /\ whole' = Append(whole, n) /\ snd'.op = "idle" /\ snd'.left = <<>>
      /\ snd' \in [op : {"idle", "header", "segment"}, left : Seq(Units), tries : Nat]
  <2>1. snd' = Trn!Idle /\ whole' = Append(whole, n)
    <3>1. ~(k < Len(snd.left))
      BY <1>1
    <3>2. Trn!Written
      BY <3>1 DEF Trn!StreamSend
    <3> QED
      BY <1>1, <1>2, <3>2 DEF Trn!Written
  <2> QED
    BY <2>1, EmptySeq DEF Trn!Idle
<1>5. /\ whole' \in Seq(Nat) /\ Len(whole) \in Nat /\ Len(whole') = Len(whole) + 1
      /\ whole'[Len(whole) + 1] = n
      /\ \A j \in 1 .. Len(whole) : whole'[j] = whole[j] /\ whole[j] \in 1 .. Len(segs)
  <2>1. whole \in Seq(Nat) /\ \A j \in 1 .. Len(whole) : whole[j] \in 1 .. Len(segs)
    BY DEF TransportTypeOK
  <2> QED
    BY <1>3, <1>4, <2>1, AppendProperties, LenProperties
<1>6. \A j \in 1 .. Len(whole') : j \in 1 .. Len(whole) \/ j = Len(whole) + 1
  BY <1>5
<1>7. TransportTypeOK'
  <2>1. dev.kind # "none"
    BY <1>1 DEF Trn!IsStream, Trn!Streams
  <2>2. \A j \in 1 .. Len(whole') : whole'[j] \in 1 .. Len(segs)
    BY <1>3, <1>5, <1>6
  <2> QED
    BY <1>1, <1>4, <1>5, <2>1, <2>2 DEF TransportTypeOK
<1>8. LeftToSend' /\ BeingReceived'
  BY <1>1, <1>4 DEF LeftToSend, BeingReceived
<1>9. Flow' = Flow /\ Flow \in Seq(Units) /\ Flow \o <<>> = Flow /\ <<>> \in Seq(Units)
  <2>1. Flow' = (rcv.buf \o wire') \o <<>>
    BY <1>1, <1>4 DEF Flow
  <2> QED
    BY <1>1, <2>1, ConcatEmptySeq, EmptySeq
<1>10. UnitsInOrder'
  BY <1>1, <1>4, <1>9, FlowKept
<1>11. InStep'
  <2> SUFFICES ASSUME ~cut PROVE InStep'
    BY <1>1 DEF InStep
  <2>1. PICK f, base :
           f = Len(delivered) + 1 /\ base = IF rcv.op = "segment" THEN -2 ELSE 0
    OBVIOUS
  <2>2. PICK l : l = LastFrame
    OBVIOUS
  <2>3. /\ l \in Nat /\ l = Len(whole) + 1 /\ Len(delivered) \in Nat
        /\ \A j \in 1 .. l : /\ Frames[j] = IF j <= Len(whole) THEN whole[j] ELSE n
                             /\ Extents[j] = 2 + segs[Frames[j]]
    BY <1>1, <1>2, <2>2, FrameTypes
  <2>4. DeliveredFirst /\ \E at : Layout(at, f, l, Frames, Extents, base, Flow)
    BY <1>1, <2>1, <2>2 DEF InStep
  <2>5. f \in Nat /\ f >= 1
    BY <2>1, <2>3
  <2>6. LastFrame' = l
    BY <1>4, <1>5, <2>3 DEF LastFrame
  <2>7. \A j \in 1 .. l : Frames'[j] = Frames[j]
    <3>1. \A j \in 1 .. l : Frames'[j] = whole'[j]
      BY <1>5, <2>3, <2>6 DEF Frames
    <3>2. \A j \in 1 .. l : \/ j \in 1 .. Len(whole) /\ j <= Len(whole)
                            \/ j = Len(whole) + 1 /\ ~(j <= Len(whole))
      <4>1. Len(whole) \in Nat /\ l = Len(whole) + 1
        BY <1>5, <2>3
      <4> QED
        BY <4>1
    <3> QED
      BY <1>5, <2>3, <3>1, <3>2
  <2>8. \A j \in 1 .. l : Extents'[j] = Extents[j]
    <3>1. \A j \in 1 .. l : Extents'[j] = 2 + segs[Frames'[j]]
      BY <1>1, <1>4, <2>6 DEF Extents
    <3> QED
      BY <2>3, <2>7, <3>1
  <2>9. \E at : Layout(at, f, l, Frames', Extents', base, Flow)
    <3>1. PICK at : Layout(at, f, l, Frames, Extents, base, Flow)
      BY <2>4
    <3>2. \A j \in f .. l : j \in 1 .. l
      BY <2>5
    <3>3. \A j \in f .. l : Frames'[j] = Frames[j] /\ Extents'[j] = Extents[j]
      BY <2>7, <2>8, <3>2
    <3>4. l \in Nat /\ f \in Nat
      BY <2>3, <2>5
    <3> QED
      BY <3>1, <3>3, <3>4, LayoutSame
  <2>10. DeliveredFirst'
    <3>1. \A i \in 1 .. Len(delivered) : i \in 1 .. Len(whole)
      BY <1>5, <2>3, <2>4 DEF DeliveredFirst
    <3>2. \A i \in 1 .. Len(delivered) : delivered[i] = Trn!Payload(whole[i]) /\ whole'[i] = whole[i]
      BY <1>5, <2>4, <3>1 DEF DeliveredFirst
    <3>3. Len(delivered) <= Len(whole')
      BY <1>5, <2>3, <2>4 DEF DeliveredFirst
    <3> QED
      BY <1>1, <3>2, <3>3 DEF DeliveredFirst, Trn!Payload
  <2>11. /\ rcv'.op # "discard"
         /\ rcv'.op = "segment" => f <= l /\ rcv'.want = segs[Frames'[f]]
    <3>1. rcv.op # "discard" /\ (rcv.op = "segment" => f <= l /\ rcv.want = segs[Frames[f]])
      BY <1>1, <2>1, <2>2 DEF InStep
    <3>2. f <= l => f \in 1 .. l
      BY <2>3, <2>5
    <3> QED
      BY <1>1, <2>7, <3>1, <3>2
  <2> QED
    <3>1. /\ Len(delivered') + 1 = f /\ Flow' = Flow /\ segs' = segs
          /\ base = IF rcv'.op = "segment" THEN -2 ELSE 0
      BY <1>1, <1>9, <2>1
    <3> QED
      BY <2>6, <2>9, <2>10, <2>11, <3>1 DEF InStep
<1>12. MessagesOnTheWire'
  BY <1>1 DEF MessagesOnTheWire, Trn!IsStream, Trn!Streams
<1> QED
  BY <1>7, <1>8, <1>10, <1>11, <1>12

\* SendData of a stream, whatever it takes.
LEMMA StreamSendKeeps ==
    ASSUME Trn!TransportConstants, TransportIInv, NEW k, Trn!StreamSend(k) PROVE TransportIInv'
<1>1. k \in 1 .. Len(snd.left) /\ Len(snd.left) \in Nat
  BY StreamSendMoves DEF TransportIInv
<1>2. k < Len(snd.left) \/ k = Len(snd.left)
  BY <1>1
<1> QED
  BY <1>2, PartSent, HeaderSent, SegmentSent

-----------------------------------------------------------------------------
\* Send gives up its segment: of a stream the frame is taken back, if none of it has
\* been written, or is left unfinished.
LEMMA SendGivesUp ==
    ASSUME Trn!TransportConstants, TransportIInv, snd.op # "idle", Trn!GiveUpSend,
           dev' \in [kind : Trn!Kinds \cup {"none"}, wr : BOOLEAN, rd : BOOLEAN, released : BOOLEAN],
           dev'.kind = dev.kind, UNCHANGED <<wire, segs, rcv, whole, delivered>>
    PROVE  TransportIInv'
<1> USE DEF TransportIInv
<1>1. /\ snd'.op = "idle" /\ snd'.left = <<>>
      /\ snd' \in [op : {"idle", "header", "segment"}, left : Seq(Units), tries : Nat]
      /\ cut' = (cut \/ (Trn!IsStream /\ snd.left # Trn!Header(Len(segs)))) /\ cut' \in BOOLEAN
      /\ (Trn!IsStream' <=> Trn!IsStream)
  BY EmptySeq DEF Trn!GiveUpSend, Trn!Idle, Trn!IsStream, TransportTypeOK
<1>2. TransportTypeOK'
  <2>1. dev.kind # "none"
    BY DEF TransportTypeOK
  <2> QED
    BY <1>1, <2>1 DEF TransportTypeOK
<1>3. LeftToSend' /\ BeingReceived'
  BY <1>1 DEF LeftToSend, BeingReceived
<1>4. MessagesOnTheWire'
  BY MessagesStay
<1>5. CASE ~Trn!IsStream
  BY <1>1, <1>2, <1>3, <1>4, <1>5 DEF UnitsInOrder, InStep
<1>6. CASE Trn!IsStream
  <2>1. PICK s, t, n : s = rcv.buf \o wire /\ t = snd.left /\ n = Len(segs)
    OBVIOUS
  <2>2. /\ s \in Seq(Units) /\ t \in Seq(Units) /\ Flow = s \o t /\ Flow' = s
    <3>1. s \in Seq(Units) /\ t \in Seq(Units) /\ Flow = s \o t
      BY <1>6, <2>1, FlowType DEF Flow
    <3>2. Flow' = s \o <<>>
      BY <1>1, <2>1 DEF Flow
    <3> QED
      BY <3>1, <3>2, ConcatEmptySeq
  <2>3. UnitsInOrder'
    BY <1>1, <1>6, <2>2, FlowKept
  <2>4. InStep'
    <3> SUFFICES ASSUME ~cut' PROVE InStep'
      BY DEF InStep
    <3>1. ~cut /\ t = Trn!Header(n) /\ Len(segs) > 0 /\ n \in Nat
      BY <1>1, <1>6, <2>1, LenProperties DEF LeftToSend, TransportTypeOK
    <3>2. Len(t) = 2 /\ t[1] = <<n, 1>>
      BY <3>1, HeaderUnits
    <3>3. snd.op = "header"
      <4> SUFFICES ASSUME snd.op # "header" PROVE FALSE
        OBVIOUS
      <4>0. PICK end : end = 2 + IF snd.op = "header" THEN 0 ELSE segs[Len(segs)]
        OBVIOUS
      <4>1. /\ Len(t) <= segs[n] /\ end = 2 + segs[n]
            /\ \A p \in 1 .. Len(t) : t[p] = <<n, end - Len(t) + p>>
        <5>1. /\ Len(snd.left) <= segs[Len(segs)]
              /\ \A p \in 1 .. Len(snd.left) : snd.left[p] = <<Len(segs), end - Len(snd.left) + p>>
          BY <1>6, <4>0 DEF LeftToSend
        <5> QED
          BY <2>1, <4>0, <5>1
      <4>2. segs[n] \in Nat
        <5>1. n \in 1 .. Len(segs)
          BY <2>1, <3>1
        <5> QED
          BY <5>1, PayloadUnits
      <4>3. t[1] = <<n, end - 2 + 1>>
        <5>1. 1 \in 1 .. Len(t)
          BY <3>2
        <5> QED
          BY <3>2, <4>1, <5>1
      <4>4. end - 2 + 1 = 1
        BY <3>2, <4>3
      <4>5. 2 <= segs[n]
        BY <3>2, <4>1
      <4> QED
        BY <4>1, <4>2, <4>4, <4>5
    <3>4. PICK f, base :
             f = Len(delivered) + 1 /\ base = IF rcv.op = "segment" THEN -2 ELSE 0
      OBVIOUS
    <3>5. PICK l : l = LastFrame
      OBVIOUS
    <3>6. /\ l \in Nat /\ l = Len(whole) + 1 /\ Len(whole) \in Nat /\ Len(delivered) \in Nat
          /\ \A j \in 1 .. l : /\ Frames[j] = IF j <= Len(whole) THEN whole[j] ELSE n
                               /\ Extents[j] = 2 + IF j > Len(whole) THEN 0 ELSE segs[Frames[j]]
      BY <2>1, <3>3, <3>5, FrameTypes
    <3>7. DeliveredFirst /\ \E at : Layout(at, f, l, Frames, Extents, base, s \o t)
      BY <1>6, <2>2, <3>1, <3>4, <3>5 DEF InStep
    <3>8. f \in Nat /\ f >= 1 /\ f <= l /\ base \in Int
      BY <3>4, <3>6, <3>7 DEF DeliveredFirst
    <3>9. LastFrame' = l - 1
      BY <1>1, <3>6 DEF LastFrame
    <3>10. \A j \in 1 .. l - 1 : j \in 1 .. l /\ j <= Len(whole) /\ ~(j > Len(whole))
      BY <3>6
    <3>11. \A j \in 1 .. l - 1 : Frames'[j] = Frames[j] /\ Extents'[j] = Extents[j]
      <4>1. \A j \in 1 .. l - 1 : Frames'[j] = Frames[j]
        BY <3>6, <3>9, <3>10 DEF Frames
      <4>2. \A j \in 1 .. l - 1 : Extents'[j] = 2 + segs[Frames'[j]]
        BY <3>9, <3>10 DEF Extents
      <4> QED
        BY <3>6, <3>10, <4>1, <4>2
    <3>12. OneLess(f, l, Frames, Extents, Frames', Extents', t)
      <4>1. \A j \in f .. l - 1 : j \in 1 .. l - 1
        BY <3>8
      <4>2. l \in 1 .. l /\ l > Len(whole)
        BY <3>6
      <4>3. Extents[l] = 2
        BY <3>6, <4>2
      <4> QED
        BY <3>2, <3>11, <4>1, <4>3 DEF OneLess
    <3>13. /\ \E at : Layout(at, f, l - 1, Frames', Extents', base, s)
           /\ base < 0 => f <= l - 1
      <4>1. PICK at : Layout(at, f, l, Frames, Extents, base, s \o t)
        BY <3>7
      <4>2. f \in Nat /\ l \in Nat /\ f <= l /\ base \in Int /\ s \in Seq(Units) /\ t \in Seq(Units)
        BY <2>2, <3>6, <3>8
      <4> QED
        BY <3>12, <4>1, <4>2, LayoutCut
    <3>14. DeliveredFirst'
      BY <3>7 DEF DeliveredFirst, Trn!Payload
    <3>15. /\ rcv'.op # "discard"
           /\ rcv'.op = "segment" => f <= l - 1 /\ rcv'.want = segs[Frames'[f]]
      <4>1. rcv.op # "discard" /\ (rcv.op = "segment" => rcv.want = segs[Frames[f]])
        BY <1>6, <3>1, <3>4 DEF InStep
      <4>2. rcv.op = "segment" => f \in 1 .. l - 1
        BY <3>4, <3>6, <3>8, <3>13
      <4> QED
        BY <3>11, <4>1, <4>2
    <3> QED
      <4>1. /\ Len(delivered') + 1 = f /\ Flow' = s /\ segs' = segs
            /\ base = IF rcv'.op = "segment" THEN -2 ELSE 0
        BY <2>2, <3>4
      <4> QED
        BY <3>9, <3>13, <3>14, <3>15, <4>1 DEF InStep
  <2> QED
    BY <1>2, <1>3, <1>4, <2>3, <2>4
<1> QED
  BY <1>5, <1>6

\* Neither a time-out nor an error of Send leaves anything else behind.
LEMMA SendStops ==
    ASSUME Trn!TransportConstants, TransportIInv, Trn!SendNotReady \/ Trn!SendFails
    PROVE  TransportIInv'
<1>1. /\ dev' \in [kind : Trn!Kinds \cup {"none"}, wr : BOOLEAN, rd : BOOLEAN, released : BOOLEAN]
      /\ dev'.kind = dev.kind /\ snd.op # "idle" /\ UNCHANGED <<wire, segs, rcv, whole, delivered>>
  BY DEF Trn!SendNotReady, Trn!SendFails, TransportIInv, TransportTypeOK
<1>2. CASE Trn!GiveUpSend
  BY <1>1, <1>2, SendGivesUp
<1>3. CASE snd.tries > 0 /\ snd' = [snd EXCEPT !.tries = @ - 1] /\ cut' = cut
  <2> USE DEF TransportIInv
  <2>1. /\ snd' \in [op : {"idle", "header", "segment"}, left : Seq(Units), tries : Nat]
        /\ snd'.op = snd.op /\ snd'.left = snd.left /\ (Trn!IsStream' <=> Trn!IsStream)
    <3>1. snd \in [op : {"idle", "header", "segment"}, left : Seq(Units), tries : Nat]
      BY DEF TransportTypeOK
    <3>2. snd.tries - 1 \in Nat
      BY <1>3, <3>1
    <3> QED
      BY <1>1, <1>3, <3>1, <3>2 DEF Trn!IsStream
  <2>2. TransportTypeOK'
    BY <1>1, <1>3, <2>1 DEF TransportTypeOK
  <2>3. LeftToSend' /\ BeingReceived'
    BY <1>1, <2>1 DEF LeftToSend, BeingReceived, Trn!Payload
  <2>4. UnitsInOrder' /\ InStep'
    <3>1. CASE Trn!IsStream
      <4>1. Flow' = Flow
        BY <1>1, <2>1 DEF Flow
      <4> QED
        BY <1>1, <1>3, <2>1, <3>1, <4>1, StreamStays
    <3>2. CASE ~Trn!IsStream
      BY <2>1, <3>2 DEF UnitsInOrder, InStep
    <3> QED
      BY <3>1, <3>2
  <2>5. MessagesOnTheWire'
    BY <1>1, MessagesStay
  <2> QED
    BY <2>2, <2>3, <2>4, <2>5
<1> QED
  BY <1>2, <1>3 DEF Trn!SendNotReady, Trn!SendFails

-----------------------------------------------------------------------------
\* Nothing is ahead in two lists put together if nothing is in either.
LEMMA NotAheadParts ==
    ASSUME NEW s \in Seq(Units), NEW t \in Seq(Units)
    PROVE  NotAhead(s \o t) <=> NotAhead(s) /\ NotAhead(t)
<1>1. /\ Len(s) \in Nat /\ Len(t) \in Nat /\ Len(s \o t) = Len(s) + Len(t)
      /\ \A i \in 1 .. Len(s) : (s \o t)[i] = s[i]
      /\ \A i \in 1 .. Len(t) : (s \o t)[Len(s) + i] = t[i]
  BY ConcatParts
<1>2. NotAhead(s \o t) => NotAhead(s)
  <2>1. \A i \in 1 .. Len(s) : i \in 1 .. Len(s \o t)
    BY <1>1
  <2> QED
    BY <1>1, <2>1 DEF NotAhead
<1>3. NotAhead(s \o t) => NotAhead(t)
  <2> SUFFICES ASSUME NotAhead(s \o t), NEW i \in 1 .. Len(t)
               PROVE  t[i][1] <= Len(segs) /\ (snd.op = "header" /\ t[i][1] = Len(segs) => t[i][2] <= 2)
    BY DEF NotAhead
  <2>1. Len(s) + i \in 1 .. Len(s \o t) /\ (s \o t)[Len(s) + i] = t[i]
    BY <1>1
  <2> QED
    BY <2>1 DEF NotAhead
<1>4. ASSUME NotAhead(s), NotAhead(t) PROVE NotAhead(s \o t)
  <2> SUFFICES ASSUME NEW i \in 1 .. Len(s \o t)
               PROVE  /\ (s \o t)[i][1] <= Len(segs)
                      /\ snd.op = "header" /\ (s \o t)[i][1] = Len(segs) => (s \o t)[i][2] <= 2
    BY DEF NotAhead
  <2>1. CASE i \in 1 .. Len(s)
    BY <1>1, <1>4, <2>1 DEF NotAhead
  <2>2. CASE i - Len(s) \in 1 .. Len(t)
    <3>1. PICK j \in 1 .. Len(t) : i = Len(s) + j
      <4>1. i = Len(s) + (i - Len(s))
        <5>1. i \in Int /\ Len(s) \in Int
          BY <1>1
        <5> QED
          BY <5>1
      <4> QED
        BY <2>2, <4>1
    <3>2. (s \o t)[i] = t[j]
      BY <1>1, <3>1
    <3> QED
      BY <1>4, <3>2 DEF NotAhead
  <2> QED
    BY <1>1, <2>1, <2>2
<1> QED
  BY <1>2, <1>3, <1>4

\* ReleaseThread puts its octets on the wire.  A stream is out of step from then on.
LEMMA ReleaseKeeps ==
    ASSUME Trn!TransportConstants, TransportIInv, Trn!ReleaseThread PROVE TransportIInv'
<1> USE DEF TransportIInv
<1>1. /\ dev.kind \in {"queue", "tcp"} /\ dev'.kind = dev.kind
      /\ dev' \in [kind : Trn!Kinds \cup {"none"}, wr : BOOLEAN, rd : BOOLEAN, released : BOOLEAN]
      /\ wire' = Append(wire, Trn!Release) /\ cut' = (cut \/ Trn!IsStream) /\ cut' \in BOOLEAN
      /\ UNCHANGED <<segs, snd, rcv, whole, delivered>>
  BY DEF Trn!ReleaseThread, TransportTypeOK
<1>2. (Trn!IsStream' <=> Trn!IsStream) /\ dev.kind # "none"
  BY <1>1 DEF Trn!IsStream
<1>3. Trn!Release \in (IF Trn!IsStream THEN Units ELSE Seq(Units))
  <2>1. <<0, 1>> \in Units
    BY DEF Units
  <2>2. <<<<0, 1>>>> \in Seq(Units)
    BY <2>1
  <2> QED
    BY <2>1, <2>2 DEF Trn!Release
<1>4. wire' \in Seq(IF Trn!IsStream THEN Units ELSE Seq(Units))
  <2>1. wire \in Seq(IF Trn!IsStream THEN Units ELSE Seq(Units))
    BY DEF TransportTypeOK
  <2> QED
    BY <1>1, <1>3, <2>1, AppendProperties
<1>5. TransportTypeOK'
  BY <1>1, <1>2, <1>4 DEF TransportTypeOK
<1>6. LeftToSend' /\ BeingReceived'
  BY <1>1, <1>2 DEF LeftToSend, BeingReceived, Trn!Payload
<1>7. CASE Trn!IsStream
  <2>1. PICK r, s, t : r = <<0, 1>> /\ s = rcv.buf \o wire /\ t = snd.left
    OBVIOUS
  <2>2. /\ rcv.buf \in Seq(Units) /\ wire \in Seq(Units) /\ s \in Seq(Units) /\ t \in Seq(Units)
        /\ Flow = s \o t /\ r \in Units /\ r[1] = 0 /\ r[2] = 1
    BY <1>7, <2>1, FlowType DEF Flow, Units
  <2>3. Flow' = (s \o <<r>>) \o t
    <3>0. PICK b : b = rcv.buf
      OBVIOUS
    <3>1. rcv.buf \o Append(wire, r) = Append(s, r)
      <4>1. b \in Seq(Units) /\ wire \in Seq(Units) /\ r \in Units
        BY <2>2, <3>0
      <4>2. b \o Append(wire, r) = Append(b \o wire, r)
        BY <4>1, AppendAfter
      <4> QED
        BY <2>1, <3>0, <4>2
    <3>2. Append(s, r) = s \o <<r>>
      BY <2>2, AppendIsConcat
    <3> QED
      BY <1>1, <1>7, <2>1, <3>1, <3>2 DEF Flow, Trn!Release
  <2>4. UnitsInOrder'
    <3>1. /\ delivered \in Seq(Seq(Units)) /\ InOrder(delivered, s \o t) /\ NotAhead(s \o t)
          /\ \A d \in 1 .. Len(delivered) : NotAhead(delivered[d])
      BY <1>7, <2>2 DEF UnitsInOrder, TransportTypeOK
    <3>2. InOrder(delivered, (s \o <<r>>) \o t)
      BY <2>2, <3>1, InOrderReleased
    <3>3. <<r>> \in Seq(Units) /\ s \o <<r>> \in Seq(Units) /\ Len(<<r>>) = 1 /\ <<r>>[1] = r
      BY <2>2, ConcatProperties
    <3>4. NotAhead(<<r>>)
      <4>1. \A i \in 1 .. Len(<<r>>) : <<r>>[i] = r
        BY <3>3
      <4>2. Len(segs) \in Nat
        BY LenProperties DEF TransportTypeOK
      <4> QED
        BY <2>2, <4>1, <4>2 DEF NotAhead
    <3>5. NotAhead((s \o <<r>>) \o t)
      <4>1. NotAhead(s) /\ NotAhead(t)
        BY <2>2, <3>1, NotAheadParts
      <4>2. NotAhead(s \o <<r>>)
        BY <2>2, <3>3, <3>4, <4>1, NotAheadParts
      <4> QED
        BY <2>2, <3>3, <4>1, <4>2, NotAheadParts
    <3> QED
      <4>1. InOrder(delivered, Flow') /\ NotAhead(Flow')
        BY <2>3, <3>2, <3>5
      <4>2. InOrder(delivered, Flow)' /\ NotAhead(Flow)'
        BY <1>1, <4>1 DEF InOrder, NotAhead
      <4>3. (\A d \in 1 .. Len(delivered) : NotAhead(delivered[d]))'
        BY <1>1, <3>1 DEF NotAhead
      <4> QED
        BY <4>2, <4>3 DEF UnitsInOrder
  <2>5. InStep'
    BY <1>1, <1>7 DEF InStep
  <2>6. MessagesOnTheWire'
    BY <1>2, <1>7 DEF MessagesOnTheWire, Trn!IsStream, Trn!Streams
  <2> QED
    BY <1>5, <1>6, <2>4, <2>5, <2>6
<1>8. CASE ~Trn!IsStream
  <2>1. UnitsInOrder' /\ InStep'
    BY <1>2, <1>8 DEF UnitsInOrder, InStep
  <2>2. dev.kind = "queue" /\ wire \in Seq(Seq(Units)) /\ Trn!Release = <<<<0, 1>>>>
        /\ Trn!Release \in Seq(Units)
    BY <1>1, <1>3, <1>8 DEF Trn!IsStream, Trn!Streams, TransportTypeOK, Trn!Release
  <2>3. /\ Len(wire) \in Nat /\ Len(wire') = Len(wire) + 1 /\ wire'[Len(wire) + 1] = <<<<0, 1>>>>
        /\ \A i \in 1 .. Len(wire) : wire'[i] = wire[i]
    BY <1>1, <2>2, AppendProperties, LenProperties
  <2>4. DeliveredFirst /\ \E num : Queued(num)
    BY <2>2 DEF MessagesOnTheWire
  <2>5. PICK num : Queued(num)
    BY <2>4
  <2>6. /\ num \in [0 .. Len(wire) -> 0 .. Len(whole)]
        /\ num[0] = Len(delivered) /\ num[Len(wire)] = Len(whole)
        /\ \A i \in 1 .. Len(wire) :
              \/ wire[i] = <<<<0, 1>>>> /\ num[i] = num[i - 1]
              \/ num[i] = num[i - 1] + 1 /\ wire[i] = Trn!Payload(whole[num[i]])
    BY <2>5 DEF Queued
  <2>7. PICK num2 : num2 = [i \in 0 .. Len(wire) + 1 |->
                               IF i = Len(wire) + 1 THEN Len(whole) ELSE num[i]]
    OBVIOUS
  <2>8. /\ num2 \in [0 .. Len(wire) + 1 -> 0 .. Len(whole)] /\ num2[Len(wire) + 1] = Len(whole)
        /\ \A i \in 0 .. Len(wire) : num2[i] = num[i]
    <3>1. \A i \in 0 .. Len(wire) : i # Len(wire) + 1 /\ i \in 0 .. Len(wire) + 1
      BY <2>3
    <3>2. \A i \in 0 .. Len(wire) + 1 : i \in 0 .. Len(wire) \/ i = Len(wire) + 1
      BY <2>3
    <3>3. Len(wire) + 1 \in 0 .. Len(wire) + 1 /\ Len(whole) \in 0 .. Len(whole)
      BY <2>3, LenProperties DEF TransportTypeOK
    <3> QED
      BY <2>6, <2>7, <3>1, <3>2, <3>3
  <2>9. ASSUME NEW i \in 1 .. Len(wire) + 1
        PROVE  \/ wire'[i] = <<<<0, 1>>>> /\ num2[i] = num2[i - 1]
               \/ num2[i] = num2[i - 1] + 1 /\ wire'[i] = Trn!Payload(whole[num2[i]])
    <3>1. CASE i = Len(wire) + 1
      <4>1. i - 1 = Len(wire) /\ i - 1 \in 0 .. Len(wire)
        BY <2>3, <3>1
      <4> QED
        BY <2>3, <2>6, <2>8, <3>1, <4>1
    <3>2. CASE i \in 1 .. Len(wire)
      <4>1. i \in 0 .. Len(wire) /\ i - 1 \in 0 .. Len(wire)
        BY <3>2
      <4>2. num2[i] = num[i] /\ num2[i - 1] = num[i - 1] /\ wire'[i] = wire[i]
        BY <2>3, <2>8, <3>2, <4>1
      <4>3. \/ wire[i] = <<<<0, 1>>>> /\ num[i] = num[i - 1]
            \/ num[i] = num[i - 1] + 1 /\ wire[i] = Trn!Payload(whole[num[i]])
        BY <2>6, <3>2
      <4> QED
        BY <4>2, <4>3
    <3> QED
      BY <2>3, <3>1, <3>2
  <2>10. \A k : Trn!Payload(k)' = Trn!Payload(k)
    BY <1>1 DEF Trn!Payload
  <2>11. Queued(num2)'
    <3>1. 0 \in 0 .. Len(wire)
      BY <2>3
    <3>2. /\ num2 \in [0 .. Len(wire') -> 0 .. Len(whole')] /\ num2[Len(wire')] = Len(whole')
          /\ num2[0] = Len(delivered')
      BY <1>1, <2>3, <2>6, <2>8, <3>1
    <3>3. \A i \in 1 .. Len(wire') :
             \/ wire'[i] = <<<<0, 1>>>> /\ num2[i] = num2[i - 1]
             \/ num2[i] = num2[i - 1] + 1 /\ wire'[i] = Trn!Payload(whole[num2[i]])'
      BY <1>1, <2>3, <2>9, <2>10
    <3> QED
      BY <3>2, <3>3 DEF Queued
  <2>12. DeliveredFirst'
    BY <1>1, <2>4, <2>10 DEF DeliveredFirst
  <2>13. MessagesOnTheWire'
    BY <1>1, <2>2, <2>11, <2>12 DEF MessagesOnTheWire
  <2> QED
    BY <1>5, <1>6, <2>1, <2>13
<1> QED
  BY <1>7, <1>8

-----------------------------------------------------------------------------
\* What a flow begins with: the first frame, from base on.
Leading(f, l, frame, extent, base, flow) ==
    /\ f = l + 1 => base = Len(flow)
    /\ f <= l =>
          /\ extent[f] \in Nat /\ base + extent[f] <= Len(flow)
          /\ f = l => base + extent[f] = Len(flow)
          /\ \A p \in 1 .. extent[f] : base + p >= 1 => flow[base + p] = <<frame[f], p>>

\* A layout tells what its flow begins with.
LEMMA LayoutFirst ==
    ASSUME NEW f \in Nat, NEW l \in Nat, f <= l + 1, NEW base \in Int, NEW at,
           NEW flow \in Seq(Units), NEW frame, NEW extent, Layout(at, f, l, frame, extent, base, flow)
    PROVE  Leading(f, l, frame, extent, base, flow)
<1>1. at[f] = base /\ at[l + 1] = Len(flow)
  BY DEF Layout
<1>2. Framed(at, f, l, frame, extent, flow)
  BY LayoutFrames
<1>3. ASSUME f <= l
      PROVE  /\ extent[f] \in Nat /\ base + extent[f] <= Len(flow)
             /\ f = l => base + extent[f] = Len(flow)
             /\ \A p \in 1 .. extent[f] : base + p >= 1 => flow[base + p] = <<frame[f], p>>
  <2>1. f \in f .. l
    BY <1>3
  <2>2. /\ extent[f] \in Nat /\ at[f + 1] = at[f] + extent[f] /\ at[f + 1] <= Len(flow)
        /\ \A p \in 1 .. extent[f] : at[f] + p >= 1 => flow[at[f] + p] = <<frame[f], p>>
    BY <1>2, <2>1 DEF Framed
  <2> QED
    BY <1>1, <2>2
<1> QED
  BY <1>1, <1>3 DEF Leading

\* What Recv has after one of its reads, and where it is then.
LEMMA AfterReadShape ==
    ASSUME Trn!TransportConstants, TransportTypeOK, NEW buf \in Seq(Units), Trn!AfterRead(buf)
    PROVE  /\ rcv' \in [op : {"idle", "header", "discard", "segment"}, want : Nat, buf : Seq(Units),
                        tries : Nat]
           /\ rcv'.buf = <<>> /\ rcv'.op # "header"
           /\ delivered' \in Seq(Seq(Units))
           /\ delivered' = delivered \/ delivered' = Append(delivered, buf)
<1>1. ASSUME NEW message \in Seq(Units), Trn!Return(message), message = <<>> \/ message = buf
      PROVE  /\ rcv' \in [op : {"idle", "header", "discard", "segment"}, want : Nat, buf : Seq(Units),
                          tries : Nat]
             /\ rcv'.buf = <<>> /\ rcv'.op # "header"
             /\ delivered' \in Seq(Seq(Units))
             /\ delivered' = delivered \/ delivered' = Append(delivered, buf)
  <2>1. /\ rcv' \in [op : {"idle", "header", "discard", "segment"}, want : Nat, buf : Seq(Units),
                     tries : Nat]
        /\ rcv'.op = "idle" /\ rcv'.buf = <<>>
        /\ delivered' = IF Len(message) >= SegData THEN Append(delivered, message) ELSE delivered
        /\ delivered' \in Seq(Seq(Units))
    BY <1>1, ReturnShape
  <2>2. message = <<>> => ~(Len(message) >= SegData)
    BY EmptySeq DEF Trn!TransportConstants
  <2> QED
    BY <1>1, <2>1, <2>2
<1>2. ASSUME NEW op \in {"segment", "discard"}, NEW len \in Nat, Trn!Expect(op, len)
      PROVE  /\ rcv' \in [op : {"idle", "header", "discard", "segment"}, want : Nat, buf : Seq(Units),
                          tries : Nat]
             /\ rcv'.buf = <<>> /\ rcv'.op # "header" /\ delivered' = delivered
  <2>1. rcv' = [op |-> op, want |-> len, buf |-> <<>>, tries |-> Retries] /\ delivered' = delivered
    BY <1>2 DEF Trn!Expect
  <2>2. <<>> \in Seq(Units) /\ Retries \in Nat
    BY EmptySeq DEF Trn!TransportConstants
  <2> QED
    BY <2>1, <2>2
<1>3. <<>> \in Seq(Units) /\ delivered \in Seq(Seq(Units)) /\ rcv.want \in Nat
  BY EmptySeq DEF TransportTypeOK
<1>4. CASE \E message \in Seq(Units) : Trn!Return(message) /\ (message = <<>> \/ message = buf)
  BY <1>1, <1>4
<1>5. CASE \E op \in {"segment", "discard"}, len \in Nat : Trn!Expect(op, len)
  BY <1>2, <1>3, <1>5
<1>6. ASSUME NEW h \in Trn!DecodeHeader(buf) PROVE h.len \in Nat
  <2>1. CASE \E n \in DOMAIN segs : buf = Trn!Header(n)
    <3>1. PICK n \in DOMAIN segs : buf = Trn!Header(n)
      BY <2>1
    <3>2. buf[1][1] = n /\ h = [ipc |-> TRUE, len |-> segs[buf[1][1]]]
      BY <1>6, <2>1, <3>1 DEF Trn!DecodeHeader, Trn!Header
    <3>3. n \in 1 .. Len(segs)
      BY LenProperties DEF TransportTypeOK
    <3> QED
      BY <3>2, <3>3, PayloadUnits
  <2>2. CASE ~\E n \in DOMAIN segs : buf = Trn!Header(n)
    <3>1. h \in [ipc : BOOLEAN, len : Sizes] \cup {[ipc |-> FALSE, len |-> 0]}
      BY <1>6, <2>2 DEF Trn!DecodeHeader, Trn!Foreign
    <3>2. \A x \in Sizes : x \in Nat
      BY DEF Trn!TransportConstants
    <3>3. h.len \in Sizes \/ h.len = 0
      BY <3>1
    <3> QED
      BY <3>2, <3>3
  <2> QED
    BY <2>1, <2>2
<1>7. \/ \E message \in Seq(Units) : Trn!Return(message) /\ (message = <<>> \/ message = buf)
      \/ \E op \in {"segment", "discard"}, len \in Nat : Trn!Expect(op, len)
  <2>1. CASE Trn!Return(<<>>) \/ Trn!Return(buf)
    BY <1>3, <2>1
  <2>2. CASE \E h \in Trn!DecodeHeader(buf) : Trn!Expect(IF h.ipc THEN "segment" ELSE "discard", h.len)
    BY <1>6, <2>2
  <2>3. CASE Trn!Expect("segment", rcv.want)
    BY <1>3, <2>3
  <2> QED
    BY <2>1, <2>2, <2>3 DEF Trn!AfterRead
<1> QED
  BY <1>4, <1>5, <1>7, <1>3

\* A whole header has been read: in step, it is the one of the segment that comes next.
LEMMA HeaderRead ==
    ASSUME Trn!TransportConstants, TransportIInv, Trn!IsStream, ~cut, rcv.op = "header",
           NEW buf \in Seq(Units), NEW rest \in Seq(Units), Len(buf) = 2, Flow = buf \o rest,
           Trn!AfterRead(buf)
    PROVE  /\ Len(delivered) + 1 <= LastFrame /\ delivered' = delivered
           /\ rcv'.op = "segment" /\ rcv'.want = segs[Frames[Len(delivered) + 1]]
           /\ \E at : Layout(at, Len(delivered) + 1, LastFrame, Frames, Extents, -2, rest)
<1> USE DEF TransportIInv
<1>1. PICK f, l : f = Len(delivered) + 1 /\ l = LastFrame
  OBVIOUS
<1>2. /\ l \in Nat /\ Len(whole) \in Nat /\ Len(delivered) \in Nat
      /\ l = IF snd.op = "idle" THEN Len(whole) ELSE Len(whole) + 1
      /\ \A j \in 1 .. l : Frames[j] \in 1 .. Len(segs) /\ Extents[j] >= 2
  <2>1. \A x \in Nat : 2 + x >= 2
    OBVIOUS
  <2>2. \A j \in 1 .. l : \E x \in Nat : Extents[j] = 2 + x
    BY <1>1, FrameTypes
  <2> QED
    BY <1>1, <2>1, <2>2, FrameTypes
<1>3. DeliveredFirst /\ \E at : Layout(at, f, l, Frames, Extents, 0, buf \o rest)
  BY <1>1 DEF InStep
<1>4. f \in Nat /\ f >= 1 /\ f <= l + 1
  BY <1>1, <1>2, <1>3 DEF DeliveredFirst
<1>5. PICK at : Layout(at, f, l, Frames, Extents, 0, buf \o rest)
  BY <1>3
<1>6. /\ Len(rest) \in Nat /\ Len(buf \o rest) = 2 + Len(rest) /\ buf \o rest \in Seq(Units)
      /\ \A i \in 1 .. 2 : (buf \o rest)[i] = buf[i]
  <2>1. /\ Len(rest) \in Nat /\ Len(buf \o rest) = Len(buf) + Len(rest)
        /\ \A i \in 1 .. Len(buf) : (buf \o rest)[i] = buf[i]
    BY ConcatParts
  <2>2. buf \o rest \in Seq(Units)
    BY ConcatProperties
  <2> QED
    BY <2>1, <2>2
<1>7. Leading(f, l, Frames, Extents, 0, buf \o rest)
  <2>1. 0 \in Int
    OBVIOUS
  <2> QED
    BY <1>2, <1>4, <1>5, <1>6, <2>1, LayoutFirst
<1>8. f <= l /\ f \in 1 .. l
  <2>1. f # l + 1
    BY <1>6, <1>7 DEF Leading
  <2> QED
    BY <1>2, <1>4, <2>1
<1>9. PICK n : n = Frames[f]
  OBVIOUS
<1>10. n \in 1 .. Len(segs) /\ n \in Nat
  <2>1. n \in 1 .. Len(segs)
    BY <1>2, <1>8, <1>9
  <2> QED
    BY <2>1, LenProperties DEF TransportTypeOK
<1>11. buf = Trn!Header(n)
  <2>1. \A p \in 1 .. 2 : buf[p] = <<n, p>>
    <3> TAKE p \in 1 .. 2
    <3>1. p \in 1 .. Extents[f] /\ 0 + p >= 1 /\ 0 + p = p
      <4>1. Extents[f] >= 2 /\ Extents[f] \in Nat
        BY <1>2, <1>7, <1>8 DEF Leading
      <4> QED
        BY <4>1
    <3>2. (buf \o rest)[p] = <<n, p>>
      BY <1>7, <1>8, <1>9, <3>1 DEF Leading
    <3> QED
      BY <1>6, <3>2
  <2>2. /\ Trn!Header(n) \in Seq(Units) /\ Len(Trn!Header(n)) = 2
        /\ \A p \in 1 .. 2 : Trn!Header(n)[p] = <<n, p>>
    BY <1>10, HeaderUnits
  <2> QED
    BY <2>1, <2>2, SeqEqual
<1>12. rcv' = [op |-> "segment", want |-> segs[n], buf |-> <<>>, tries |-> Retries]
       /\ delivered' = delivered
  <2>1. n \in DOMAIN segs
    BY <1>10, LenProperties DEF TransportTypeOK
  <2>2. buf[1][1] = n
    BY <1>11 DEF Trn!Header
  <2>3. PICK h : h \in Trn!DecodeHeader(buf)
                 /\ IF h = Trn!Foreign THEN Trn!Return(<<>>)
                    ELSE Trn!Expect(IF h.ipc THEN "segment" ELSE "discard", h.len)
    BY DEF Trn!AfterRead, Trn!HeaderLen
  <2>4. h = [ipc |-> TRUE, len |-> segs[n]]
    BY <1>11, <2>1, <2>2, <2>3 DEF Trn!DecodeHeader
  <2>5. h.ipc /\ h.len = segs[n] /\ h # Trn!Foreign
    <3>1. h.ipc = TRUE /\ h.len = segs[n] /\ Trn!Foreign.ipc = FALSE
      BY <2>4 DEF Trn!Foreign
    <3> QED
      BY <3>1
  <2>6. Trn!Expect("segment", segs[n])
    BY <2>3, <2>5
  <2> QED
    BY <2>6 DEF Trn!Expect
<1>13. \E at2 : Layout(at2, f, l, Frames, Extents, -2, rest)
  <2>1. 0 - Len(buf) = -2 /\ 0 \in Int
    OBVIOUS
  <2>2. \E at2 : Layout(at2, f, l, Frames, Extents, 0 - Len(buf), rest)
    BY <1>2, <1>4, <1>5, <2>1, LayoutRead
  <2> QED
    BY <2>1, <2>2
<1> QED
  BY <1>1, <1>8, <1>9, <1>12, <1>13

\* A whole segment has been read: in step, it is the one that comes next.
LEMMA SegmentRead ==
    ASSUME Trn!TransportConstants, TransportIInv, Trn!IsStream, ~cut, rcv.op = "segment",
           NEW buf \in Seq(Units), NEW rest \in Seq(Units), Len(buf) = rcv.want,
           Flow = buf \o rest, Len(snd.left) <= Len(rest), Trn!AfterRead(buf)
    PROVE  /\ Len(delivered) + 1 <= Len(whole)
           /\ buf = Trn!Payload(whole[Len(delivered) + 1])
           /\ rcv'.op = "idle" /\ delivered' = Append(delivered, buf)
           /\ \E at : Layout(at, Len(delivered) + 2, LastFrame, Frames, Extents, 0, rest)
<1> USE DEF TransportIInv
<1>1. PICK f, l : f = Len(delivered) + 1 /\ l = LastFrame
  OBVIOUS
<1>2. /\ l \in Nat /\ Len(whole) \in Nat /\ Len(delivered) \in Nat
      /\ l = IF snd.op = "idle" THEN Len(whole) ELSE Len(whole) + 1
  BY <1>1, FrameTypes
<1>3. /\ f <= l /\ rcv.want = segs[Frames[f]]
      /\ \E at : Layout(at, f, l, Frames, Extents, -2, buf \o rest)
  BY <1>1 DEF InStep
<1>4. f \in Nat /\ f >= 1 /\ f \in 1 .. l
  BY <1>1, <1>2, <1>3
<1>5. PICK at : Layout(at, f, l, Frames, Extents, -2, buf \o rest)
  BY <1>3
<1>6. /\ Len(buf) \in Nat /\ Len(rest) \in Nat /\ Len(buf \o rest) = Len(buf) + Len(rest)
      /\ buf \o rest \in Seq(Units) /\ \A i \in 1 .. Len(buf) : (buf \o rest)[i] = buf[i]
  BY ConcatParts, ConcatProperties
<1>7. Leading(f, l, Frames, Extents, -2, buf \o rest)
  <2>1. -2 \in Int /\ f <= l + 1
    BY <1>2, <1>3, <1>4
  <2> QED
    BY <1>2, <1>4, <1>5, <1>6, <2>1, LayoutFirst
<1>8. PICK n : n = Frames[f]
  OBVIOUS
<1>9. /\ n = IF f <= Len(whole) THEN whole[f] ELSE Len(segs)
      /\ n \in 1 .. Len(segs) /\ segs[n] \in Nat /\ segs[n] > 1
      /\ Extents[f] = 2 + IF f > Len(whole) /\ snd.op = "header" THEN 0 ELSE segs[n]
  BY <1>1, <1>4, <1>8, FrameTypes
<1>10. f <= Len(whole)
  <2> SUFFICES ASSUME ~(f <= Len(whole)) PROVE FALSE
    OBVIOUS
  <2>1. f = l /\ f > Len(whole) /\ snd.op # "idle"
    BY <1>2, <1>3, <1>4
  <2>2. Len(rest) > 0
    <3>1. Len(snd.left) > 0 /\ Len(snd.left) \in Nat
      BY <2>1, LenProperties DEF LeftToSend, TransportTypeOK
    <3> QED
      BY <1>6, <3>1
  <2>3. Extents[f] \in Nat /\ -2 + Extents[f] = Len(buf) + Len(rest)
    BY <1>3, <1>6, <1>7, <2>1 DEF Leading
  <2>4. Extents[f] = 2 \/ Extents[f] = 2 + segs[n]
    BY <1>9
  <2>5. Len(buf) = segs[n]
    BY <1>3, <1>8
  <2> QED
    BY <1>6, <1>9, <2>2, <2>3, <2>4, <2>5
<1>11. n = whole[f] /\ Extents[f] = 2 + segs[n] /\ Len(buf) = segs[n]
  BY <1>2, <1>3, <1>4, <1>8, <1>9, <1>10
<1>12. buf = Trn!Payload(n)
  <2>1. \A p \in 1 .. segs[n] : buf[p] = <<n, 2 + p>>
    <3> TAKE p \in 1 .. segs[n]
    <3> DEFINE q == 2 + p
    <3>1. q \in 1 .. Extents[f] /\ -2 + q >= 1 /\ -2 + q = p
      <4>1. p \in Nat /\ p >= 1 /\ p <= segs[n] /\ segs[n] \in Nat
        BY <1>9
      <4>2. 2 + p \in 1 .. 2 + segs[n] /\ -2 + (2 + p) >= 1 /\ -2 + (2 + p) = p
        BY <4>1
      <4> QED
        BY <1>11, <4>2
    <3> HIDE DEF q
    <3>2. (buf \o rest)[-2 + q] = <<n, q>>
      BY <1>3, <1>7, <1>8, <3>1 DEF Leading
    <3>3. (buf \o rest)[p] = <<n, q>>
      BY <3>1, <3>2
    <3> QED
      BY <1>6, <1>11, <3>3 DEF q
  <2>2. /\ Trn!Payload(n) \in Seq(Units) /\ Len(Trn!Payload(n)) = segs[n]
        /\ \A p \in 1 .. segs[n] : Trn!Payload(n)[p] = <<n, 2 + p>>
    BY <1>9, PayloadUnits
  <2>3. Len(buf) = Len(Trn!Payload(n)) /\ \A p \in 1 .. Len(buf) : buf[p] = Trn!Payload(n)[p]
    BY <1>11, <2>1, <2>2
  <2> QED
    BY <2>2, <2>3, SeqEqual
<1>13. rcv'.op = "idle" /\ delivered' = Append(delivered, buf)
  <2>1. Trn!Return(buf)
    BY DEF Trn!AfterRead
  <2>2. Len(buf) >= SegData
    BY <1>9, <1>11, PayloadUnits
  <2> QED
    BY <2>1, <2>2, ReturnShape
<1>14. \E at2 : Layout(at2, Len(delivered) + 2, l, Frames, Extents, 0, rest)
  <2>1. PICK base : base = -2 - Len(buf)
    OBVIOUS
  <2>2. base \in Int /\ base + Extents[f] = 0 /\ f + 1 = Len(delivered) + 2
    <3>1. Len(buf) \in Nat /\ Extents[f] = 2 + Len(buf) /\ Len(delivered) \in Nat
      BY <1>2, <1>6, <1>11
    <3>2. -2 - Len(buf) \in Int /\ -2 - Len(buf) + (2 + Len(buf)) = 0
      BY <3>1
    <3> QED
      BY <1>1, <2>1, <3>1, <3>2
  <2>3. \E at2 : Layout(at2, f, l, Frames, Extents, base, rest)
    <3>1. -2 \in Int /\ f <= l + 1
      BY <1>2, <1>3, <1>4
    <3>2. \E at2 : Layout(at2, f, l, Frames, Extents, -2 - Len(buf), rest)
      BY <1>2, <1>4, <1>5, <3>1, LayoutRead
    <3> QED
      BY <2>1, <3>2
  <2>4. PICK at2 : Layout(at2, f, l, Frames, Extents, base, rest)
    BY <2>3
  <2>5. \E at3 : Layout(at3, f + 1, l, Frames, Extents, base + Extents[f], rest)
    BY <1>2, <1>3, <1>4, <2>2, <2>4, LayoutNext
  <2> QED
    BY <2>2, <2>5
<1> QED
  BY <1>1, <1>8, <1>10, <1>11, <1>12, <1>13, <1>14

\* One of the reads of Recv ends, with all it wanted or not.
LEMMA ReadEnds ==
    ASSUME Trn!TransportConstants, TransportIInv, Trn!IsStream, rcv.op # "idle",
           NEW buf \in Seq(Units), Trn!AfterRead(buf), wire' \in Seq(Units),
           (buf \o wire') \o snd.left = Flow,
           dev' \in [kind : Trn!Kinds \cup {"none"}, wr : BOOLEAN, rd : BOOLEAN, released : BOOLEAN],
           dev'.kind = dev.kind, UNCHANGED <<segs, snd, whole>>,
           \/ cut' = cut /\ Len(buf) = rcv.want
           \/ cut' = (cut \/ rcv.op # "header" \/ buf # <<>>)
    PROVE  TransportIInv'
<1> USE DEF TransportIInv
<1>1. /\ rcv' \in [op : {"idle", "header", "discard", "segment"}, want : Nat, buf : Seq(Units),
                   tries : Nat]
      /\ rcv'.buf = <<>> /\ rcv'.op # "header" /\ delivered' \in Seq(Seq(Units))
      /\ delivered' = delivered \/ delivered' = Append(delivered, buf)
  BY AfterReadShape
<1>2. Trn!IsStream' /\ dev.kind # "none" /\ cut' \in BOOLEAN /\ cut \in BOOLEAN
  BY DEF Trn!IsStream, Trn!Streams, TransportTypeOK
<1>3. TransportTypeOK'
  BY <1>1, <1>2 DEF TransportTypeOK, Trn!IsStream
<1>4. LeftToSend' /\ BeingReceived'
  BY <1>1, <1>2 DEF LeftToSend, BeingReceived
<1>5. MessagesOnTheWire'
  BY <1>2 DEF MessagesOnTheWire, Trn!IsStream, Trn!Streams
<1>6. PICK rest : rest = wire' \o snd.left
  OBVIOUS
<1>7. /\ rest \in Seq(Units) /\ Flow = buf \o rest /\ Flow' = rest
      /\ Len(rest) = Len(wire') + Len(snd.left) /\ Len(wire') \in Nat /\ Len(snd.left) \in Nat
  <2>1. PICK w, t : w = wire' /\ t = snd.left
    OBVIOUS
  <2>2. w \in Seq(Units) /\ t \in Seq(Units)
    BY <2>1 DEF TransportTypeOK
  <2>3. w \o t \in Seq(Units) /\ Len(w \o t) = Len(w) + Len(t) /\ Len(w) \in Nat /\ Len(t) \in Nat
    BY <2>2, ConcatProperties, LenProperties
  <2>4. (buf \o w) \o t = buf \o (w \o t)
    <3>1. buf \in Seq(Units)
      OBVIOUS
    <3> QED
      BY ONLY <2>2, <3>1, ConcatAssociative
  <2>5. Flow' = (<<>> \o w) \o t
    BY <1>1, <2>1 DEF Flow
  <2>6. <<>> \o w = w
    BY <2>2, ConcatEmptySeq
  <2> QED
    BY <1>6, <2>1, <2>3, <2>4, <2>5, <2>6
<1>8. UnitsInOrder'
  <2>1. \/ (Flow' = buf \/ Flow' = rest) /\ delivered' = delivered
        \/ Flow' = rest /\ delivered' = Append(delivered, buf)
    BY <1>1, <1>7
  <2> QED
    BY <1>7, <2>1, FlowKept
<1>9. InStep'
  <2> SUFFICES ASSUME ~cut' PROVE InStep'
    BY DEF InStep
  <2>1. ~cut /\ (Len(buf) = rcv.want \/ (rcv.op = "header" /\ buf = <<>>))
    BY <1>2
  <2>2. rcv.op # "discard" /\ rcv.op \in {"idle", "header", "discard", "segment"}
    BY <2>1 DEF InStep, TransportTypeOK
  <2>3. LastFrame' = LastFrame
    BY DEF LastFrame
  <2>4. Frames' = Frames
    BY <2>3 DEF Frames
  <2>5. Extents' = Extents
    BY <2>3, <2>4 DEF Extents
  <2>6. \A n : Trn!Payload(n)' = Trn!Payload(n)
    BY DEF Trn!Payload
  <2>7. CASE rcv.op = "header" /\ buf = <<>>
    <3>1. Trn!Return(<<>>)
      BY <2>7, EmptySeq DEF Trn!AfterRead, Trn!HeaderLen
    <3>2. rcv'.op = "idle" /\ delivered' = delivered
      <4>1. <<>> \in Seq(Units) /\ ~(Len(<<>>) >= SegData)
        BY EmptySeq DEF Trn!TransportConstants
      <4> QED
        BY <3>1, <4>1, ReturnShape
    <3>3. Flow' = Flow
      BY <1>7, <2>7, ConcatEmptySeq
    <3>4. cut' = cut
      BY <1>2, <2>1
    <3> QED
      BY <1>2, <2>7, <3>2, <3>3, <3>4, StreamStays
  <2>8. CASE rcv.op = "header" /\ Len(buf) = rcv.want
    <3>1. Len(buf) = 2
      BY <2>8 DEF BeingReceived
    <3>2. /\ Len(delivered) + 1 <= LastFrame /\ delivered' = delivered
          /\ rcv'.op = "segment" /\ rcv'.want = segs[Frames[Len(delivered) + 1]]
          /\ \E at : Layout(at, Len(delivered) + 1, LastFrame, Frames, Extents, -2, rest)
      BY <1>7, <2>1, <2>8, <3>1, HeaderRead
    <3>3. DeliveredFirst'
      BY <2>1, <2>6, <3>2 DEF InStep, DeliveredFirst
    <3> QED
      BY <1>7, <2>3, <2>4, <2>5, <3>2, <3>3 DEF InStep
  <2>9. CASE rcv.op = "segment" /\ Len(buf) = rcv.want
    <3>0. Len(snd.left) <= Len(rest)
      BY <1>7
    <3>1. /\ Len(delivered) + 1 <= Len(whole)
          /\ buf = Trn!Payload(whole[Len(delivered) + 1])
          /\ rcv'.op = "idle" /\ delivered' = Append(delivered, buf)
          /\ \E at : Layout(at, Len(delivered) + 2, LastFrame, Frames, Extents, 0, rest)
      BY <1>7, <2>1, <2>9, <3>0, SegmentRead
    <3>2. /\ Len(delivered) \in Nat /\ Len(delivered') = Len(delivered) + 1
          /\ delivered'[Len(delivered) + 1] = buf
          /\ \A k \in 1 .. Len(delivered) : delivered'[k] = delivered[k]
      BY <3>1, AppendProperties, LenProperties DEF TransportTypeOK
    <3>3. DeliveredFirst'
      <4>1. \A k \in 1 .. Len(delivered') : k \in 1 .. Len(delivered) \/ k = Len(delivered) + 1
        BY <3>2
      <4>2. \A k \in 1 .. Len(delivered) : delivered[k] = Trn!Payload(whole[k])
        BY <2>1 DEF InStep, DeliveredFirst
      <4>3. \A k \in 1 .. Len(delivered') : delivered'[k] = Trn!Payload(whole[k])
        BY <3>1, <3>2, <4>1, <4>2
      <4> QED
        BY <2>6, <3>1, <3>2, <4>3 DEF DeliveredFirst
    <3>4. Len(delivered') + 1 = Len(delivered) + 2
      BY <3>2
    <3> QED
      BY <1>7, <2>3, <2>4, <2>5, <3>1, <3>3, <3>4 DEF InStep
  <2> QED
    BY <2>1, <2>2, <2>7, <2>8, <2>9
<1> QED
  BY <1>3, <1>4, <1>5, <1>8, <1>9

\* RecvData of a stream takes some units out of the wire.
LEMMA StreamRecvKeeps ==
    ASSUME Trn!TransportConstants, TransportIInv, NEW k, Trn!StreamRecv(k) PROVE TransportIInv'
<1> USE DEF TransportIInv
<1>1. PICK c, buf :
      /\ c = SubSeq(wire, 1, k) /\ buf = rcv.buf \o c
      /\ Trn!IsStream /\ rcv.op # "idle" /\ k \in 1 .. rcv.want - Len(rcv.buf) /\ k <= Len(wire)
      /\ wire' = SubSeq(wire, k + 1, Len(wire))
      /\ IF Trn!ReadDone(buf, rcv.want)
         THEN Trn!AfterRead(buf)
         ELSE rcv' = [rcv EXCEPT !.buf = buf] /\ delivered' = delivered
      /\ UNCHANGED <<dev, segs, snd, whole, cut>>
  BY DEF Trn!StreamRecv
<1>2. PICK b, w, t : b = rcv.buf /\ w = wire' /\ t = snd.left
  OBVIOUS
<1>3. b \in Seq(Units) /\ wire \in Seq(Units) /\ t \in Seq(Units)
  BY <1>1, <1>2, FlowType
<1>4. c \in Seq(Units) /\ w \in Seq(Units) /\ c \o w = wire
  <2>1. k \in 0 .. Len(wire)
    BY <1>1, <1>3, LenProperties
  <2> QED
    BY <1>1, <1>2, <1>3, <2>1, SplitIsWhole
<1>5. buf \in Seq(Units) /\ (buf \o w) \o t = Flow
  <2>1. buf = b \o c
    BY <1>1, <1>2
  <2>2. b \o c \in Seq(Units)
    BY <1>3, <1>4, ConcatProperties
  <2>3. (b \o c) \o w = b \o (c \o w)
    <3>1. b \in Seq(Units) /\ c \in Seq(Units) /\ w \in Seq(Units)
      BY <1>3, <1>4
    <3> QED
      BY <3>1, ConcatAssociative
  <2> QED
    BY <1>2, <1>4, <2>1, <2>2, <2>3 DEF Flow
<1>6. /\ dev' \in [kind : Trn!Kinds \cup {"none"}, wr : BOOLEAN, rd : BOOLEAN, released : BOOLEAN]
      /\ (Trn!IsStream' <=> Trn!IsStream) /\ dev.kind # "none"
  BY <1>1 DEF TransportTypeOK, Trn!IsStream, Trn!Streams
<1>7. CASE Trn!ReadDone(buf, rcv.want)
  <2>1. Len(buf) = rcv.want /\ Trn!AfterRead(buf)
    BY <1>1, <1>7 DEF Trn!ReadDone
  <2>2. wire' \in Seq(Units) /\ (buf \o wire') \o snd.left = Flow
    BY <1>2, <1>4, <1>5
  <2> QED
    BY <1>1, <1>5, <1>6, <2>1, <2>2, ReadEnds
<1>8. CASE ~Trn!ReadDone(buf, rcv.want)
  <2>1. rcv' = [rcv EXCEPT !.buf = buf] /\ delivered' = delivered
    BY <1>1, <1>8
  <2>2. /\ rcv' \in [op : {"idle", "header", "discard", "segment"}, want : Nat, buf : Seq(Units),
                     tries : Nat]
        /\ rcv'.op = rcv.op /\ rcv'.want = rcv.want /\ rcv'.buf = buf
    <3>1. rcv \in [op : {"idle", "header", "discard", "segment"}, want : Nat, buf : Seq(Units),
                   tries : Nat]
      BY DEF TransportTypeOK
    <3> QED
      BY <1>5, <2>1, <3>1
  <2>3. TransportTypeOK'
    BY <1>1, <1>2, <1>4, <1>6, <2>1, <2>2 DEF TransportTypeOK
  <2>4. LeftToSend' /\ BeingReceived'
    BY <1>1, <1>6, <2>2 DEF LeftToSend, BeingReceived
  <2>5. Flow' = Flow
    BY <1>1, <1>2, <1>5, <2>2 DEF Flow
  <2>6. UnitsInOrder' /\ InStep'
    BY <1>1, <1>6, <2>1, <2>2, <2>5, StreamStays
  <2>7. MessagesOnTheWire'
    BY <1>1, <1>6 DEF MessagesOnTheWire, Trn!IsStream, Trn!Streams
  <2> QED
    BY <2>3, <2>4, <2>6, <2>7
<1> QED
  BY <1>7, <1>8

\* The loop of IoDev::Recv ends early, over a stream or over messages.
LEMMA RecvGivesUp ==
    ASSUME Trn!TransportConstants, TransportIInv, rcv.op # "idle", Trn!GiveUpRecv,
           dev' \in [kind : Trn!Kinds \cup {"none"}, wr : BOOLEAN, rd : BOOLEAN, released : BOOLEAN],
           dev'.kind = dev.kind, UNCHANGED <<wire, segs, snd, whole>>
    PROVE  TransportIInv'
<1> USE DEF TransportIInv
<1>1. CASE Trn!IsStream
  <2>1. /\ rcv.buf \in Seq(Units) /\ wire' \in Seq(Units)
        /\ (rcv.buf \o wire') \o snd.left = Flow
    BY <1>1, FlowType DEF Flow
  <2>2. Trn!AfterRead(rcv.buf) /\ cut' = (cut \/ rcv.op # "header" \/ rcv.buf # <<>>)
    BY <1>1 DEF Trn!GiveUpRecv
  <2> QED
    BY <1>1, <2>1, <2>2, ReadEnds
<1>2. CASE ~Trn!IsStream
  <2>1. Trn!Return(<<>>) /\ cut' = cut /\ cut \in BOOLEAN
    BY <1>2 DEF Trn!GiveUpRecv, TransportTypeOK
  <2>2. /\ rcv' \in [op : {"idle", "header", "discard", "segment"}, want : Nat, buf : Seq(Units),
                     tries : Nat]
        /\ rcv'.op = "idle" /\ rcv'.buf = <<>> /\ delivered' = delivered
    <3>1. <<>> \in Seq(Units) /\ ~(Len(<<>>) >= SegData)
      BY EmptySeq DEF Trn!TransportConstants
    <3> QED
      BY <2>1, <3>1, ReturnShape
  <2>3. (Trn!IsStream' <=> Trn!IsStream) /\ dev.kind # "none"
    BY DEF Trn!IsStream, TransportTypeOK
  <2>4. TransportTypeOK'
    BY <2>1, <2>2, <2>3 DEF TransportTypeOK
  <2>5. LeftToSend' /\ BeingReceived' /\ UnitsInOrder' /\ InStep'
    BY <1>2, <2>2, <2>3 DEF LeftToSend, BeingReceived, UnitsInOrder, InStep, Trn!Payload
  <2>6. MessagesOnTheWire'
    BY <2>2, MessagesStay
  <2> QED
    BY <2>4, <2>5, <2>6
<1> QED
  BY <1>1, <1>2

\* Neither a time-out nor an error of Recv delivers anything that was not sent.
LEMMA RecvStops ==
    ASSUME Trn!TransportConstants, TransportIInv, Trn!RecvNotReady \/ Trn!RecvFails
    PROVE  TransportIInv'
<1>1. /\ dev' \in [kind : Trn!Kinds \cup {"none"}, wr : BOOLEAN, rd : BOOLEAN, released : BOOLEAN]
      /\ dev'.kind = dev.kind /\ rcv.op # "idle" /\ UNCHANGED <<wire, segs, snd, whole>>
  BY DEF Trn!RecvNotReady, Trn!RecvFails, TransportIInv, TransportTypeOK
<1>2. CASE Trn!GiveUpRecv
  BY <1>1, <1>2, RecvGivesUp
<1>3. CASE rcv.tries > 0 /\ rcv' = [rcv EXCEPT !.tries = @ - 1] /\ UNCHANGED <<delivered, cut>>
  <2> USE DEF TransportIInv
  <2>1. /\ rcv' \in [op : {"idle", "header", "discard", "segment"}, want : Nat, buf : Seq(Units),
                     tries : Nat]
        /\ rcv'.op = rcv.op /\ rcv'.buf = rcv.buf /\ rcv'.want = rcv.want
        /\ (Trn!IsStream' <=> Trn!IsStream)
    <3>1. rcv \in [op : {"idle", "header", "discard", "segment"}, want : Nat, buf : Seq(Units),
                   tries : Nat]
      BY DEF TransportTypeOK
    <3>2. rcv.tries - 1 \in Nat
      BY <1>3, <3>1
    <3> QED
      BY <1>1, <1>3, <3>1, <3>2 DEF Trn!IsStream
  <2>2. TransportTypeOK'
    BY <1>1, <1>3, <2>1 DEF TransportTypeOK
  <2>3. LeftToSend' /\ BeingReceived'
    BY <1>1, <2>1 DEF LeftToSend, BeingReceived, Trn!Payload
  <2>4. UnitsInOrder' /\ InStep'
    <3>1. CASE Trn!IsStream
      <4>1. Flow' = Flow
        BY <1>1, <2>1 DEF Flow
      <4> QED
        BY <1>1, <1>3, <2>1, <3>1, <4>1, StreamStays
    <3>2. CASE ~Trn!IsStream
      BY <2>1, <3>2 DEF UnitsInOrder, InStep
    <3> QED
      BY <3>1, <3>2
  <2>5. MessagesOnTheWire'
    BY <1>1, <1>3, MessagesStay
  <2> QED
    BY <2>2, <2>3, <2>4, <2>5
<1> QED
  BY <1>2, <1>3 DEF Trn!RecvNotReady, Trn!RecvFails

-----------------------------------------------------------------------------
\* What Recv of a transport delivers is what Send was given, in order and whole, over a
\* stream as long as no frame has been left unfinished; and even after that no octet is
\* delivered twice or out of order.
THEOREM TransportsDeliverWhatIsSent ==
    ASSUME Trn!TransportConstants
    PROVE  Trn!TransportSpec => []DeliveredIsSent
<1>1. Trn!TransportInit => TransportIInv
  BY TransportBegins
<1>2. TransportIInv /\ [Trn!TransportNext]_(Trn!vars) => TransportIInv'
  <2> SUFFICES ASSUME TransportIInv, [Trn!TransportNext]_(Trn!vars) PROVE TransportIInv'
    OBVIOUS
  <2>1. CASE \E kind \in Trn!Kinds : Trn!Open(kind)
    BY <2>1, DeviceKeeps
  <2>2. CASE Trn!Complete
    BY <2>2, DeviceKeeps
  <2>3. CASE \E i \in 1 .. WireRoom : Trn!UdpLose(i) \/ Trn!UdpDouble(i)
    BY <2>3, UdpKeeps
  <2>4. CASE \E len \in Sizes : Trn!SendSegment(len)
    BY <2>4, SendSegmentKeeps
  <2>5. CASE \E k \in 1 .. WireRoom : Trn!StreamSend(k)
    BY <2>5, StreamSendKeeps
  <2>6. CASE Trn!MessageSend
    BY <2>6, MessageSendKeeps
  <2>7. CASE Trn!SendNotReady \/ Trn!SendFails
    BY <2>7, SendStops
  <2>8. CASE Trn!ReleaseThread
    BY <2>8, ReleaseKeeps
  <2>9. CASE Trn!RecvSegment
    BY <2>9, RecvSegmentKeeps
  <2>10. CASE \E k \in 1 .. WireRoom : Trn!StreamRecv(k)
    BY <2>10, StreamRecvKeeps
  <2>11. CASE \E i \in 1 .. WireRoom : Trn!MessageRecv(i)
    BY <2>11, MessageRecvKeeps
  <2>12. CASE Trn!RecvNotReady \/ Trn!RecvFails
    BY <2>12, RecvStops
  <2>13. CASE UNCHANGED Trn!vars
    <3>1. UNCHANGED <<dev, wire, segs, snd, rcv, whole, delivered, cut>>
      BY <2>13 DEF Trn!vars
    <3>2. TransportTypeOK' /\ LeftToSend' /\ BeingReceived'
      BY <3>1 DEF TransportIInv, TransportTypeOK, LeftToSend, BeingReceived, Trn!IsStream, Trn!Payload
    <3>3. Trn!IsStream' <=> Trn!IsStream
      BY <3>1 DEF Trn!IsStream
    <3>4. UnitsInOrder' /\ InStep'
      <4>1. CASE Trn!IsStream
        <5>1. Flow' = Flow
          BY <3>1 DEF Flow
        <5> QED
          BY <3>1, <3>3, <4>1, <5>1, StreamStays DEF TransportIInv
      <4>2. CASE ~Trn!IsStream
        BY <3>3, <4>2 DEF UnitsInOrder, InStep
      <4> QED
        BY <4>1, <4>2
    <3>5. MessagesOnTheWire'
      BY <3>1, MessagesStay DEF TransportIInv
    <3> QED
      BY <3>2, <3>4, <3>5 DEF TransportIInv
  <2> QED
    BY <2>1, <2>2, <2>3, <2>4, <2>5, <2>6, <2>7, <2>8, <2>9, <2>10, <2>11, <2>12, <2>13
    DEF Trn!TransportNext
<1>3. TransportIInv => DeliveredIsSent
  BY TransportInvariant DEF DeliveredIsSent
<1> QED
  BY <1>1, <1>2, <1>3, PTL DEF Trn!TransportSpec
=============================================================================
