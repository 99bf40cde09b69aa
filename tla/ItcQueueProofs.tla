--------------------------- MODULE ItcQueueProofs ---------------------------
(***************************************************************************)
(* Proofs about ItcQueue for any finite set of threads, any elements and   *)
(* any depth.                                                              *)
(***************************************************************************)
EXTENDS ItcQueue, FiniteSetTheorems, SequenceTheorems, TLAPS

\* How many threads stand at a step.
LEMMA StandingFinite ==
    ASSUME NEW where, NEW step
    PROVE  /\ IsFiniteSet(Standing(where, step))
           /\ Cardinality(Standing(where, step)) \in Nat
<1>1. IsFiniteSet(Standing(where, step))
  BY ItcQueueAssumption, FS_Subset DEF Standing
<1>2. QED
  BY <1>1, FS_CardinalityType

\* The step a thread is at has at least that thread.
LEMMA StandingSomewhere ==
    ASSUME NEW where, NEW t \in Threads
    PROVE  Cardinality(Standing(where, where[t])) > 0
<1>1. t \in Standing(where, where[t])
  BY DEF Standing
<1>2. QED
  BY <1>1, StandingFinite, FS_EmptySet

\* A thread that goes from one step to another is counted there and no longer
\* here, and no other count changes.
LEMMA Move ==
    ASSUME TypeOK, NEW t \in Threads, NEW to, Goto(t, to), pc[t] # to
    PROVE  /\ Cardinality(Standing(pc, pc[t])) > 0
           /\ Cardinality(Standing(pc', pc[t]))
                = Cardinality(Standing(pc, pc[t])) - 1
           /\ Cardinality(Standing(pc', to)) = Cardinality(Standing(pc, to)) + 1
           /\ \A s : s # pc[t] /\ s # to => Standing(pc', s) = Standing(pc, s)
<1>1. /\ t \in Standing(pc, pc[t]) /\ t \notin Standing(pc, to)
      /\ Standing(pc', pc[t]) = Standing(pc, pc[t]) \ {t}
      /\ Standing(pc', to) = Standing(pc, to) \cup {t}
  BY DEF Standing, Goto, TypeOK
<1>2. \A s : s # pc[t] /\ s # to => Standing(pc', s) = Standing(pc, s)
  BY DEF Standing, Goto, TypeOK
<1>3. Cardinality(Standing(pc', pc[t])) = Cardinality(Standing(pc, pc[t])) - 1
  BY <1>1, StandingFinite, FS_RemoveElement
<1>4. Cardinality(Standing(pc', to)) = Cardinality(Standing(pc, to)) + 1
  BY <1>1, StandingFinite, FS_AddElement
<1>5. Cardinality(Standing(pc, pc[t])) > 0
  BY StandingSomewhere
<1>6. QED
  BY <1>2, <1>3, <1>4, <1>5

-----------------------------------------------------------------------------
\* Put and Get leave every variable in its type; the token counts stay within
\* 0 .. Depth.
LEMMA TypeStep == TypeOK /\ [Next]_vars => TypeOK'
<1> SUFFICES ASSUME TypeOK, [Next]_vars PROVE TypeOK'
  OBVIOUS
<1> USE ItcQueueAssumption
    DEF TypeOK, Resting, PutSteps, GetSteps, Goto, Given, At,
        Standing
<1>1. ASSUME NEW t \in Threads, PutCall(t) PROVE TypeOK'
  BY <1>1 DEF PutCall
<1>2. ASSUME NEW t \in Threads, GetCall(t) PROVE TypeOK'
  BY <1>2 DEF GetCall
<1>3. ASSUME NEW t \in Threads, PutTake(t) \/ GetTake(t) PROVE TypeOK'
  BY <1>3 DEF PutTake, GetTake
<1>4. ASSUME NEW t \in Threads, TakeTimeout(t) PROVE TypeOK'
  BY <1>4 DEF TakeTimeout
<1>5. ASSUME NEW t \in Threads, PutPush(t) PROVE TypeOK'
  <2>1. element[t] \in Elements
    BY <1>5 DEF PutPush
  <2>2. queue' \in Seq(Elements)
    BY <1>5, <2>1, AppendProperties DEF PutPush
  <2>3. QED
    BY <1>5, <2>2 DEF PutPush
<1>6. ASSUME NEW t \in Threads, GetPop(t) PROVE TypeOK'
  <2>1. Head(queue) \in Elements /\ Tail(queue) \in Seq(Elements)
    BY <1>6, HeadTailProperties DEF GetPop
  <2>2. element' \in [Threads -> Elements \cup {NoElement}]
    BY <1>6, <2>1 DEF GetPop
  <2>3. pc' \in [Threads -> Resting \cup PutSteps \cup GetSteps]
    BY <1>6 DEF GetPop
  <2>4. \A u \in (At("putTake") \cup At("putLock"))' : element'[u] \in Elements
    BY <1>6, <2>3 DEF GetPop
  <2>5. QED
    BY <1>6, <2>1, <2>2, <2>3, <2>4 DEF GetPop
<1>7. ASSUME NEW t \in Threads, PutGive(t) \/ GetGive(t) PROVE TypeOK'
  <2>1. Given(semPut) \in 0 .. Depth /\ Given(semGet) \in 0 .. Depth
    OBVIOUS
  <2>2. semPut' \in 0 .. Depth /\ semGet' \in 0 .. Depth /\ mutex' = Free
    BY <1>7, <2>1 DEF PutGive, GetGive
  <2>3. /\ pc' \in [Threads -> Resting \cup PutSteps \cup GetSteps]
        /\ timed' \in [Threads -> BOOLEAN]
    BY <1>7 DEF PutGive, GetGive
  <2>4. \A u \in (At("putTake") \cup At("putLock"))' : element'[u] \in Elements
    BY <1>7 DEF PutGive, GetGive
  <2>5. QED
    BY <1>7, <2>2, <2>3, <2>4 DEF PutGive, GetGive
<1>8. CASE UNCHANGED vars
  BY <1>8 DEF vars
<1>9. QED
  BY <1>1, <1>2, <1>3, <1>4, <1>5, <1>6, <1>7, <1>8 DEF Next

\* ItcQueue: the list, the counts of both semaphores and the threads keep their types.
THEOREM TypeCorrect == Spec => []TypeOK
<1>1. Init => TypeOK
  BY ItcQueueAssumption DEF Init, TypeOK, Resting, At, Standing
<1>2. QED
  BY <1>1, TypeStep, PTL DEF Spec

-----------------------------------------------------------------------------
\* The two counting laws are inductive together with the types alone: they
\* need neither the mutex nor fairness.
LEMMA ConservationStep ==
    TypeOK /\ Conservation /\ [Next]_vars => Conservation'
<1> SUFFICES ASSUME TypeOK, Conservation, [Next]_vars, TypeOK'
             PROVE  Conservation'
  BY TypeStep
<1> USE DEF At
<1>a. semPut \in Nat /\ Len(queue) \in Nat /\ Depth \in Nat
  BY ItcQueueAssumption, LenProperties DEF TypeOK
<1>b. semGet \in Nat /\ Len(queue) \in Nat
  BY LenProperties DEF TypeOK
<1>n. \A where, s : Cardinality(Standing(where, s)) \in Nat
  BY StandingFinite
<1>s. semPut + Cardinality(At("putLock")) + Len(queue)
        + Cardinality(At("getGive")) = Depth
  BY DEF Conservation, SlotsConserved
<1>e. semGet + Cardinality(At("getLock")) + Cardinality(At("putGive"))
        = Len(queue)
  BY DEF Conservation, ElementForEachToken
<1>c. /\ Cardinality(At("putLock")) \in Nat
      /\ Cardinality(At("getGive")) \in Nat
  BY <1>n
<1>d. /\ Cardinality(At("getLock")) \in Nat
      /\ Cardinality(At("putGive")) \in Nat
  BY <1>n
<1>q. ASSUME SlotsConserved', ElementForEachToken' PROVE Conservation'
  BY <1>q DEF Conservation
<1>0. ASSUME NEW t \in Threads, NEW to,
             Goto(t, to), pc[t] # to,
             pc[t] \notin {"putLock", "putGive", "getLock", "getGive"},
             to \notin {"putLock", "putGive", "getLock", "getGive"},
             UNCHANGED <<semPut, semGet, queue>>
      PROVE  Conservation'
  <2>1. \A s : s # pc[t] /\ s # to => Standing(pc', s) = Standing(pc, s)
    BY <1>0, Move
  <2>2. QED
    BY <1>0, <2>1 DEF Conservation, SlotsConserved, ElementForEachToken
<1>1. ASSUME NEW t \in Threads, PutCall(t) PROVE Conservation'
  BY <1>0, <1>1 DEF PutCall, Resting
<1>2. ASSUME NEW t \in Threads, GetCall(t) PROVE Conservation'
  BY <1>0, <1>2 DEF GetCall, Resting
<1>3. ASSUME NEW t \in Threads, TakeTimeout(t) PROVE Conservation'
  BY <1>0, <1>3 DEF TakeTimeout
<1>4. ASSUME NEW t \in Threads, PutTake(t) PROVE Conservation'
  <2>1. /\ semPut' = semPut - 1
        /\ Cardinality(At("putLock")') = Cardinality(At("putLock")) + 1
        /\ Cardinality(At("getGive")') = Cardinality(At("getGive"))
        /\ Len(queue') = Len(queue)
    BY <1>4, Move DEF PutTake
  <2>2. SlotsConserved'
    BY <2>1, <1>s, <1>a, <1>c DEF SlotsConserved
  <2>3. /\ semGet' = semGet
        /\ Cardinality(At("getLock")') = Cardinality(At("getLock"))
        /\ Cardinality(At("putGive")') = Cardinality(At("putGive"))
        /\ Len(queue') = Len(queue)
    BY <1>4, Move DEF PutTake
  <2>4. ElementForEachToken'
    BY <2>3, <1>e, <1>b, <1>d DEF ElementForEachToken
  <2>5. QED
    BY <1>q, <2>2, <2>4
<1>5. ASSUME NEW t \in Threads, GetTake(t) PROVE Conservation'
  <2>1. /\ semPut' = semPut
        /\ Cardinality(At("putLock")') = Cardinality(At("putLock"))
        /\ Cardinality(At("getGive")') = Cardinality(At("getGive"))
        /\ Len(queue') = Len(queue)
    BY <1>5, Move DEF GetTake
  <2>2. SlotsConserved'
    BY <2>1, <1>s, <1>a, <1>c DEF SlotsConserved
  <2>3. /\ semGet' = semGet - 1
        /\ Cardinality(At("getLock")') = Cardinality(At("getLock")) + 1
        /\ Cardinality(At("putGive")') = Cardinality(At("putGive"))
        /\ Len(queue') = Len(queue)
    BY <1>5, Move DEF GetTake
  <2>4. ElementForEachToken'
    BY <2>3, <1>e, <1>b, <1>d DEF ElementForEachToken
  <2>5. QED
    BY <1>q, <2>2, <2>4
<1>6. ASSUME NEW t \in Threads, PutPush(t) PROVE Conservation'
  <2>1. element[t] \in Elements /\ queue' = Append(queue, element[t])
    BY <1>6 DEF PutPush, TypeOK, Standing
  <2>2. Len(queue') = Len(queue) + 1
    BY <2>1, AppendProperties DEF TypeOK
  <2>3. /\ semPut' = semPut
        /\ Cardinality(At("putLock")') = Cardinality(At("putLock")) - 1
        /\ Cardinality(At("getGive")') = Cardinality(At("getGive"))
        /\ Len(queue') = Len(queue) + 1
    BY <1>6, <2>1, <2>2, Move DEF PutPush
  <2>4. SlotsConserved'
    BY <2>3, <1>s, <1>a, <1>c DEF SlotsConserved
  <2>5. /\ semGet' = semGet
        /\ Cardinality(At("getLock")') = Cardinality(At("getLock"))
        /\ Cardinality(At("putGive")') = Cardinality(At("putGive")) + 1
        /\ Len(queue') = Len(queue) + 1
    BY <1>6, <2>1, <2>2, Move DEF PutPush
  <2>6. ElementForEachToken'
    BY <2>5, <1>e, <1>b, <1>d DEF ElementForEachToken
  <2>7. QED
    BY <1>q, <2>4, <2>6
<1>7. ASSUME NEW t \in Threads, GetPop(t) PROVE Conservation'
  <2>1. Len(queue') = Len(queue) - 1
    BY <1>7, HeadTailProperties DEF GetPop, TypeOK
  <2>2. /\ semPut' = semPut
        /\ Cardinality(At("putLock")') = Cardinality(At("putLock"))
        /\ Cardinality(At("getGive")') = Cardinality(At("getGive")) + 1
        /\ Len(queue') = Len(queue) - 1
    BY <1>7, <2>1, Move DEF GetPop
  <2>3. SlotsConserved'
    BY <2>2, <1>s, <1>a, <1>c DEF SlotsConserved
  <2>4. /\ semGet' = semGet
        /\ Cardinality(At("getLock")') = Cardinality(At("getLock")) - 1
        /\ Cardinality(At("putGive")') = Cardinality(At("putGive"))
        /\ Len(queue') = Len(queue) - 1
    BY <1>7, <2>1, Move DEF GetPop
  <2>5. ElementForEachToken'
    BY <2>4, <1>e, <1>b, <1>d DEF ElementForEachToken
  <2>6. QED
    BY <1>q, <2>3, <2>5
<1>8. ASSUME NEW t \in Threads, PutGive(t) PROVE Conservation'
  <2>1. Cardinality(At("putGive")) > 0
    BY <1>8, Move DEF PutGive
  <2>2. semGet < Depth
    BY <2>1, <1>s, <1>e, <1>a, <1>b, <1>c, <1>d
  <2>3. /\ semPut' = semPut
        /\ Cardinality(At("putLock")') = Cardinality(At("putLock"))
        /\ Cardinality(At("getGive")') = Cardinality(At("getGive"))
        /\ Len(queue') = Len(queue)
    BY <1>8, <2>1, <2>2, Move DEF PutGive, Given
  <2>4. SlotsConserved'
    BY <2>3, <1>s, <1>a, <1>c DEF SlotsConserved
  <2>5. /\ semGet' = semGet + 1
        /\ Cardinality(At("getLock")') = Cardinality(At("getLock"))
        /\ Cardinality(At("putGive")') = Cardinality(At("putGive")) - 1
        /\ Len(queue') = Len(queue)
    BY <1>8, <2>1, <2>2, Move DEF PutGive, Given
  <2>6. ElementForEachToken'
    BY <2>5, <1>e, <1>b, <1>d DEF ElementForEachToken
  <2>7. QED
    BY <1>q, <2>4, <2>6
<1>9. ASSUME NEW t \in Threads, GetGive(t) PROVE Conservation'
  <2>1. Cardinality(At("getGive")) > 0
    BY <1>9, Move DEF GetGive
  <2>2. semPut < Depth
    BY <2>1, <1>s, <1>a, <1>c
  <2>3. /\ semPut' = semPut + 1
        /\ Cardinality(At("putLock")') = Cardinality(At("putLock"))
        /\ Cardinality(At("getGive")') = Cardinality(At("getGive")) - 1
        /\ Len(queue') = Len(queue)
    BY <1>9, <2>1, <2>2, Move DEF GetGive, Given
  <2>4. SlotsConserved'
    BY <2>3, <1>s, <1>a, <1>c DEF SlotsConserved
  <2>5. /\ semGet' = semGet
        /\ Cardinality(At("getLock")') = Cardinality(At("getLock"))
        /\ Cardinality(At("putGive")') = Cardinality(At("putGive"))
        /\ Len(queue') = Len(queue)
    BY <1>9, <2>1, <2>2, Move DEF GetGive, Given
  <2>6. ElementForEachToken'
    BY <2>5, <1>e, <1>b, <1>d DEF ElementForEachToken
  <2>7. QED
    BY <1>q, <2>4, <2>6
<1>10. CASE UNCHANGED vars
  BY <1>10 DEF vars, Conservation, SlotsConserved, ElementForEachToken
<1>11. QED
  BY <1>1, <1>2, <1>3, <1>4, <1>5, <1>6, <1>7, <1>8, <1>9, <1>10 DEF Next

\* A constructed queue has Depth free slots and no elements.
LEMMA ConservationInit == Init => Conservation
<1> SUFFICES ASSUME Init PROVE Conservation
  OBVIOUS
<1>1. /\ At("putLock") = {} /\ At("putGive") = {}
      /\ At("getLock") = {} /\ At("getGive") = {}
  BY DEF Init, At, Standing
<1>2. Cardinality({}) = 0
  BY FS_EmptySet
<1>3. semPut = Depth /\ semGet = 0 /\ Len(queue) = 0
  BY DEF Init
<1>4. Depth \in Nat
  BY ItcQueueAssumption
<1>5. QED
  BY <1>1, <1>2, <1>3, <1>4
     DEF Conservation, SlotsConserved, ElementForEachToken

\* No slot of the queue leaks or is used twice, and each token of m_SemGet
\* stands for an element of the deque.
THEOREM SlotsAndTokensConserved == Spec => []Conservation
BY ConservationInit, ConservationStep, TypeCorrect, PTL DEF Spec

\* What the conservation laws are for: front() is never applied to an empty
\* deque, the deque never exceeds MaxEntries, and neither Give meets its
\* limit, where SemLite would drop the token in silence.
QueueNeverMisused ==
    \A t \in Threads :
        /\ pc[t] = "getLock" => queue # <<>>
        /\ pc[t] = "putLock" => Len(queue) < Depth
        /\ pc[t] = "putGive" => semGet < Depth
        /\ pc[t] = "getGive" => semPut < Depth

\* What the counts conserve keeps Put from a full list and Get from an empty one.
LEMMA ConservationProtects == TypeOK /\ Conservation => QueueNeverMisused
<1> SUFFICES ASSUME TypeOK, Conservation, NEW t \in Threads
             PROVE  /\ pc[t] = "getLock" => queue # <<>>
                    /\ pc[t] = "putLock" => Len(queue) < Depth
                    /\ pc[t] = "putGive" => semGet < Depth
                    /\ pc[t] = "getGive" => semPut < Depth
  BY DEF QueueNeverMisused
<1>1. /\ semPut \in Nat /\ semGet \in Nat /\ Len(queue) \in Nat
      /\ Depth \in Nat /\ \A s : Cardinality(At(s)) \in Nat
  BY ItcQueueAssumption, LenProperties, StandingFinite DEF TypeOK, At
<1>2. ASSUME NEW s, pc[t] = s PROVE Cardinality(At(s)) > 0
  BY <1>2, StandingSomewhere DEF At
<1>3. queue = <<>> => Len(queue) = 0
  OBVIOUS
<1>4. QED
  BY <1>1, <1>2, <1>3 DEF Conservation, SlotsConserved, ElementForEachToken

\* ItcQueue: no thread takes from an empty list, adds to a full one or gives a
\* semaphore more than its depth.
THEOREM NeverMisused == Spec => []QueueNeverMisused
BY ConservationInit, ConservationStep, TypeCorrect, ConservationProtects, PTL
   DEF Spec

-----------------------------------------------------------------------------
\* A step of one caller changes the view of that caller only.
LEMMA OpViewAt ==
    ASSUME TypeOK, TypeOK', NEW t \in Threads,
           \A u \in Threads \ {t} : pc'[u] = pc[u] /\ timed'[u] = timed[u]
    PROVE  OpView' = [OpView EXCEPT ![t] = OpAt(pc'[t], timed'[t])]
BY DEF OpView, TypeOK

\* Each step of Put and Get is a step of the abstract queue or changes nothing
\* it shows: PutPush is where the element enters, GetPop where it leaves.
LEMMA FifoStep ==
    TypeOK /\ TypeOK' /\ Conservation /\ [Next]_vars
        => [Abstract!FifoNext]_(Abstract!fvars)
<1> SUFFICES ASSUME TypeOK, TypeOK', Conservation, [Next]_vars
             PROVE  Abstract!FifoNext \/ UNCHANGED <<queue, OpView, element>>
  BY DEF Abstract!fvars
<1>0. QueueNeverMisused
  BY ConservationProtects
<1>1. ASSUME NEW t \in Threads, PutCall(t) PROVE Abstract!RequestPut(t)
  <2>1. PICK b \in BOOLEAN : timed' = [timed EXCEPT ![t] = b]
    BY <1>1 DEF PutCall
  <2>2. PICK e \in Elements : element' = [element EXCEPT ![t] = e]
    BY <1>1 DEF PutCall
  <2>3. /\ \A u \in Threads \ {t} : pc'[u] = pc[u] /\ timed'[u] = timed[u]
        /\ pc'[t] = "putTake" /\ timed'[t] = b
    BY <1>1, <2>1 DEF PutCall, Goto, TypeOK
  <2>4. OpView' = [OpView EXCEPT ![t] = OpAt("putTake", b)]
    BY <2>3, OpViewAt
  <2>5. OpAt("putTake", b) \in {"put", "timedPut"}
    BY DEF OpAt
  <2>6. OpView[t] \in {"none", "putDone", "got", "failed"} /\ queue' = queue
    BY <1>1 DEF PutCall, OpView, OpAt, Resting
  <2>7. QED
    BY <2>2, <2>4, <2>5, <2>6 DEF Abstract!RequestPut, Abstract!AtRest
<1>2. ASSUME NEW t \in Threads, GetCall(t) PROVE Abstract!RequestGet(t)
  <2>1. PICK b \in BOOLEAN : timed' = [timed EXCEPT ![t] = b]
    BY <1>2 DEF GetCall
  <2>2. element' = [element EXCEPT ![t] = NoElement]
    BY <1>2 DEF GetCall
  <2>3. /\ \A u \in Threads \ {t} : pc'[u] = pc[u] /\ timed'[u] = timed[u]
        /\ pc'[t] = "getTake" /\ timed'[t] = b
    BY <1>2, <2>1 DEF GetCall, Goto, TypeOK
  <2>4. OpView' = [OpView EXCEPT ![t] = OpAt("getTake", b)]
    BY <2>3, OpViewAt
  <2>5. OpAt("getTake", b) \in {"get", "timedGet"}
    BY DEF OpAt
  <2>6. OpView[t] \in {"none", "putDone", "got", "failed"} /\ queue' = queue
    BY <1>2 DEF GetCall, OpView, OpAt, Resting
  <2>7. QED
    BY <2>2, <2>4, <2>5, <2>6 DEF Abstract!RequestGet, Abstract!AtRest
<1>3. ASSUME NEW t \in Threads, PutTake(t) \/ GetTake(t) \/ PutGive(t) \/ GetGive(t)
      PROVE  UNCHANGED <<queue, OpView, element>>
  <2>1. /\ \A u \in Threads \ {t} : pc'[u] = pc[u] /\ timed'[u] = timed[u]
        /\ queue' = queue /\ element' = element
    BY <1>3 DEF PutTake, GetTake, PutGive, GetGive, Goto, TypeOK
  <2>2. OpAt(pc'[t], timed'[t]) = OpAt(pc[t], timed[t])
    BY <1>3 DEF PutTake, GetTake, PutGive, GetGive, Goto, TypeOK, OpAt
  <2>3. OpView' = [OpView EXCEPT ![t] = OpAt(pc[t], timed[t])]
    BY <2>1, <2>2, OpViewAt
  <2>4. QED
    BY <2>1, <2>3 DEF OpView
<1>4. ASSUME NEW t \in Threads, PutPush(t) PROVE Abstract!Enqueue(t)
  <2>1. /\ \A u \in Threads \ {t} : pc'[u] = pc[u] /\ timed'[u] = timed[u]
        /\ pc'[t] = "putGive" /\ pc[t] = "putLock"
    BY <1>4 DEF PutPush, Goto, TypeOK
  <2>2. OpView' = [OpView EXCEPT ![t] = "putDone"]
    BY <2>1, OpViewAt DEF OpAt
  <2>3. OpView[t] \in {"put", "timedPut"}
    BY <2>1 DEF OpView, OpAt
  <2>4. Len(queue) < Depth
    BY <1>0, <2>1 DEF QueueNeverMisused
  <2>5. QED
    BY <1>4, <2>2, <2>3, <2>4 DEF PutPush, Abstract!Enqueue
<1>5. ASSUME NEW t \in Threads, GetPop(t) PROVE Abstract!Dequeue(t)
  <2>1. /\ \A u \in Threads \ {t} : pc'[u] = pc[u] /\ timed'[u] = timed[u]
        /\ pc'[t] = "getGive" /\ pc[t] = "getLock"
    BY <1>5 DEF GetPop, Goto, TypeOK
  <2>2. OpView' = [OpView EXCEPT ![t] = "got"]
    BY <2>1, OpViewAt DEF OpAt
  <2>3. OpView[t] \in {"get", "timedGet"}
    BY <2>1 DEF OpView, OpAt
  <2>4. QED
    BY <1>5, <2>2, <2>3 DEF GetPop, Abstract!Dequeue
<1>6. ASSUME NEW t \in Threads, TakeTimeout(t) PROVE Abstract!GiveUp(t)
  <2>1. /\ \A u \in Threads \ {t} : pc'[u] = pc[u] /\ timed'[u] = timed[u]
        /\ pc'[t] = "failed" /\ pc[t] \in {"putTake", "getTake"} /\ timed[t]
    BY <1>6 DEF TakeTimeout, Goto, TypeOK
  <2>2. OpView' = [OpView EXCEPT ![t] = "failed"]
    BY <2>1, OpViewAt DEF OpAt
  <2>3. OpView[t] \in {"timedPut", "timedGet"}
    BY <2>1 DEF OpView, OpAt
  <2>4. QED
    BY <1>6, <2>2, <2>3 DEF TakeTimeout, Abstract!GiveUp
<1>7. CASE UNCHANGED vars
  BY <1>7 DEF vars, OpView
<1>8. QED
  BY <1>1, <1>2, <1>3, <1>4, <1>5, <1>6, <1>7 DEF Next, Abstract!FifoNext

\* ItcQueue implements the safety part of BoundedFifo: elements leave in the
\* order they came, none is lost or doubled, and a failed call moved nothing.
THEOREM ItcQueueImplements == Spec => Abstract!FifoSafety
<1>1. Init => Abstract!FifoInit
  BY DEF Init, Abstract!FifoInit, OpView, OpAt
<1>2. QED
  BY <1>1, ConservationInit, ConservationStep, TypeCorrect, FifoStep, PTL
     DEF Spec, Abstract!FifoSafety

=============================================================================
