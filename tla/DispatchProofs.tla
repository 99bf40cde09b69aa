--------------------------- MODULE DispatchProofs ---------------------------
(***************************************************************************)
(* Theorems about Dispatch, for any finite set of dispatch threads and of  *)
(* events, any handlers and any depth of the queue, and, at the end, about *)
(* Timer, which feeds a dispatcher, and IpcNode, whose control events one  *)
(* hands to their handlers.                                                *)
(***************************************************************************)
EXTENDS Dispatch, EventParts, ListLemmas, FiniteSetTheorems, SequenceTheorems, TLAPS

-----------------------------------------------------------------------------
(* The threads, the stack mutex and the destructor.                        *)

\* m_Threads lists the threads there are, never more than there are names.
ThreadsListed ==
    /\ \A w \in Workers : wpc[w] # "none" <=> w \in ToSet(threads)
    /\ \A a \in Admins : target[a] <= Cardinality(Workers)

\* Who deletes threads holds the stack mutex, and has one left to delete as long
\* as it waits for one.
DeletionLocked ==
    \A a \in Admins :
        /\ mutex = a <=> apc[a] \in {"join", "delete"}
        /\ apc[a] = "join" => target[a] < Len(threads)
        /\ apc[a] = "delete" => target[a] <= Len(threads)

\* Once the destructor has begun nobody creates a thread, and its own call of
\* NumThreadsSet is for none.
NoneCreated ==
    /\ Closing => ~mayCreate
    /\ apc["owner"] \in {"lock", "join", "delete"} => target["owner"] = 0
    /\ apc["setter"] \notin {"signal", "deleted"}
    /\ Deleted => threads = <<>>

ThreadInv == TypeOK /\ ThreadsListed /\ DeletionLocked /\ NoneCreated

\* The constructor leaves a dispatcher without threads, handlers or events.
LEMMA ThreadInit == Init => ThreadInv
<1> SUFFICES ASSUME Init PROVE ThreadInv
  OBVIOUS
<1>1. Cardinality(Workers) \in Nat
  BY DispatchAssumption, FS_CardinalityType
<1>2. /\ handlers \in Seq(Handlers) /\ IsInjective(handlers)
      /\ threads \in Seq(Workers) /\ IsInjective(threads)
      /\ queue \in Seq(Events \cup {ShutdownEvent}) /\ Len(queue) <= Depth
      /\ todo \in [Workers -> Seq(Handlers)]
  BY DispatchAssumption DEF Init, IsInjective
<1>3. /\ mayCreate \in BOOLEAN /\ mutex \in Admins \cup {Free}
      /\ state \in [Events -> {"new", "accepted", "dispatched"}]
      /\ exitFlag \in [Workers -> BOOLEAN]
      /\ held \in [Workers -> Events \cup {ShutdownEvent, NoEvent}]
      /\ wpc \in [Workers -> {"none", "poll", "get", "lock", "run", "shutdown", "exited"}]
  BY DEF Init
<1>4. /\ target \in [Admins -> Nat] /\ signals \in Nat
      /\ apc \in [Admins -> {"idle", "lock", "join", "delete", "signal", "deleted"}]
  BY DEF Init
<1>5. TypeOK
  BY <1>2, <1>3, <1>4 DEF TypeOK
<1>6. ThreadsListed
  BY <1>1 DEF Init, ThreadsListed, ToSet
<1>7. DeletionLocked
  BY FreeIsNobody DEF Init, DeletionLocked
<1>8. NoneCreated
  BY DEF Init, NoneCreated, Closing, Deleted, Admins
<1> QED
  BY <1>5, <1>6, <1>7, <1>8 DEF ThreadInv

\* There are as many names left as threads may still be created, and those that
\* are taken had none.
LEMMA NewThreadsProperties ==
    ASSUME ThreadInv, NEW n \in Nat, Len(threads) + n <= Cardinality(Workers)
    PROVE  /\ NewThreads(n) \in Seq(Workers) /\ IsInjective(NewThreads(n))
           /\ Len(NewThreads(n)) = n
           /\ \A i \in 1 .. n : wpc[NewThreads(n)[i]] = "none"
<1> DEFINE spare == {w \in Workers : wpc[w] = "none"}
<1>1. IsFiniteSet(spare) /\ spare \subseteq Workers
  BY DispatchAssumption, FS_Subset
<1>2. Cardinality(spare) = Cardinality(Workers) - Len(threads)
  <2>1. /\ IsFiniteSet(ToSet(threads)) /\ ToSet(threads) \subseteq Workers
        /\ Cardinality(ToSet(threads)) = Len(threads)
    BY InjectiveLength DEF ThreadInv, TypeOK
  <2>2. spare = Workers \ ToSet(threads)
    BY DEF ThreadInv, ThreadsListed
  <2>3. Workers \cap ToSet(threads) = ToSet(threads)
    BY <2>1
  <2>4. Cardinality(Workers \ ToSet(threads))
            = Cardinality(Workers) - Cardinality(Workers \cap ToSet(threads))
    BY DispatchAssumption, FS_Difference
  <2> HIDE DEF spare
  <2> QED
    BY <2>1, <2>2, <2>3, <2>4
<1> DEFINE list == SetToSeq(spare)
<1>3. /\ list \in Seq(spare) /\ IsInjective(list)
      /\ Len(list) = Cardinality(spare) /\ Len(list) \in Nat
      /\ list \in [1 .. Len(list) -> spare]
  <2> HIDE DEF spare
  <2> QED
    BY <1>1, SetToSeqLists
<1>4. NewThreads(n) = SubSeq(list, 1, n)
  BY DEF NewThreads
<1>5. Len(threads) \in Nat /\ Cardinality(Workers) \in Nat
  BY LenProperties, DispatchAssumption, FS_CardinalityType DEF ThreadInv, TypeOK
<1>6. n <= Len(list)
  BY <1>2, <1>3, <1>5
<1> HIDE DEF list
<1>7. \A i \in 1 .. n : list[i] \in spare
  BY <1>3, <1>6
<1>8. /\ SubSeq(list, 1, n) \in Seq(spare)
      /\ Len(SubSeq(list, 1, n)) = n
      /\ \A i \in 1 .. n : SubSeq(list, 1, n)[i] = list[i]
  <2>1. /\ SubSeq(list, 1, n) \in Seq(spare)
        /\ Len(SubSeq(list, 1, n)) = IF 1 <= n THEN n - 1 + 1 ELSE 0
        /\ \A i \in 1 .. n - 1 + 1 : SubSeq(list, 1, n)[i] = list[1 + i - 1]
    <3> HIDE DEF spare
    <3> QED
      BY <1>7, SubSeqProperties
  <2> QED
    BY <2>1
<1>9. SubSeq(list, 1, n) \in Seq(Workers) /\ DOMAIN SubSeq(list, 1, n) = 1 .. n
  <2> HIDE DEF spare
  <2> QED
    BY <1>1, <1>8, SeqMonotonic, LenProperties
<1>10. IsInjective(SubSeq(list, 1, n))
  BY <1>3, <1>6, <1>8, <1>9 DEF IsInjective
<1> QED
  BY <1>4, <1>7, <1>8, <1>9, <1>10

-----------------------------------------------------------------------------
\* The threads that NumThreadsSet creates: none unless flag 1 allows it, and
\* under names that no thread has.
LEMMA CreatedHadNoName ==
    ASSUME ThreadInv, NEW a \in Admins, CreateThreads(a)
    PROVE  \E new \in Seq(Workers) :
          /\ IsInjective(new)
          /\ mayCreate \/ new = <<>>
          /\ \A i \in 1 .. Len(new) : wpc[new[i]] = "none"
          /\ threads' = threads \o new
          /\ wpc' = [w \in Workers |-> IF w \in ToSet(new) THEN "poll" ELSE wpc[w]]
          /\ exitFlag' = [w \in Workers |-> exitFlag[w] /\ w \notin ToSet(new)]
<1>1. Len(threads) \in Nat /\ target[a] \in Nat /\ target[a] - Len(threads) \in Nat
  BY LenProperties DEF ThreadInv, TypeOK, CreateThreads
<1>2. CASE mayCreate
  <2> DEFINE n == target[a] - Len(threads)
  <2>1. Len(threads) + n <= Cardinality(Workers)
    BY <1>1 DEF ThreadInv, ThreadsListed
  <2>2. /\ NewThreads(n) \in Seq(Workers) /\ IsInjective(NewThreads(n))
        /\ Len(NewThreads(n)) = n
        /\ \A i \in 1 .. n : wpc[NewThreads(n)[i]] = "none"
    BY <1>1, <2>1, NewThreadsProperties
  <2>3. /\ threads' = threads \o NewThreads(n)
        /\ wpc' = [w \in Workers |-> IF w \in ToSet(NewThreads(n)) THEN "poll" ELSE wpc[w]]
        /\ exitFlag' = [w \in Workers |-> exitFlag[w] /\ w \notin ToSet(NewThreads(n))]
    BY <1>2 DEF CreateThreads
  <2> HIDE DEF n
  <2> QED
    BY <1>2, <2>2, <2>3
<1>3. CASE ~mayCreate
  <2>1. <<>> \in Seq(Workers) /\ Len(<<>>) = 0 /\ IsInjective(<<>>)
    BY EmptySeq DEF IsInjective
  <2> WITNESS <<>> \in Seq(Workers)
  <2> QED
    BY <1>3, <2>1 DEF CreateThreads
<1> QED
  BY <1>2, <1>3

\* What a step of NumThreadsSet does to the threads.
LEMMA CreateThreadsStep ==
    ASSUME ThreadInv, NEW a \in Admins, CreateThreads(a)
    PROVE  ThreadInv'
<1>1. Len(threads) \in Nat /\ target[a] \in Nat /\ target[a] - Len(threads) \in Nat
  BY LenProperties DEF ThreadInv, TypeOK, CreateThreads
<1>2. PICK new \in Seq(Workers) :
          /\ IsInjective(new)
          /\ mayCreate \/ new = <<>>
          /\ \A i \in 1 .. Len(new) : wpc[new[i]] = "none"
          /\ threads' = threads \o new
          /\ wpc' = [w \in Workers |-> IF w \in ToSet(new) THEN "poll" ELSE wpc[w]]
          /\ exitFlag' = [w \in Workers |-> exitFlag[w] /\ w \notin ToSet(new)]
  BY CreatedHadNoName
<1>3. /\ threads' \in Seq(Workers)
      /\ Len(threads') = Len(threads) + Len(new)
      /\ \A i \in 1 .. Len(threads) + Len(new) :
             threads'[i] = IF i <= Len(threads) THEN threads[i] ELSE new[i - Len(threads)]
  BY <1>2, ConcatProperties DEF ThreadInv, TypeOK
<1>4. Len(new) \in Nat /\ threads \in [1 .. Len(threads) -> Workers]
  BY <1>2, <1>3, LenProperties DEF ThreadInv, TypeOK
<1>5. \A i \in 1 .. Len(threads), j \in 1 .. Len(new) : threads[i] # new[j]
  <2> SUFFICES ASSUME NEW i \in 1 .. Len(threads), NEW j \in 1 .. Len(new),
                      threads[i] = new[j]
               PROVE  FALSE
    OBVIOUS
  <2>1. threads[i] \in ToSet(threads) /\ threads[i] \in Workers
    BY <1>4 DEF ToSet
  <2>2. wpc[threads[i]] = "none"
    BY <1>2
  <2> QED
    BY <2>1, <2>2 DEF ThreadInv, ThreadsListed
<1>6. ToSet(threads') = ToSet(threads) \cup ToSet(new) /\ IsInjective(threads')
  BY <1>2, <1>5, ConcatDistinct DEF ThreadInv, TypeOK
<1>7. apc' = [apc EXCEPT ![a] = IF a = "owner" THEN "deleted" ELSE "idle"]
  BY DEF CreateThreads, Return
<1>8. TypeOK'
  <2>1. /\ wpc' \in [Workers -> {"none", "poll", "get", "lock", "run", "shutdown", "exited"}]
        /\ exitFlag' \in [Workers -> BOOLEAN]
    BY <1>2 DEF ThreadInv, TypeOK
  <2>2. apc' \in [Admins -> {"idle", "lock", "join", "delete", "signal", "deleted"}]
    BY <1>7 DEF ThreadInv, TypeOK
  <2> QED
    BY <1>3, <1>6, <2>1, <2>2 DEF ThreadInv, TypeOK, CreateThreads
<1>9. ThreadsListed'
  <2>1. \A w \in Workers : wpc'[w] # "none" <=> w \in ToSet(threads')
    BY <1>2, <1>6 DEF ThreadInv, ThreadsListed
  <2> QED
    BY <2>1 DEF ThreadInv, ThreadsListed, CreateThreads
<1>10. DeletionLocked'
  <2>1. mutex = Free /\ mutex' = mutex /\ target' = target /\ apc[a] = "lock"
    BY DEF CreateThreads
  <2>2. \A b \in Admins : mutex' # b /\ apc[b] \notin {"join", "delete"}
    BY <2>1, FreeIsNobody DEF ThreadInv, DeletionLocked
  <2> QED
    BY <2>2, <1>7 DEF ThreadInv, DeletionLocked, TypeOK
<1>11. NoneCreated'
  <2>1. Closing' => ~mayCreate
    BY <1>7 DEF ThreadInv, TypeOK, NoneCreated, Closing, CreateThreads, Admins
  <2>2. Deleted' => threads' = <<>>
    <3>1. CASE a = "owner"
      <4>1. target[a] = 0 /\ Len(threads) = 0 /\ new = <<>>
        BY <3>1, <1>1, <1>2 DEF ThreadInv, NoneCreated, Closing, CreateThreads
      <4>2. Len(threads') = 0
        BY <4>1, <1>3, <1>4
      <4> QED
        BY <4>2, <1>3, EmptySeq
    <3>2. CASE a # "owner"
      <4>1. Deleted' => Deleted
        BY <3>2, <1>7 DEF Deleted, ThreadInv, TypeOK, Admins
      <4>2. Deleted => new = <<>> /\ threads = <<>>
        BY <1>2 DEF Deleted, Closing, ThreadInv, NoneCreated
      <4>3. new = <<>> /\ threads = <<>> => threads' = <<>>
        <5>1. Len(<<>>) = 0
          OBVIOUS
        <5> QED
          BY <5>1, <1>3, EmptySeq
      <4> QED
        BY <4>1, <4>2, <4>3
    <3> QED
      BY <3>1, <3>2
  <2>3. mayCreate' = mayCreate /\ target' = target
    BY DEF CreateThreads
  <2>4. /\ apc'["owner"] \in {"lock", "join", "delete"} => target["owner"] = 0
        /\ apc'["setter"] \notin {"signal", "deleted"}
    BY <1>7 DEF ThreadInv, TypeOK, NoneCreated, Admins
  <2> QED
    BY <2>1, <2>2, <2>3, <2>4 DEF NoneCreated
<1> QED
  BY <1>8, <1>9, <1>10, <1>11 DEF ThreadInv

\* As long as no thread comes or goes and no call of NumThreadsSet goes on,
\* only the types are left to show.
LEMMA ThreadsStay ==
    ASSUME ThreadInv, TypeOK', UNCHANGED <<threads, target, mutex, mayCreate, apc>>,
           \A w \in Workers : wpc'[w] = "none" <=> wpc[w] = "none"
    PROVE  ThreadInv'
<1>1. ThreadsListed'
  BY DEF ThreadInv, ThreadsListed
<1>2. DeletionLocked'
  BY DEF ThreadInv, DeletionLocked
<1>3. NoneCreated'
  BY DEF ThreadInv, NoneCreated, Closing, Deleted
<1> QED
  BY <1>1, <1>2, <1>3 DEF ThreadInv

\* delete m_Threads.back() keeps the list of the threads.
LEMMA DeleteStep ==
    ASSUME ThreadInv, NEW a \in Admins, DeleteBegin(a) \/ DeleteEnd(a) \/ NumThreadsEnd(a)
    PROVE  ThreadInv'
<1>1. /\ threads \in Seq(Workers) /\ IsInjective(threads)
      /\ Len(threads) \in Nat /\ target[a] \in Nat
  BY LenProperties DEF ThreadInv, TypeOK
<1>2. Len(<<>>) = 0
  OBVIOUS
<1>3. CASE DeleteBegin(a)
  <2>1. threads # <<>>
    BY <1>1, <1>2, <1>3 DEF DeleteBegin
  <2>2. Back \in Workers
    BY <1>1, <2>1, FrontDistinct DEF Back
  <2>3. TypeOK'
    BY <1>3, <2>2 DEF ThreadInv, TypeOK, DeleteBegin
  <2>4. ThreadsListed'
    BY <1>3 DEF ThreadInv, ThreadsListed, DeleteBegin
  <2>5. mutex = Free \/ mutex = a
    BY <1>3 DEF ThreadInv, DeletionLocked, DeleteBegin
  <2>6. DeletionLocked'
    BY <1>3, <2>5, FreeIsNobody DEF ThreadInv, TypeOK, DeletionLocked, DeleteBegin
  <2>7. NoneCreated'
    BY <1>3 DEF ThreadInv, TypeOK, NoneCreated, Closing, Deleted, DeleteBegin, Admins
  <2> QED
    BY <2>3, <2>4, <2>6, <2>7 DEF ThreadInv
<1>4. CASE DeleteEnd(a)
  <2>1. target[a] < Len(threads) /\ mutex = a
    BY <1>4 DEF ThreadInv, DeletionLocked, DeleteEnd
  <2>2. threads # <<>>
    BY <1>1, <1>2, <2>1
  <2>3. /\ threads' \in Seq(Workers) /\ IsInjective(threads') /\ Back \in Workers
        /\ Len(threads') = Len(threads) - 1 /\ ToSet(threads') = ToSet(threads) \ {Back}
    BY <1>1, <1>4, <2>2, FrontProperties, FrontDistinct DEF DeleteEnd, Back
  <2>4. TypeOK'
    BY <1>4, <2>3 DEF ThreadInv, TypeOK, DeleteEnd
  <2>5. ThreadsListed'
    BY <1>4, <2>3 DEF ThreadInv, TypeOK, ThreadsListed, DeleteEnd
  <2>6. DeletionLocked'
    BY <1>1, <1>4, <2>1, <2>3 DEF ThreadInv, TypeOK, DeletionLocked, DeleteEnd
  <2>7. NoneCreated'
    BY <1>4, <2>2 DEF ThreadInv, TypeOK, NoneCreated, Closing, Deleted, DeleteEnd, Admins
  <2> QED
    BY <2>4, <2>5, <2>6, <2>7 DEF ThreadInv
<1>5. CASE NumThreadsEnd(a)
  <2>1. mutex = a /\ apc' = [apc EXCEPT ![a] = IF a = "owner" THEN "deleted" ELSE "idle"]
    BY <1>5 DEF ThreadInv, DeletionLocked, NumThreadsEnd, Return
  <2>2. TypeOK'
    BY <1>5, <2>1 DEF ThreadInv, TypeOK, NumThreadsEnd, worker
  <2>3. ThreadsListed'
    BY <1>5 DEF ThreadInv, ThreadsListed, NumThreadsEnd, worker
  <2>4. DeletionLocked'
    BY <1>5, <2>1, FreeIsNobody DEF ThreadInv, TypeOK, DeletionLocked, NumThreadsEnd
  <2>5. a = "owner" => threads = <<>>
    BY <1>1, <1>5, EmptySeq DEF ThreadInv, NoneCreated, NumThreadsEnd
  <2>6. NoneCreated'
    BY <1>5, <2>1, <2>5 DEF ThreadInv, TypeOK, NoneCreated, Closing, Deleted, NumThreadsEnd, Admins
  <2> QED
    BY <2>2, <2>3, <2>4, <2>6 DEF ThreadInv
<1> QED
  BY <1>3, <1>4, <1>5

\* Every step keeps the threads, the list of them and the stack mutex in order.
LEMMA ThreadStep == ThreadInv /\ [Next]_vars => ThreadInv'
<1> SUFFICES ASSUME ThreadInv, [Next]_vars PROVE ThreadInv'
  OBVIOUS
<1>a. /\ queue \in Seq(Events \cup {ShutdownEvent}) /\ Len(queue) \in Nat /\ Len(queue) <= Depth
      /\ Depth \in Nat
  BY LenProperties, DispatchAssumption DEF ThreadInv, TypeOK
<1>b. ASSUME NEW e \in Events \cup {ShutdownEvent}, Len(queue) < Depth
      PROVE  /\ Append(queue, e) \in Seq(Events \cup {ShutdownEvent})
             /\ Len(Append(queue, e)) <= Depth
  BY <1>a, <1>b, AppendProperties
<1>1. ASSUME NEW e \in Events, SubmitEvent(e) PROVE ThreadInv'
  <2>1. TypeOK'
    BY <1>1, <1>b DEF ThreadInv, TypeOK, SubmitEvent, worker, admin
  <2> QED
    BY <1>1, <2>1, ThreadsStay DEF SubmitEvent, worker, admin
<1>2. CASE Shutdown
  <2>1. TypeOK'
    BY <1>2, <1>b DEF ThreadInv, TypeOK, Shutdown, worker, admin
  <2> QED
    BY <1>2, <2>1, ThreadsStay DEF Shutdown, worker, admin
<1>3. ASSUME NEW h \in Handlers, EventHandlerAdd(h) PROVE ThreadInv'
  <2>1. handlers' \in Seq(Handlers) /\ IsInjective(handlers')
    BY <1>3, AppendProperties, AppendDistinct DEF EventHandlerAdd, ThreadInv, TypeOK
  <2>2. TypeOK'
    BY <1>3, <2>1 DEF ThreadInv, TypeOK, EventHandlerAdd, worker, admin
  <2> QED
    BY <1>3, <2>2, ThreadsStay DEF EventHandlerAdd, worker, admin
<1>4. ASSUME NEW h \in Handlers, EventHandlerDel(h) PROVE ThreadInv'
  <2>1. PICK i \in 1 .. Len(handlers) : handlers' = RemoveAt(handlers, i)
    BY <1>4, LenProperties DEF EventHandlerDel, ThreadInv, TypeOK
  <2>2. handlers' \in Seq(Handlers) /\ IsInjective(handlers')
    BY <2>1, RemoveAtProperties, RemoveAtDistinct DEF ThreadInv, TypeOK
  <2>3. TypeOK'
    BY <1>4, <2>2 DEF ThreadInv, TypeOK, EventHandlerDel, worker, admin
  <2> QED
    BY <1>4, <2>3, ThreadsStay DEF EventHandlerDel, worker, admin
<1>5. ASSUME NEW n \in 0 .. Cardinality(Workers), NumThreadsSet(n) PROVE ThreadInv'
  <2>1. n \in Nat /\ n <= Cardinality(Workers)
    BY DispatchAssumption, FS_CardinalityType
  <2>2. TypeOK'
    BY <1>5, <2>1 DEF ThreadInv, TypeOK, NumThreadsSet, worker
  <2>3. ThreadsListed'
    BY <1>5, <2>1 DEF ThreadInv, TypeOK, ThreadsListed, NumThreadsSet, worker
  <2>4. DeletionLocked'
    BY <1>5 DEF ThreadInv, TypeOK, DeletionLocked, NumThreadsSet, Admins
  <2>5. NoneCreated'
    BY <1>5 DEF ThreadInv, TypeOK, NoneCreated, Closing, Deleted, NumThreadsSet, Admins
  <2> QED
    BY <2>2, <2>3, <2>4, <2>5 DEF ThreadInv
<1>6. ASSUME NEW a \in Admins, Admin(a) PROVE ThreadInv'
  BY <1>6, CreateThreadsStep, DeleteStep DEF Admin
<1>7. CASE DtorBegin
  <2>1. Len(threads) \in Nat
    BY LenProperties DEF ThreadInv, TypeOK
  <2>2. TypeOK'
    BY <1>7, <2>1 DEF ThreadInv, TypeOK, DtorBegin, worker
  <2>3. ThreadsListed'
    BY <1>7 DEF ThreadInv, ThreadsListed, DtorBegin, worker
  <2>4. DeletionLocked'
    BY <1>7 DEF ThreadInv, TypeOK, DeletionLocked, DtorBegin
  <2>5. NoneCreated'
    BY <1>7 DEF ThreadInv, TypeOK, NoneCreated, Closing, Deleted, DtorBegin, Admins
  <2> QED
    BY <2>2, <2>3, <2>4, <2>5 DEF ThreadInv
<1>8. CASE DtorShutdown
  <2>1. queue' \in Seq(Events \cup {ShutdownEvent}) /\ Len(queue') <= Depth
    BY <1>8, <1>a, <1>b DEF DtorShutdown
  <2>2. signals' \in Nat
    BY <1>8 DEF ThreadInv, TypeOK, DtorShutdown
  <2>3. TypeOK'
    BY <1>8, <2>1, <2>2 DEF ThreadInv, TypeOK, DtorShutdown, worker
  <2> QED
    BY <1>8, <2>3, ThreadsStay DEF DtorShutdown, worker
<1>9. CASE DtorDelete
  <2>1. TypeOK'
    BY <1>9 DEF ThreadInv, TypeOK, DtorDelete, worker
  <2>2. ThreadsListed'
    BY <1>9, DispatchAssumption, FS_CardinalityType
    DEF ThreadInv, TypeOK, ThreadsListed, DtorDelete, worker
  <2>3. DeletionLocked'
    BY <1>9 DEF ThreadInv, TypeOK, DeletionLocked, DtorDelete
  <2>4. NoneCreated'
    BY <1>9 DEF ThreadInv, TypeOK, NoneCreated, Closing, Deleted, DtorDelete, Admins
  <2> QED
    BY <2>1, <2>2, <2>3, <2>4 DEF ThreadInv
<1>10. ASSUME NEW w \in Workers, ThreadFunction(w) \/ GetTimeout(w) PROVE ThreadInv'
  <2>1. CASE ThreadPoll(w) \/ GetTimeout(w)
    <3>1. TypeOK'
      BY <2>1 DEF ThreadInv, TypeOK, ThreadPoll, GetTimeout, WorkerGoto, admin
    <3> QED
      BY <2>1, <3>1, ThreadsStay DEF ThreadInv, TypeOK, ThreadPoll, GetTimeout, WorkerGoto, admin
  <2>2. CASE GetEvent(w)
    <3>1. /\ Head(queue) \in Events \cup {ShutdownEvent}
          /\ Tail(queue) \in Seq(Events \cup {ShutdownEvent}) /\ Len(Tail(queue)) <= Depth
      BY <2>2, <1>a, HeadTailProperties DEF GetEvent
    <3>2. TypeOK'
      BY <2>2, <3>1 DEF ThreadInv, TypeOK, GetEvent, WorkerGoto, admin
    <3> QED
      BY <2>2, <3>2, ThreadsStay DEF ThreadInv, TypeOK, GetEvent, WorkerGoto, admin
  <2>3. CASE CopyHandlers(w)
    <3>1. TypeOK'
      BY <2>3 DEF ThreadInv, TypeOK, CopyHandlers, WorkerGoto, admin
    <3> QED
      BY <2>3, <3>1, ThreadsStay DEF ThreadInv, TypeOK, CopyHandlers, WorkerGoto, admin
  <2>4. CASE RunHandler(w)
    <3>1. Tail(todo[w]) \in Seq(Handlers)
      BY <2>4, HeadTailProperties DEF ThreadInv, TypeOK, RunHandler
    <3>2. TypeOK'
      BY <2>4, <3>1 DEF ThreadInv, TypeOK, RunHandler, admin
    <3> QED
      BY <2>4, <3>2, ThreadsStay DEF RunHandler, admin
  <2>5. CASE FinishEvent(w)
    <3>1. TypeOK'
      BY <2>5 DEF ThreadInv, TypeOK, FinishEvent, WorkerGoto, admin
    <3> QED
      BY <2>5, <3>1, ThreadsStay DEF ThreadInv, TypeOK, FinishEvent, WorkerGoto, admin
  <2> QED
    BY <1>10, <2>1, <2>2, <2>3, <2>4, <2>5 DEF ThreadFunction
<1>11. CASE UNCHANGED vars
  <2>1. TypeOK'
    BY <1>11 DEF ThreadInv, TypeOK, vars, worker, admin
  <2> QED
    BY <1>11, <2>1, ThreadsStay DEF vars, worker, admin
<1> QED
  BY <1>1, <1>2, <1>3, <1>4, <1>5, <1>6, <1>7, <1>8, <1>9, <1>10, <1>11 DEF Next

\* Every variable keeps its type, no handler is registered twice and the queue
\* never holds more than EventQueueDepth.
THEOREM TypeCorrect == Spec => []TypeOK
<1>1. ThreadInv => TypeOK
  BY DEF ThreadInv
<1> QED
  BY <1>1, ThreadInit, ThreadStep, PTL DEF Spec

\* When the destructor returns no dispatch thread is left, whatever NumThreadsSet
\* another thread was in.
THEOREM NoThreadOutlives == Spec => []NoThreadAfterDelete
<1>1. ThreadInv => NoThreadAfterDelete
  <2> SUFFICES ASSUME ThreadInv, Deleted
               PROVE  threads = <<>> /\ \A w \in Workers : wpc[w] = "none"
    BY DEF NoThreadAfterDelete
  <2>1. threads = <<>>
    BY DEF ThreadInv, NoneCreated
  <2>2. ToSet(threads) = {}
    BY <2>1 DEF ToSet
  <2> QED
    BY <2>1, <2>2 DEF ThreadInv, ThreadsListed
<1> QED
  BY <1>1, ThreadInit, ThreadStep, PTL DEF Spec

-----------------------------------------------------------------------------
(* Where the accepted events are.                                          *)

Places(q, e) == {i \in DOMAIN q : q[i] = e}
Holders(h, e) == {w \in Workers : h[w] = e}

\* A worker has an event only from GetEvent to FinishEvent.
HeldNothing ==
    \A w \in Workers : wpc[w] \in {"none", "poll", "get", "exited"} => held[w] = NoEvent

PlaceInv == ThreadInv /\ HeldNothing /\ EventInOnePlace

\* An event stands at finitely many places of a queue, so they can be counted.
LEMMA PlacesFinite ==
    ASSUME NEW S, NEW q \in Seq(S), NEW e
    PROVE  IsFiniteSet(Places(q, e)) /\ Cardinality(Places(q, e)) \in Nat
<1>1. DOMAIN q = 1 .. Len(q) /\ Len(q) \in Nat
  BY LenProperties
<1>2. IsFiniteSet(1 .. Len(q)) /\ Places(q, e) \subseteq 1 .. Len(q)
  BY <1>1, FS_Interval DEF Places
<1> QED
  BY <1>2, FS_Subset, FS_CardinalityType

\* Finitely many workers hold an event that GetEvent has delivered.
LEMMA HoldersFinite ==
    ASSUME NEW h, NEW e
    PROVE  IsFiniteSet(Holders(h, e)) /\ Cardinality(Holders(h, e)) \in Nat
<1>1. Holders(h, e) \subseteq Workers
  BY DEF Holders
<1> QED
  BY <1>1, DispatchAssumption, FS_Subset, FS_CardinalityType

\* Append adds one place to those of the element, and none to the others'.
LEMMA PlacesAppend ==
    ASSUME NEW S, NEW q \in Seq(S), NEW x \in S, NEW e
    PROVE  Cardinality(Places(Append(q, x), e))
             = Cardinality(Places(q, e)) + IF x = e THEN 1 ELSE 0
<1>1. /\ Len(q) \in Nat /\ DOMAIN q = 1 .. Len(q) /\ DOMAIN Append(q, x) = 1 .. Len(q) + 1
      /\ \A i \in 1 .. Len(q) : Append(q, x)[i] = q[i]
      /\ Append(q, x)[Len(q) + 1] = x
  BY AppendProperties, LenProperties
<1>2. 1 .. Len(q) + 1 = (1 .. Len(q)) \cup {Len(q) + 1} /\ Len(q) + 1 \notin 1 .. Len(q)
  BY <1>1
<1>3. CASE x = e
  <2>1. Places(Append(q, x), e) = Places(q, e) \cup {Len(q) + 1} /\ Len(q) + 1 \notin Places(q, e)
    BY <1>1, <1>2, <1>3 DEF Places
  <2>2. Cardinality(Places(q, e) \cup {Len(q) + 1}) = Cardinality(Places(q, e)) + 1
    BY <2>1, PlacesFinite, FS_AddElement
  <2> QED
    BY <2>1, <2>2, <1>3
<1>4. CASE x # e
  <2>1. Places(Append(q, x), e) = Places(q, e)
    BY <1>1, <1>2, <1>4 DEF Places
  <2> QED
    BY <2>1, <1>4, PlacesFinite
<1> QED
  BY <1>3, <1>4

\* Tail takes the first place away.
LEMMA PlacesTail ==
    ASSUME NEW S, NEW q \in Seq(S), q # <<>>, NEW e
    PROVE  Cardinality(Places(q, e))
             = Cardinality(Places(Tail(q), e)) + IF Head(q) = e THEN 1 ELSE 0
<1>1. /\ Len(q) \in Nat \ {0} /\ DOMAIN q = 1 .. Len(q)
      /\ Tail(q) \in Seq(S) /\ Len(Tail(q)) = Len(q) - 1
      /\ \A i \in 1 .. Len(q) - 1 : Tail(q)[i] = q[i + 1]
      /\ Head(q) = q[1]
  BY HeadTailProperties, LenProperties, EmptySeq
<1>2. DOMAIN Tail(q) = 1 .. Len(q) - 1
  BY <1>1, LenProperties
<1> DEFINE later == Places(q, e) \ {1}
           shift == [i \in Places(Tail(q), e) |-> i + 1]
<1>3. shift \in Bijection(Places(Tail(q), e), later)
  <2>1. \A i \in Places(Tail(q), e) : i \in 1 .. Len(q) - 1 /\ q[i + 1] = e
    BY <1>1, <1>2 DEF Places
  <2>2. \A i \in Places(Tail(q), e) : shift[i] \in later
    BY <2>1, <1>1 DEF Places
  <2>3. \A k \in later : k - 1 \in Places(Tail(q), e) /\ shift[k - 1] = k
    <3> SUFFICES ASSUME NEW k \in later
                 PROVE  k - 1 \in Places(Tail(q), e) /\ shift[k - 1] = k
      OBVIOUS
    <3>1. k - 1 \in 1 .. Len(q) - 1 /\ k - 1 + 1 = k /\ q[k] = e
      BY <1>1 DEF Places
    <3>2. k - 1 \in Places(Tail(q), e)
      BY <3>1, <1>1, <1>2 DEF Places
    <3> QED
      BY <3>1, <3>2
  <2>4. \A i, j \in Places(Tail(q), e) : shift[i] = shift[j] => i = j
    BY <2>1
  <2> QED
    BY <2>2, <2>3, <2>4 DEF Bijection, Injection, Surjection, IsInjective
<1>4. Cardinality(Places(Tail(q), e)) = Cardinality(later)
  <2>1. IsFiniteSet(Places(Tail(q), e)) /\ ExistsBijection(Places(Tail(q), e), later)
    BY <1>1, <1>3, PlacesFinite DEF ExistsBijection
  <2> HIDE DEF later
  <2> QED
    BY <2>1, FS_Bijection
<1>5. 1 \in Places(q, e) <=> Head(q) = e
  BY <1>1 DEF Places
<1>6. IsFiniteSet(Places(q, e)) /\ Cardinality(Places(q, e)) \in Nat
  BY PlacesFinite
<1>7. CASE Head(q) = e
  <2>1. Cardinality(later) = Cardinality(Places(q, e)) - 1
    BY <1>5, <1>6, <1>7, FS_RemoveElement
  <2> HIDE DEF later
  <2> QED
    BY <1>4, <1>6, <1>7, <2>1
<1>8. CASE Head(q) # e
  <2>1. later = Places(q, e)
    BY <1>5, <1>8
  <2> HIDE DEF later
  <2> QED
    BY <1>4, <1>6, <1>8, <2>1
<1> QED
  BY <1>7, <1>8

\* The constructor's queue is empty and no worker holds an event.
LEMMA PlaceInit == Init => PlaceInv
<1> SUFFICES ASSUME Init PROVE PlaceInv
  OBVIOUS
<1>1. HeldNothing
  BY DEF Init, HeldNothing
<1>2. \A e \in Events : Places(queue, e) = {} /\ Holders(held, e) = {} /\ state[e] # "accepted"
  BY SpecialEvents DEF Init, Places, Holders
<1>3. EventInOnePlace
  BY <1>2, FS_EmptySet DEF EventInOnePlace, Places, Holders
<1> QED
  BY <1>1, <1>3, ThreadInit DEF PlaceInv

\* An event is taken out of the queue by the worker that holds it from then on.
LEMMA PlaceStep == PlaceInv /\ [Next]_vars => PlaceInv'
<1> SUFFICES ASSUME PlaceInv, [Next]_vars PROVE PlaceInv'
  OBVIOUS
<1>a. ThreadInv /\ ThreadInv'
  BY ThreadStep DEF PlaceInv
<1>b. /\ queue \in Seq(Events \cup {ShutdownEvent})
      /\ held \in [Workers -> Events \cup {ShutdownEvent, NoEvent}]
      /\ wpc \in [Workers -> {"none", "poll", "get", "lock", "run", "shutdown", "exited"}]
      /\ state \in [Events -> {"new", "accepted", "dispatched"}]
  BY <1>a DEF ThreadInv, TypeOK
<1>c. \A e \in Events :
          /\ Cardinality(Places(queue, e)) \in Nat /\ Cardinality(Holders(held, e)) \in Nat
          /\ Cardinality(Places(queue, e)) + Cardinality(Holders(held, e))
                 = IF state[e] = "accepted" THEN 1 ELSE 0
  <2>1. \A e \in Events :
            Cardinality(Places(queue, e)) + Cardinality(Holders(held, e))
                = IF state[e] = "accepted" THEN 1 ELSE 0
    BY DEF PlaceInv, EventInOnePlace, Places, Holders
  <2> QED
    BY <1>b, <2>1, PlacesFinite, HoldersFinite
<1>d. ASSUME HeldNothing',
             \A e \in Events : Cardinality(Places(queue', e)) + Cardinality(Holders(held', e))
                                   = IF state'[e] = "accepted" THEN 1 ELSE 0
      PROVE  PlaceInv'
  <2>1. EventInOnePlace'
    BY <1>d DEF EventInOnePlace, Places, Holders
  <2> QED
    BY <1>a, <1>d, <2>1 DEF PlaceInv
<1>e. ASSUME UNCHANGED <<queue, held, state>>, HeldNothing' PROVE PlaceInv'
  BY <1>c, <1>d, <1>e
<1>f. ASSUME UNCHANGED <<held, wpc>> PROVE HeldNothing'
  BY <1>f DEF PlaceInv, HeldNothing
<1>1. ASSUME NEW e \in Events, SubmitEvent(e) PROVE PlaceInv'
  <2>1. /\ state[e] = "new" /\ queue' = Append(queue, e)
        /\ state' = [state EXCEPT ![e] = "accepted"] /\ UNCHANGED <<held, wpc>>
    BY <1>1 DEF SubmitEvent, worker
  <2>2. \A f \in Events : Cardinality(Places(queue', f))
                             = Cardinality(Places(queue, f)) + IF e = f THEN 1 ELSE 0
    BY <1>b, <2>1, PlacesAppend
  <2>3. \A f \in Events : state'[f] = IF e = f THEN "accepted" ELSE state[f]
    BY <1>b, <2>1
  <2>4. ASSUME NEW f \in Events
        PROVE  Cardinality(Places(queue', f)) + Cardinality(Holders(held', f))
                   = IF state'[f] = "accepted" THEN 1 ELSE 0
    BY <1>c, <2>1, <2>2, <2>3
  <2> QED
    BY <1>d, <1>f, <2>1, <2>4
<1>2. ASSUME queue' = Append(queue, ShutdownEvent), UNCHANGED <<held, wpc, state>> PROVE PlaceInv'
  <2>1. \A f \in Events : ShutdownEvent # f
    BY SpecialEvents
  <2>2. ASSUME NEW f \in Events
        PROVE  Cardinality(Places(queue', f)) = Cardinality(Places(queue, f))
    <3>1. Cardinality(Places(queue', f))
             = Cardinality(Places(queue, f)) + IF ShutdownEvent = f THEN 1 ELSE 0
      BY <1>b, <1>2, PlacesAppend
    <3>2. Cardinality(Places(queue, f)) \in Nat /\ ShutdownEvent # f
      BY <1>c, <2>1
    <3> QED
      BY <3>1, <3>2
  <2> QED
    BY <1>c, <1>d, <1>f, <1>2, <2>2
<1>3. CASE Shutdown \/ DtorShutdown
  BY <1>2, <1>3, <1>e, <1>f DEF Shutdown, DtorShutdown, worker
<1>4. ASSUME NEW a \in Admins, CreateThreads(a) PROVE PlaceInv'
  <2>1. UNCHANGED <<queue, held, state>>
    BY <1>4 DEF CreateThreads
  <2>2. \A w \in Workers : wpc'[w] = wpc[w] \/ (wpc'[w] = "poll" /\ wpc[w] = "none")
    <3>1. PICK new \in Seq(Workers) :
              /\ \A i \in 1 .. Len(new) : wpc[new[i]] = "none"
              /\ wpc' = [w \in Workers |-> IF w \in ToSet(new) THEN "poll" ELSE wpc[w]]
      BY <1>a, <1>4, CreatedHadNoName
    <3>2. \A w \in ToSet(new) : wpc[w] = "none"
      BY <3>1, LenProperties DEF ToSet
    <3>3. \A w \in Workers : wpc'[w] = IF w \in ToSet(new) THEN "poll" ELSE wpc[w]
      BY <3>1
    <3> QED
      BY <3>2, <3>3
  <2>3. HeldNothing'
    BY <2>1, <2>2 DEF PlaceInv, HeldNothing
  <2> QED
    BY <1>e, <2>1, <2>3
<1>5. ASSUME NEW a \in Admins, DeleteEnd(a) PROVE PlaceInv'
  <2>1. /\ wpc[Back] = "exited" /\ wpc' = [wpc EXCEPT ![Back] = "none"]
        /\ UNCHANGED <<queue, held, state>>
    BY <1>5 DEF DeleteEnd
  <2>2. HeldNothing'
    BY <1>b, <2>1 DEF PlaceInv, HeldNothing
  <2> QED
    BY <1>e, <2>1, <2>2
<1>6. ASSUME NEW a \in Admins, DeleteBegin(a) \/ NumThreadsEnd(a) PROVE PlaceInv'
  BY <1>6, <1>e, <1>f DEF DeleteBegin, NumThreadsEnd, worker
<1>7. ASSUME NEW w \in Workers, GetEvent(w) PROVE PlaceInv'
  <2> DEFINE x == Head(queue)
  <2>1. /\ wpc[w] = "get" /\ queue # <<>> /\ queue' = Tail(queue)
        /\ held' = [held EXCEPT ![w] = x] /\ state' = state
        /\ wpc' = [wpc EXCEPT ![w] = IF x = ShutdownEvent THEN "shutdown" ELSE "lock"]
    BY <1>7 DEF GetEvent, WorkerGoto
  <2>2. held[w] = NoEvent
    BY <2>1 DEF PlaceInv, HeldNothing
  <2>3. HeldNothing'
    BY <1>b, <2>1 DEF PlaceInv, HeldNothing
  <2>4. ASSUME NEW f \in Events
        PROVE  Cardinality(Holders(held', f))
                   = Cardinality(Holders(held, f)) + IF x = f THEN 1 ELSE 0
    <3>1. f # NoEvent
      BY SpecialEvents
    <3>2. CASE x = f
      <4>1. Holders(held', f) = Holders(held, f) \cup {w} /\ w \notin Holders(held, f)
        BY <1>b, <2>1, <2>2, <3>1, <3>2 DEF Holders
      <4> QED
        BY <3>2, <4>1, HoldersFinite, FS_AddElement
    <3>3. CASE x # f
      <4>1. Holders(held', f) = Holders(held, f)
        BY <1>b, <2>1, <2>2, <3>1, <3>3 DEF Holders
      <4> QED
        BY <1>c, <3>3, <4>1
    <3> QED
      BY <3>2, <3>3
  <2>5. \A f \in Events : /\ Cardinality(Places(queue', f)) \in Nat
                           /\ Cardinality(Places(queue, f))
                                  = Cardinality(Places(queue', f)) + IF x = f THEN 1 ELSE 0
    <3>1. Tail(queue) \in Seq(Events \cup {ShutdownEvent})
      BY <1>b, <2>1, HeadTailProperties
    <3> QED
      BY <1>b, <2>1, <3>1, PlacesTail, PlacesFinite
  <2> HIDE DEF x
  <2>6. ASSUME NEW f \in Events
        PROVE  Cardinality(Places(queue', f)) + Cardinality(Holders(held', f))
                   = IF state'[f] = "accepted" THEN 1 ELSE 0
    <3> DEFINE one == IF x = f THEN 1 ELSE 0
    <3>1. /\ Cardinality(Holders(held', f)) = Cardinality(Holders(held, f)) + one
          /\ Cardinality(Places(queue, f)) = Cardinality(Places(queue', f)) + one
          /\ Cardinality(Places(queue', f)) \in Nat /\ Cardinality(Holders(held, f)) \in Nat
          /\ one \in Nat
      BY <1>c, <2>4, <2>5
    <3>2. /\ Cardinality(Places(queue, f)) + Cardinality(Holders(held, f))
                 = IF state[f] = "accepted" THEN 1 ELSE 0
          /\ state' = state
      BY <1>c, <2>1
    <3> HIDE DEF one
    <3> QED
      BY <3>1, <3>2
  <2> QED
    BY <1>d, <2>3, <2>6
<1>8. ASSUME NEW w \in Workers, FinishEvent(w) PROVE PlaceInv'
  <2>1. /\ queue' = queue /\ held' = [held EXCEPT ![w] = NoEvent]
        /\ state' = [e \in Events |-> IF e = held[w] THEN "dispatched" ELSE state[e]]
        /\ wpc' = [wpc EXCEPT ![w] = "poll"]
    BY <1>8 DEF FinishEvent, WorkerGoto
  <2>2. HeldNothing'
    BY <1>b, <2>1 DEF PlaceInv, HeldNothing
  <2>3. ASSUME NEW f \in Events
        PROVE  Cardinality(Places(queue', f)) + Cardinality(Holders(held', f))
                   = IF state'[f] = "accepted" THEN 1 ELSE 0
    <3>1. f # NoEvent
      BY SpecialEvents
    <3>2. CASE held[w] = f
      <4>1. Holders(held', f) = Holders(held, f) \ {w} /\ w \in Holders(held, f)
        BY <1>b, <2>1, <3>1, <3>2 DEF Holders
      <4>2. Cardinality(Holders(held', f)) = Cardinality(Holders(held, f)) - 1
        BY <4>1, HoldersFinite, FS_RemoveElement
      <4>3. Cardinality(Holders(held', f)) \in Nat
        BY HoldersFinite
      <4>4. state'[f] = "dispatched"
        BY <2>1, <3>2
      <4>5. /\ Cardinality(Places(queue, f)) \in Nat /\ Cardinality(Holders(held, f)) \in Nat
            /\ Cardinality(Places(queue, f)) + Cardinality(Holders(held, f)) \in {0, 1}
            /\ queue' = queue
        BY <1>c, <2>1
      <4> QED
        BY <4>2, <4>3, <4>4, <4>5
    <3>3. CASE held[w] # f
      <4>1. Holders(held', f) = Holders(held, f) /\ state'[f] = state[f]
        BY <1>b, <2>1, <3>1, <3>3 DEF Holders
      <4> QED
        BY <1>c, <2>1, <4>1
    <3> QED
      BY <3>2, <3>3
  <2> QED
    BY <1>d, <2>2, <2>3
<1>9. ASSUME NEW w \in Workers,
             ThreadPoll(w) \/ GetTimeout(w) \/ CopyHandlers(w) \/ RunHandler(w)
      PROVE  PlaceInv'
  <2>1. UNCHANGED <<queue, held, state>>
    BY <1>9 DEF ThreadPoll, GetTimeout, CopyHandlers, RunHandler
  <2>2. \A v \in Workers : \/ wpc'[v] = wpc[v]
                            \/ wpc[v] \in {"poll", "get"}
                            \/ wpc'[v] \notin {"none", "poll", "get", "exited"}
    BY <1>9, <1>b DEF ThreadPoll, GetTimeout, CopyHandlers, RunHandler, WorkerGoto
  <2>3. HeldNothing'
    BY <1>b, <2>1, <2>2 DEF PlaceInv, HeldNothing
  <2> QED
    BY <1>e, <2>1, <2>3
<1>10. CASE \/ \E h \in Handlers : EventHandlerAdd(h) \/ EventHandlerDel(h)
            \/ \E n \in 0 .. Cardinality(Workers) : NumThreadsSet(n)
            \/ DtorBegin \/ DtorDelete \/ UNCHANGED vars
  <2>1. UNCHANGED <<queue, held, wpc, state>>
    BY <1>10 DEF EventHandlerAdd, EventHandlerDel, NumThreadsSet, DtorBegin, DtorDelete, vars, worker
  <2> QED
    BY <1>e, <1>f, <2>1
<1> QED
  BY <1>1, <1>3, <1>4, <1>5, <1>6, <1>7, <1>8, <1>9, <1>10 DEF Next, Admin, ThreadFunction

\* An event that SubmitEvent accepted is in one place, in the queue or with one
\* worker, until it is deleted.
THEOREM NoEventLost == Spec => []EventInOnePlace
<1>1. PlaceInv => EventInOnePlace
  BY DEF PlaceInv
<1> QED
  BY <1>1, PlaceInit, PlaceStep, PTL DEF Spec

-----------------------------------------------------------------------------
(* Timer (cpTimer.cpp), which feeds a dispatcher: for any periods.  The    *)
(* numbers are those of Timer, without the width of the period itself.     *)

\* Division with remainder: the quotient and the remainder that there are.
LEMMA Division ==
    ASSUME NEW n \in Nat, NEW m \in Nat \ {0}
    PROVE  /\ n \div m \in Nat /\ n % m \in 0 .. m - 1
           /\ n = (n \div m) * m + (n % m)
<1>1. n % m \in 0 .. m - 1 /\ n \div m \in Int /\ n \div m >= 0
  OBVIOUS
<1>2. n = m * (n \div m) + (n % m)
  OBVIOUS
<1>3. m * (n \div m) = (n \div m) * m
  BY <1>1
<1> QED
  BY <1>1, <1>2, <1>3

\* A product that is small has a factor that is null.
LEMMA SmallMultiple ==
    ASSUME NEW m \in Nat \ {0}, NEW j \in Nat, NEW r \in Nat, m * j + r < m
    PROVE  j = 0
<1>1. ASSUME j >= 1 PROVE FALSE
  <2>1. PICK i \in Nat : j = i + 1
    BY <1>1
  <2>2. m * j = m * i + m /\ m * i \in Nat
    BY <2>1
  <2> QED
    BY <2>2
<1> QED
  BY <1>1

\* Of equal units on both sides there is the same number, or fewer.
LEMMA CancelUnits ==
    ASSUME NEW x \in Nat, NEW y \in Nat, NEW k \in Nat \ {0}, x * k < y * k
    PROVE  x < y
<1>1. ASSUME x >= y PROVE FALSE
  <2>1. PICK d \in Nat : x = y + d
    BY <1>1
  <2>2. x * k = y * k + d * k /\ d * k \in Nat /\ y * k \in Nat
    BY <2>1
  <2> QED
    BY <2>2
<1> QED
  BY <1>1

\* The seconds of a period and the rest of it, where the rest that has been computed
\* modulo m is less than a second: nothing has wrapped around.
LEMMA NothingWrapped ==
    ASSUME NEW p \in Nat, NEW u \in Nat \ {0}, NEW m \in Nat \ {0}, u <= m,
           NEW secs, secs = (p \div u) % m, NEW w, w = (secs * u) % m,
           p - w < u
    PROVE  secs = p \div u /\ w = secs * u
<1> DEFINE q == p \div u
           r == p % u
           j == q \div m
           i == (secs * u) \div m
<1>1. q \in Nat /\ r \in Nat /\ p = q * u + r
  BY Division
<1>2. secs \in Nat /\ j \in Nat /\ q = j * m + secs
  BY <1>1, Division
<1>3. secs * u \in Nat
  BY <1>2
<1>4. w \in Nat /\ i \in Nat /\ secs * u = i * m + w
  BY <1>3, Division
<1> HIDE DEF q, r, j, i
<1>5. j * u \in Nat /\ q * u = m * (j * u) + secs * u
  BY <1>2
<1>6. m * (j * u) + m * i = m * (j * u + i) /\ m * i = i * m /\ j * u + i \in Nat
  BY <1>4, <1>5
<1>7. m * (j * u) \in Nat /\ m * i \in Nat /\ m * (j * u + i) \in Nat
  BY <1>4, <1>5
<1>8. p - w = m * (j * u + i) + r
  BY <1>1, <1>3, <1>4, <1>5, <1>6, <1>7
<1>9. j * u + i = 0
  BY <1>1, <1>6, <1>8, SmallMultiple
<1>10. j * u = 0 /\ i = 0
  BY <1>4, <1>5, <1>9
<1>11. j = 0
  BY <1>2, <1>10
<1> QED
  BY <1>2, <1>4, <1>10, <1>11 DEF q

\* What Start computes, where timer_settime takes it, is what was asked for.
LEMMA StartIsExact ==
    ASSUME Tmr!TimerConstants, NEW mode \in Tmr!Modes, NEW scale \in Tmr!Scales, NEW period \in Periods,
           NEW s, s = [mode |-> mode, scale |-> scale, period |-> period],
           NEW t, t = Tmr!TimeSpec(s), t.nsec < Tmr!Nanos,
           Tmr!TooFine(s) => s.period < PerSec[s.scale]
    PROVE  t.sec * Tmr!Nanos + t.nsec = Tmr!Wanted(s)
<1> DEFINE N == Tmr!Nanos
<1>1. N \in Nat \ {0} /\ period \in Nat /\ Modulus \in Nat \ {0}
  BY DEF Tmr!TimerConstants, Tmr!Nanos
<1>2. CASE scale \in DOMAIN SecsPer
  <2>1. SecsPer[scale] \in Nat /\ t = [sec |-> period * SecsPer[scale], nsec |-> 0]
    BY <1>2 DEF Tmr!TimerConstants, Tmr!TimeSpec
  <2>2. Tmr!Wanted(s) = period * SecsPer[scale] * N
    BY <1>2 DEF Tmr!Wanted
  <2> HIDE DEF N
  <2>3. period * SecsPer[scale] * N \in Nat
    BY <1>1, <2>1
  <2> QED
    BY <2>1, <2>2, <2>3 DEF N
<1>3. CASE scale \notin DOMAIN SecsPer
  <2> DEFINE u == PerSec[scale]
             secs == (period \div u) % Modulus
             w == (secs * u) % Modulus
  <2>1. /\ scale \in DOMAIN PerSec /\ u \in Nat \ {0}
        /\ IF u <= N THEN u <= Modulus /\ N % u = 0 ELSE u > Modulus /\ u % N = 0
    BY <1>3 DEF Tmr!TimerConstants, Tmr!Scales
  <2>2. /\ t = [sec |-> secs, nsec |-> Tmr!ToNanos(period - w, scale)]
        /\ Tmr!Wanted(s) = Tmr!ToNanos(period, scale)
    BY <1>3 DEF Tmr!TimeSpec, Tmr!Wanted
  <2>3. CASE u <= N
    <3> DEFINE k == N \div u
               q == period \div u
    <3>1. k \in Nat /\ N = k * u
      <4> HIDE DEF N, u
      <4>1. N \div u \in Nat /\ N % u \in 0 .. u - 1 /\ N = (N \div u) * u + (N % u)
        BY <1>1, <2>1, Division, Zenon
      <4>2. N % u = 0
        BY <2>1, <2>3
      <4>3. (N \div u) * u \in Nat
        BY <2>1, <4>1
      <4> QED
        BY <4>1, <4>2, <4>3
    <3>2. k # 0
      BY <1>1, <2>1, <3>1
    <3>3. /\ q \in Nat /\ secs \in Nat /\ secs <= q /\ period >= q * u
      <4> HIDE DEF u
      <4>1. q \in Nat /\ period % u \in 0 .. u - 1 /\ period = q * u + (period % u)
        BY <1>1, <2>1, Division, Zenon
      <4> HIDE DEF q
      <4>2. /\ q \div Modulus \in Nat /\ q % Modulus \in 0 .. Modulus - 1
            /\ q = (q \div Modulus) * Modulus + (q % Modulus)
        BY <1>1, <4>1, Division, Zenon
      <4>3. (q \div Modulus) * Modulus \in Nat /\ q * u \in Nat
        BY <1>1, <2>1, <4>1, <4>2
      <4>4. secs = q % Modulus
        BY DEF q
      <4> HIDE DEF secs
      <4> QED
        BY <1>1, <2>1, <4>1, <4>2, <4>3, <4>4
    <3>4. w \in Nat /\ w <= secs * u /\ secs * u <= q * u
      <4> HIDE DEF q, secs
      <4>1. secs * u \in Nat
        BY <2>1, <3>3
      <4>2. /\ (secs * u) \div Modulus \in Nat /\ w \in 0 .. Modulus - 1
            /\ secs * u = ((secs * u) \div Modulus) * Modulus + w
        BY <1>1, <4>1, Division, Zenon
      <4>3. ((secs * u) \div Modulus) * Modulus \in Nat
        BY <1>1, <4>2
      <4>4. PICK d \in Nat : q = secs + d
        BY <3>3
      <4>5. q * u = secs * u + d * u /\ d * u \in Nat
        BY <2>1, <3>3, <4>4
      <4> QED
        BY <4>1, <4>2, <4>3, <4>5
    <3>5. Tmr!ToNanos(period - w, scale) = (period - w) * k /\ Tmr!ToNanos(period, scale) = period * k
      BY <2>3 DEF Tmr!ToNanos
    <3>6. period - w \in Nat
      <4> HIDE DEF q, secs, w
      <4> QED
        BY <1>1, <2>1, <3>3, <3>4
    <3>7. (period - w) * k < u * k
      <4>1. t.nsec = (period - w) * k
        BY <2>2, <3>5
      <4> HIDE DEF k, w, N
      <4>2. k * u = u * k
        BY <2>1, <3>1
      <4> QED
        BY <3>1, <4>1, <4>2 DEF N
    <3> HIDE DEF k
    <3>8. period - w < u
      <4> HIDE DEF w
      <4> QED
        BY <2>1, <3>1, <3>2, <3>6, <3>7, CancelUnits
    <3>9. secs = q /\ w = q * u
      BY <1>1, <2>1, <2>3, <3>8, NothingWrapped
    <3> HIDE DEF q, secs, w
    <3>10. q * N + (period - w) * k = period * k
      <4>1. PICK r \in Nat : period - w = r
        BY <3>6
      <4>2. period = q * u + r
        BY <1>1, <2>1, <3>3, <3>9, <4>1
      <4>3. q * (k * u) = (q * u) * k /\ (q * u + r) * k = (q * u) * k + r * k
        BY <2>1, <3>1, <3>3
      <4>4. q * N = (q * u) * k
        BY <3>1, <4>3
      <4> QED
        BY <4>1, <4>2, <4>3, <4>4
    <3>11. t.sec = q /\ t.nsec = (period - w) * k
      BY <2>2, <3>5, <3>9
    <3> QED
      BY <2>2, <3>5, <3>10, <3>11
  <2>4. CASE ~(u <= N)
    <3>1. u > Modulus /\ period < u
      BY <1>1, <2>1, <2>4 DEF Tmr!TooFine
    <3>2. period \div u = 0
      <4> HIDE DEF u
      <4>1. /\ period \div u \in Nat /\ period % u \in 0 .. u - 1
            /\ period = (period \div u) * u + (period % u)
        BY <1>1, <2>1, Division, Zenon
      <4>2. (period \div u) * u = u * (period \div u)
        BY <2>1, <4>1
      <4> QED
        BY <1>1, <2>1, <3>1, <4>1, <4>2, SmallMultiple
    <3>3. 0 % Modulus = 0
      BY <1>1
    <3>4. secs = 0
      BY <3>2, <3>3
    <3>5. w = 0
      BY <2>1, <3>3, <3>4
    <3> HIDE DEF secs, w
    <3>6. t.sec = 0 /\ t.nsec = Tmr!ToNanos(period, scale)
      BY <1>1, <2>2, <3>4, <3>5
    <3>7. Tmr!ToNanos(period, scale) \in Int
      <4>0. u \div N \in Nat /\ u % N \in 0 .. N - 1 /\ u = (u \div N) * N + (u % N)
        <5> HIDE DEF u, N
        <5> QED
          BY <1>1, <2>1, Division, Zenon
      <4>1. u = (u \div N) * N
        <5> HIDE DEF u, N
        <5>1. (u \div N) * N \in Nat
          BY <1>1, <4>0
        <5> QED
          BY <2>1, <2>4, <4>0, <5>1
      <4>2. u \div N # 0
        BY <1>1, <2>1, <4>1
      <4>3. Tmr!ToNanos(period, scale) = period \div (u \div N)
        BY <1>1, <2>1, <2>4 DEF Tmr!ToNanos
      <4>4. \A d \in Nat \ {0} : period \div d \in Int
        BY <1>1
      <4> HIDE DEF u, N
      <4> QED
        BY <4>0, <4>2, <4>3, <4>4
    <3> QED
      BY <1>1, <2>2, <3>6, <3>7
  <2> QED
    BY <2>3, <2>4
<1> QED
  BY <1>2, <1>3

\* A timer runs with the period of the Start that set it, in nanoseconds, whatever
\* the order of calls and expiries; there is nothing else that sets it.
THEOREM TimersAreExact ==
    ASSUME Tmr!TimerConstants PROVE Tmr!TimerSpec => []ArmedIsPeriod
<1> DEFINE Inv == armed = [value |-> armed.value, interval |-> armed.interval] /\ Tmr!ArmedIsPeriod
<1>1. Tmr!TimerInit => Inv
  BY DEF Tmr!TimerInit, Tmr!Off, Tmr!ArmedIsPeriod
<1>2. Inv /\ [Tmr!TimerNext]_(Tmr!vars) => Inv'
  <2> SUFFICES ASSUME Inv, [Tmr!TimerNext]_(Tmr!vars) PROVE Inv'
    OBVIOUS
  <2> DEFINE Exact(a, s) ==
                a.value # 0 /\ (Tmr!TooFine(s) => s.period < PerSec[s.scale]) =>
                   /\ a.value = Tmr!Wanted(s)
                   /\ a.interval = IF s.mode = "Delay" THEN 0 ELSE Tmr!Wanted(s)
  <2>1. Exact(armed, started) /\ (Exact(armed, started)' => Tmr!ArmedIsPeriod')
    BY DEF Tmr!ArmedIsPeriod, Tmr!Wanted, Tmr!TooFine, Tmr!ToNanos, Tmr!Nanos
  <2> HIDE DEF Exact
  <2>2. CASE UNCHANGED <<armed, started>>
    BY <2>1, <2>2
  <2>3. ASSUME NEW mode \in Tmr!Modes, NEW scale \in Tmr!Scales, NEW period \in Periods,
               Tmr!Start([mode |-> mode, scale |-> scale, period |-> period])
        PROVE  Inv'
    <3> DEFINE s == [mode |-> mode, scale |-> scale, period |-> period]
               t == Tmr!TimeSpec(s)
               value == t.sec * Tmr!Nanos + t.nsec
    <3>1. CASE ~(t.nsec < Tmr!Nanos)
      BY <2>1, <2>3, <3>1 DEF Tmr!Start
    <3>2. CASE t.nsec < Tmr!Nanos
      <4>1. armed' = [value |-> value, interval |-> Tmr!Reload(mode, value)] /\ started' = s
        BY <2>3, <3>2 DEF Tmr!Start
      <4>2. (Tmr!TooFine(s) => s.period < PerSec[s.scale]) => value = Tmr!Wanted(s)
        BY <3>2, StartIsExact
      <4> HIDE DEF value
      <4>3. Exact(armed', started')
        BY <4>1, <4>2 DEF Exact, Tmr!Reload
      <4> QED
        BY <2>1, <4>1, <4>3
    <3> QED
      BY <3>1, <3>2
  <2>4. CASE armed' = Tmr!Off /\ UNCHANGED started
    BY <2>1, <2>4 DEF Exact, Tmr!Off
  <2>5. CASE Tmr!Expire
    BY <2>1, <2>5 DEF Exact, Tmr!Expire
  <2> QED
    BY <2>2, <2>3, <2>4, <2>5 DEF Tmr!TimerNext, Tmr!vars, Tmr!Stop, Tmr!SubmitEvent, Tmr!Give,
       Tmr!WaitEvent, Tmr!MakeDispatch, Tmr!RegisterHandler, Tmr!TimerEventDispatch,
       Tmr!DeleteTimer, Tmr!DeleteDispatch, Tmr!LateCallback
<1>3. Inv => ArmedIsPeriod
  BY DEF ArmedIsPeriod
<1> QED
  BY <1>1, <1>2, <1>3, PTL DEF Tmr!TimerSpec

-----------------------------------------------------------------------------
(* IpcNode, whose control events a dispatcher hands to their handlers: for *)
(* any number of messages, dispatch threads and events in a queue.         *)

\* The records that the node's state consists of.
ContextRecord ==
    [disp : BOOLEAN, handlers : SUBSET {"Control", "Client"},
     queue : Seq(Nde!Msgs \cup {StopEvent}), head : Nde!Msgs \cup {NoOne}]
ThreadRecord ==
    [pc : {"none", "get", "copy", "run", "post", "given", "refused", "flushed", "exited"},
     msg : Nde!Msgs \cup {NoOne}, exit : BOOLEAN]
AccRecord ==
    [pc : {"get", "put", "remove", "removing", "exited"}, msg : Nde!Msgs \cup {NoOne}]
RemovalRecord ==
    [of : Nde!Contexts \cup {NoOne}, pc : {"idle", "signal", "delete"} \cup Nde!ThreadNames,
     signals : Int, left : SUBSET Nde!ThreadNames]
CtlRecord ==
    [start : {0, 1}, exit : {0, 1}, flag : BOOLEAN, entry : BOOLEAN, waited : BOOLEAN,
     life : {"up", "members", "crashed"}]
HistRecord ==
    [lost : SUBSET Nde!Msgs, acted : [Nde!Msgs -> Nat], failed : SUBSET Nde!Msgs]

NodeTypes ==
    /\ received \in Seq(MsgKinds) /\ Len(received) <= MaxMsgs
    /\ context \in [Nde!Contexts -> ContextRecord]
    /\ work \in [Nde!ThreadNames -> ThreadRecord]
    /\ acc \in AccRecord /\ removal \in RemovalRecord
    /\ ctl \in CtlRecord /\ hist \in HistRecord
    /\ freed \in [Nde!Msgs -> Nat]

\* Message m is at the place p and nowhere else; it is nowhere at Gone.
Gone == <<"gone", 0>>
SomePlaces ==
    ({"head", "queue"} \X Nde!Contexts) \cup ({"thread"} \X Nde!ThreadNames)
        \cup {<<"acc", 0>>, <<"lost", 0>>, Gone}

IsAt(m, p) ==
    /\ \A c \in Nde!Contexts :
           /\ context[c].head = m <=> p = <<"head", c>>
           /\ (\E i \in DOMAIN context[c].queue : context[c].queue[i] = m)
                  <=> p = <<"queue", c>>
    /\ \A v \in Nde!ThreadNames : work[v].msg = m <=> p = <<"thread", v>>
    /\ acc.pc = "put" /\ acc.msg = m <=> p = <<"acc", 0>>
    /\ m \in hist.lost <=> p = <<"lost", 0>>

\* A message is nowhere before it is received and after it is deleted, once.
OnePlace ==
    \A m \in Nde!Msgs : \E p \in SomePlaces :
        /\ IsAt(m, p)
        /\ m \notin DOMAIN received => p = Gone
        /\ freed[m] = IF m \in DOMAIN received /\ p = Gone THEN 1 ELSE 0

\* A message is with the context that its id names, and once in a queue.
InContext ==
    \A c \in Nde!Contexts :
        /\ \A i \in DOMAIN context[c].queue : context[c].queue[i] # StopEvent =>
               /\ Nde!ContextOf(context[c].queue[i]) = c
               /\ \A j \in DOMAIN context[c].queue :
                      context[c].queue[i] = context[c].queue[j] => i = j
        /\ context[c].head # NoOne => Nde!ContextOf(context[c].head) = c

\* A dispatch thread has a message of its context from Get to PostDispatch, and
\* is in a control handler for a message that asks for it.
AtWork ==
    \A v \in Nde!ThreadNames :
        /\ work[v].msg # NoOne =>
               /\ Nde!ContextOf(work[v].msg) = Nde!Home(v)
               /\ work[v].pc \notin {"none", "get", "exited"}
        /\ work[v].pc \in {"given", "refused"} =>
               work[v].msg # NoOne /\ received[work[v].msg] = "Shutdown"
        /\ work[v].pc = "flushed" =>
               work[v].msg # NoOne /\ received[work[v].msg] = "FlushAddr"
        /\ Nde!Home(v) = 0 => work[v].pc # "post"
        /\ work[v].pc # "none" => context[Nde!Home(v)].disp

\* The accumulator thread, or ~IpcAccumMap after it, removes a context that has a
\* dispatcher; threads that are done with are gone.
Removals ==
    /\ acc.pc \in {"put", "remove"} => acc.msg \in DOMAIN received
    /\ acc.pc = "remove" =>
           /\ Nde!ContextOf(acc.msg) = Reply /\ context[Reply].disp
           /\ removal.pc = "idle"
    /\ acc.pc = "exited" => ctl.life # "up"
    /\ removal.pc # "idle" =>
           /\ removal.of \in Nde!Contexts
           /\ context[removal.of].disp /\ context[removal.of].head = NoOne
           /\ \/ acc.pc = "removing" /\ removal.of = Reply
              \/ acc.pc = "exited"
           /\ \A v \in Threads[removal.of] :
                  v \notin removal.left /\ v # removal.pc => work[v].pc = "none"

\* What a control event comes to, and what the node keeps as long as it is up.
Control ==
    /\ context[0].disp => context[0].handlers = {"Control"}
    /\ \A m \in Nde!Msgs : freed[m] = 0 => hist.acted[m] = 0 /\ m \notin hist.failed
    /\ ctl.life = "up" =>
          /\ context[0].disp /\ context[0].head = NoOne
          /\ ctl.entry \/ Nde!Flushing
          /\ \A m \in hist.lost : Nde!ContextOf(m) = Reply
          /\ \A m \in DOMAIN received : Nde!ContextOf(m) = 0 /\ freed[m] = 1 =>
                hist.acted[m] = IF m \in hist.failed THEN 0 ELSE 1

\* Of several shutdowns the first gives the semaphore, which stays or is taken;
\* one that is refused comes after another, or while it is still on its way.
ExitKept ==
    /\ Nde!Shutdowns # {} \/ Nde!Signalling <=> ctl.exit = 1 \/ ctl.waited
    /\ \A v \in Nde!ThreadNames : work[v].pc = "refused" =>
          \/ Nde!Shutdowns # {}
          \/ \E u \in Nde!ThreadNames \ {v} : work[u].pc \in {"given", "refused"}
    /\ ~Nde!Signalling => \A m \in Nde!Msgs : Nde!Shutdowns = {m} => ctl.flag

NodeInv ==
    NodeTypes /\ OnePlace /\ InContext /\ AtWork /\ Removals /\ Control /\ ExitKept

\* Each dispatch thread belongs to one of the two contexts.
LEMMA NodeHome ==
    ASSUME Nde!NodeConstants
    PROVE  /\ 0 \in Nde!Contexts /\ Reply \in Nde!Contexts /\ Reply # 0
           /\ \A v \in Nde!ThreadNames :
                  Nde!Home(v) \in Nde!Contexts /\ v \in Threads[Nde!Home(v)]
           /\ \A c \in Nde!Contexts : \A v \in Threads[c] :
                  v \in Nde!ThreadNames /\ Nde!Home(v) = c
           /\ \A m : Nde!ContextOf(m) \in Nde!Contexts
<1>1. 0 \in Nde!Contexts /\ Reply \in Nde!Contexts /\ Reply # 0
  BY DEF Nde!NodeConstants, Nde!Contexts
<1>2. \A v \in Nde!ThreadNames : \E c \in Nde!Contexts : v \in Threads[c]
  BY DEF Nde!ThreadNames
<1>3. \A v \in Nde!ThreadNames :
         Nde!Home(v) \in Nde!Contexts /\ v \in Threads[Nde!Home(v)]
  BY <1>2 DEF Nde!Home
<1>4. \A c \in Nde!Contexts : \A v \in Threads[c] : v \in Nde!ThreadNames
  BY DEF Nde!ThreadNames
<1>5. \A c \in Nde!Contexts, d \in Nde!Contexts : \A v \in Threads[c] :
         v \in Threads[d] => c = d
  BY DEF Nde!NodeConstants, Nde!Contexts
<1>6. \A c \in Nde!Contexts : \A v \in Threads[c] :
         v \in Nde!ThreadNames /\ Nde!Home(v) = c
  BY <1>3, <1>4, <1>5
<1>7. \A m : Nde!ContextOf(m) \in Nde!Contexts
  BY <1>1 DEF Nde!ContextOf
<1> QED
  BY <1>1, <1>3, <1>6, <1>7

\* Deletions are counted.
LEMMA FreeingType ==
    ASSUME freed \in [Nde!Msgs -> Nat]
    PROVE  \A ms : Nde!Freeing(ms) \in [Nde!Msgs -> Nat]
<1> SUFFICES ASSUME NEW ms PROVE Nde!Freeing(ms) \in [Nde!Msgs -> Nat]
  OBVIOUS
<1>1. \A m \in Nde!Msgs : freed[m] + (IF m \in ms THEN 1 ELSE 0) \in Nat
  OBVIOUS
<1> QED
  BY <1>1 DEF Nde!Freeing

\* An update of one field leaves the others as they were: for a context's head,
LEMMA HeadSet ==
    ASSUME context \in [Nde!Contexts -> ContextRecord],
           NEW c \in Nde!Contexts, NEW h \in Nde!Msgs \cup {NoOne},
           context' = [context EXCEPT ![c].head = h]
    PROVE  /\ context' \in [Nde!Contexts -> ContextRecord]
           /\ \A d \in Nde!Contexts :
                  /\ context'[d].disp = context[d].disp
                  /\ context'[d].handlers = context[d].handlers
                  /\ context'[d].queue = context[d].queue
                  /\ context'[d].head = IF d = c THEN h ELSE context[d].head
<1>1. PICK r \in ContextRecord : r = context[c]
  OBVIOUS
<1>2. [r EXCEPT !.head = h] \in ContextRecord
  BY DEF ContextRecord
<1>3. PICK s \in ContextRecord : s = [r EXCEPT !.head = h]
  BY <1>2
<1>4. s.disp = r.disp /\ s.handlers = r.handlers /\ s.queue = r.queue /\ s.head = h
  BY <1>3 DEF ContextRecord
<1> QED
  BY <1>1, <1>3, <1>4

\* for its queue,
LEMMA QueueSet ==
    ASSUME context \in [Nde!Contexts -> ContextRecord],
           NEW c \in Nde!Contexts, NEW q \in Seq(Nde!Msgs \cup {StopEvent}),
           context' = [context EXCEPT ![c].queue = q]
    PROVE  /\ context' \in [Nde!Contexts -> ContextRecord]
           /\ \A d \in Nde!Contexts :
                  /\ context'[d].disp = context[d].disp
                  /\ context'[d].handlers = context[d].handlers
                  /\ context'[d].queue = IF d = c THEN q ELSE context[d].queue
                  /\ context'[d].head = context[d].head
<1>1. PICK r \in ContextRecord : r = context[c]
  OBVIOUS
<1>2. [r EXCEPT !.queue = q] \in ContextRecord
  BY DEF ContextRecord
<1>3. PICK s \in ContextRecord : s = [r EXCEPT !.queue = q]
  BY <1>2
<1>4. s.disp = r.disp /\ s.handlers = r.handlers /\ s.queue = q /\ s.head = r.head
  BY <1>3 DEF ContextRecord
<1> QED
  BY <1>1, <1>3, <1>4

\* for its list of handlers,
LEMMA HandlersSet ==
    ASSUME context \in [Nde!Contexts -> ContextRecord],
           NEW c \in Nde!Contexts, NEW hs \in SUBSET {"Control", "Client"},
           context' = [context EXCEPT ![c].handlers = hs]
    PROVE  /\ context' \in [Nde!Contexts -> ContextRecord]
           /\ \A d \in Nde!Contexts :
                  /\ context'[d].disp = context[d].disp
                  /\ context'[d].handlers = IF d = c THEN hs ELSE context[d].handlers
                  /\ context'[d].queue = context[d].queue
                  /\ context'[d].head = context[d].head
<1>1. PICK r \in ContextRecord : r = context[c]
  OBVIOUS
<1>2. [r EXCEPT !.handlers = hs] \in ContextRecord
  BY DEF ContextRecord
<1>3. PICK s \in ContextRecord : s = [r EXCEPT !.handlers = hs]
  BY <1>2
<1>4. s.disp = r.disp /\ s.handlers = hs /\ s.queue = r.queue /\ s.head = r.head
  BY <1>3 DEF ContextRecord
<1> QED
  BY <1>1, <1>3, <1>4

\* and for a dispatcher that is created with its handlers.
LEMMA DispatcherSet ==
    ASSUME context \in [Nde!Contexts -> ContextRecord],
           NEW c \in Nde!Contexts, NEW hs \in SUBSET {"Control", "Client"},
           context' = [context EXCEPT ![c].disp = TRUE, ![c].handlers = hs]
    PROVE  /\ context' \in [Nde!Contexts -> ContextRecord]
           /\ \A d \in Nde!Contexts :
                  /\ context'[d].disp = IF d = c THEN TRUE ELSE context[d].disp
                  /\ context'[d].handlers = IF d = c THEN hs ELSE context[d].handlers
                  /\ context'[d].queue = context[d].queue
                  /\ context'[d].head = context[d].head
<1>1. PICK r \in ContextRecord : r = context[c]
  OBVIOUS
<1>2. [r EXCEPT !.disp = TRUE] \in ContextRecord
  BY DEF ContextRecord
<1>3. PICK s \in ContextRecord : s = [r EXCEPT !.disp = TRUE]
  BY <1>2
<1>4. s.disp = TRUE /\ s.handlers = r.handlers /\ s.queue = r.queue /\ s.head = r.head
  BY <1>3 DEF ContextRecord
<1>5. PICK g : g = [context EXCEPT ![c] = s]
  OBVIOUS
<1>6. context' = [g EXCEPT ![c] = [g[c] EXCEPT !.handlers = hs]]
  BY <1>1, <1>3, <1>5
<1>7. g \in [Nde!Contexts -> ContextRecord] /\ g[c] = s
  BY <1>5
<1>8. [s EXCEPT !.handlers = hs] \in ContextRecord
  BY DEF ContextRecord
<1>9. PICK t \in ContextRecord : t = [s EXCEPT !.handlers = hs]
  BY <1>8
<1>10. t.disp = s.disp /\ t.handlers = hs /\ t.queue = s.queue /\ t.head = s.head
  BY <1>9 DEF ContextRecord
<1>11. context' = [context EXCEPT ![c] = t]
  BY <1>5, <1>6, <1>7, <1>9
<1> QED
  BY <1>1, <1>4, <1>10, <1>11

\* A thread goes on to t, the others stay where they are.
Goes(v, t) ==
    /\ work' \in [Nde!ThreadNames -> ThreadRecord]
    /\ \A u \in Nde!ThreadNames \ {v} : work'[u] = work[u]
    /\ work'[v].pc = t.pc /\ work'[v].msg = t.msg /\ work'[v].exit = t.exit

\* An assignment to a thread's state moves that thread alone;
LEMMA ThreadGoes ==
    ASSUME work \in [Nde!ThreadNames -> ThreadRecord], NEW v \in Nde!ThreadNames,
           NEW t \in ThreadRecord, work' = [work EXCEPT ![v] = t]
    PROVE  Goes(v, t)
  BY DEF Goes

\* so do assignments to its fields.
LEMMA ThreadFields ==
    ASSUME work \in [Nde!ThreadNames -> ThreadRecord], NEW v \in Nde!ThreadNames,
           NEW p \in {"none", "get", "copy", "run", "post", "given", "refused", "flushed",
                      "exited"},
           NEW m \in Nde!Msgs \cup {NoOne}, NEW x \in BOOLEAN
    PROVE  /\ work' = [work EXCEPT ![v].pc = p]
                  => Goes(v, [pc |-> p, msg |-> work[v].msg, exit |-> work[v].exit])
           /\ work' = [work EXCEPT ![v].pc = p, ![v].msg = m]
                  => Goes(v, [pc |-> p, msg |-> m, exit |-> work[v].exit])
           /\ work' = [work EXCEPT ![v].exit = x]
                  => Goes(v, [pc |-> work[v].pc, msg |-> work[v].msg, exit |-> x])
           /\ work' = [work EXCEPT ![v].pc = p, ![v].exit = x]
                  => Goes(v, [pc |-> p, msg |-> work[v].msg, exit |-> x])
<1>1. PICK r \in ThreadRecord : r = work[v]
  OBVIOUS
<1>2. ASSUME work' = [work EXCEPT ![v].pc = p]
      PROVE  Goes(v, [pc |-> p, msg |-> work[v].msg, exit |-> work[v].exit])
  <2>1. PICK t : t = [r EXCEPT !.pc = p]
    OBVIOUS
  <2>2. t \in ThreadRecord /\ t.pc = p /\ t.msg = r.msg /\ t.exit = r.exit
    BY <2>1 DEF ThreadRecord
  <2> QED
    BY <1>1, <1>2, <2>1, <2>2, ThreadGoes DEF Goes
<1>3. ASSUME work' = [work EXCEPT ![v].pc = p, ![v].msg = m]
      PROVE  Goes(v, [pc |-> p, msg |-> m, exit |-> work[v].exit])
  <2>1. PICK t : t = [r EXCEPT !.pc = p, !.msg = m]
    OBVIOUS
  <2>2. t \in ThreadRecord /\ t.pc = p /\ t.msg = m /\ t.exit = r.exit
    BY <2>1 DEF ThreadRecord
  <2>3. work' = [work EXCEPT ![v] = t]
    BY <1>1, <1>3, <2>1
  <2> QED
    BY <1>1, <2>2, <2>3, ThreadGoes DEF Goes
<1>4. ASSUME work' = [work EXCEPT ![v].exit = x]
      PROVE  Goes(v, [pc |-> work[v].pc, msg |-> work[v].msg, exit |-> x])
  <2>1. PICK t : t = [r EXCEPT !.exit = x]
    OBVIOUS
  <2>2. t \in ThreadRecord /\ t.pc = r.pc /\ t.msg = r.msg /\ t.exit = x
    BY <2>1 DEF ThreadRecord
  <2> QED
    BY <1>1, <1>4, <2>1, <2>2, ThreadGoes DEF Goes
<1>5. ASSUME work' = [work EXCEPT ![v].pc = p, ![v].exit = x]
      PROVE  Goes(v, [pc |-> p, msg |-> work[v].msg, exit |-> x])
  <2>1. PICK t : t = [r EXCEPT !.pc = p, !.exit = x]
    OBVIOUS
  <2>2. t \in ThreadRecord /\ t.pc = p /\ t.msg = r.msg /\ t.exit = x
    BY <2>1 DEF ThreadRecord
  <2>3. work' = [work EXCEPT ![v] = t]
    BY <1>1, <1>5, <2>1
  <2> QED
    BY <1>1, <2>2, <2>3, ThreadGoes DEF Goes
<1> QED
  BY <1>2, <1>3, <1>4, <1>5

-----------------------------------------------------------------------------
\* What has a place has been received, and has not been deleted.
LEMMA Placed ==
    ASSUME Nde!NodeConstants, NodeInv
    PROVE  /\ DOMAIN received = 1 .. Len(received) /\ Len(received) \in Nat
           /\ DOMAIN received \subseteq Nde!Msgs
           /\ NoOne \notin Nde!Msgs /\ StopEvent \notin Nde!Msgs
           /\ \A c \in Nde!Contexts :
                  /\ context[c].head # NoOne =>
                         context[c].head \in DOMAIN received /\ freed[context[c].head] = 0
                  /\ \A i \in DOMAIN context[c].queue : context[c].queue[i] # StopEvent =>
                         /\ context[c].queue[i] \in DOMAIN received
                         /\ freed[context[c].queue[i]] = 0
           /\ \A v \in Nde!ThreadNames : work[v].msg # NoOne =>
                  work[v].msg \in DOMAIN received /\ freed[work[v].msg] = 0
           /\ \A m \in hist.lost : m \in DOMAIN received /\ freed[m] = 0
           /\ acc.pc = "put" => acc.msg \in DOMAIN received /\ freed[acc.msg] = 0
           /\ \A m \in Nde!Msgs : freed[m] \in {0, 1}
<1> USE DEF NodeInv
<1>1. DOMAIN received = 1 .. Len(received) /\ Len(received) \in Nat
  BY DEF NodeTypes
<1>2. DOMAIN received \subseteq Nde!Msgs
  BY <1>1 DEF NodeTypes, Nde!Msgs, Nde!NodeConstants
<1>3. NoOne \notin Nde!Msgs /\ StopEvent \notin Nde!Msgs
  BY DEF Nde!NodeConstants
<1>4. \A m \in Nde!Msgs, p \in SomePlaces :
         IsAt(m, p) /\ p # Gone => \/ m \in DOMAIN received /\ freed[m] = 0
                                   \/ ~OnePlace
  BY DEF OnePlace, IsAt, SomePlaces
<1>5. ASSUME NEW m \in Nde!Msgs, ~(m \in DOMAIN received /\ freed[m] = 0)
      PROVE  IsAt(m, Gone)
  BY <1>5 DEF OnePlace
<1>6. \A c \in Nde!Contexts :
         <<"head", c>> # Gone /\ <<"queue", c>> # Gone
  BY DEF Gone
<1>7. \A v \in Nde!ThreadNames : <<"thread", v>> # Gone
  BY DEF Gone
<1>8. <<"acc", 0>> # Gone /\ <<"lost", 0>> # Gone
  BY DEF Gone
<1>9. \A c \in Nde!Contexts :
         /\ context[c].head \in Nde!Msgs \cup {NoOne}
         /\ \A i \in DOMAIN context[c].queue : context[c].queue[i] \in Nde!Msgs \cup {StopEvent}
  BY DEF NodeTypes, ContextRecord
<1>10. \A v \in Nde!ThreadNames : work[v].msg \in Nde!Msgs \cup {NoOne}
  BY DEF NodeTypes, ThreadRecord
<1>11. \A m \in hist.lost : m \in Nde!Msgs
  BY DEF NodeTypes, HistRecord
<1>12. \A c \in Nde!Contexts :
         /\ context[c].head # NoOne =>
                context[c].head \in DOMAIN received /\ freed[context[c].head] = 0
         /\ \A i \in DOMAIN context[c].queue : context[c].queue[i] # StopEvent =>
                /\ context[c].queue[i] \in DOMAIN received
                /\ freed[context[c].queue[i]] = 0
  BY <1>5, <1>6, <1>9 DEF IsAt
<1>13. \A v \in Nde!ThreadNames : work[v].msg # NoOne =>
          work[v].msg \in DOMAIN received /\ freed[work[v].msg] = 0
  BY <1>5, <1>7, <1>10 DEF IsAt
<1>14. \A m \in hist.lost : m \in DOMAIN received /\ freed[m] = 0
  BY <1>5, <1>8, <1>11 DEF IsAt
<1>15. acc.pc = "put" => acc.msg \in DOMAIN received /\ freed[acc.msg] = 0
  BY <1>2, <1>5, <1>8 DEF IsAt, Removals
<1>16. \A m \in Nde!Msgs : freed[m] \in {0, 1}
  BY DEF OnePlace
<1> QED
  BY <1>1, <1>2, <1>3, <1>12, <1>13, <1>14, <1>15, <1>16

\* Deletions are counted.
LEMMA FreeingIs ==
    ASSUME NodeTypes, NEW ms, freed' = Nde!Freeing(ms)
    PROVE  /\ freed' \in [Nde!Msgs -> Nat]
           /\ \A m \in Nde!Msgs : freed'[m] = IF m \in ms THEN freed[m] + 1 ELSE freed[m]
<1>1. \A m \in Nde!Msgs : freed[m] + (IF m \in ms THEN 1 ELSE 0) \in Nat
  BY DEF NodeTypes
<1> QED
  BY <1>1 DEF Nde!Freeing, NodeTypes

\* Messages belong where they belonged as long as none comes.
LEMMA KindsKept ==
    ASSUME received' = received
    PROVE  \A m : Nde!ContextOf(m)' = Nde!ContextOf(m)
  BY DEF Nde!ContextOf

\* Steps without a part in the shutdown of a node.
LEMMA ExitSame ==
    ASSUME Nde!NodeConstants, NodeInv,
           Nde!Shutdowns' = Nde!Shutdowns,
           \A v \in Nde!ThreadNames :
               /\ work'[v].pc = "given" <=> work[v].pc = "given"
               /\ work'[v].pc = "refused" <=> work[v].pc = "refused",
           ctl'.exit = ctl.exit, ctl'.waited = ctl.waited, ctl'.flag = ctl.flag
    PROVE  ExitKept'
<1>1. Nde!Signalling' <=> Nde!Signalling
  BY DEF Nde!Signalling
<1> QED
  BY <1>1 DEF ExitKept, NodeInv

\* Only a handler that acts changes which shutdowns there were.
LEMMA SameShutdowns ==
    ASSUME received' = received, hist'.acted = hist.acted
    PROVE  Nde!Shutdowns' = Nde!Shutdowns
  BY DEF Nde!Shutdowns

-----------------------------------------------------------------------------
\* The accumulator completes a message, which was nowhere and is now in the
\* accumulator thread.
LEMMA CompleteStep ==
    ASSUME Nde!NodeConstants, NodeInv, NEW k \in MsgKinds, Nde!Complete(k)
    PROVE  NodeInv'
<1>1. PICK n : n = Len(received) + 1
  OBVIOUS
<1>2. /\ received' \in Seq(MsgKinds) /\ Len(received') = n /\ n \in Nde!Msgs
      /\ n \notin DOMAIN received
      /\ DOMAIN received' = DOMAIN received \cup {n}
      /\ \A m \in DOMAIN received : received'[m] = received[m]
  BY <1>1, Placed DEF NodeInv, NodeTypes, Nde!Complete, Nde!Msgs, Nde!NodeConstants
<1>3. acc.pc = "get" /\ acc' = [pc |-> "put", msg |-> n]
  BY <1>2 DEF Nde!Complete
<1>4. UNCHANGED <<context, work, removal, ctl, freed, hist>>
  BY DEF Nde!Complete
<1>5. \A m \in DOMAIN received : Nde!ContextOf(m)' = Nde!ContextOf(m)
  BY <1>2 DEF Nde!ContextOf
<1>6. NodeTypes'
  BY <1>2, <1>3, <1>4 DEF NodeInv, NodeTypes, AccRecord, Nde!Msgs, Nde!NodeConstants
<1>7. OnePlace'
  <2>1. IsAt(n, Gone) /\ freed[n] = 0
    BY <1>2 DEF NodeInv, OnePlace
  <2>2. acc'.pc = "put" /\ acc'.msg = n
    BY <1>3
  <2>3. IsAt(n, <<"acc", 0>>)'
    BY <1>4, <2>1, <2>2 DEF IsAt, Gone
  <2>4. \A m \in Nde!Msgs \ {n} : \A p : IsAt(m, p) => IsAt(m, p)'
    BY <1>3, <1>4 DEF IsAt
  <2>5. <<"acc", 0>> \in SomePlaces /\ <<"acc", 0>> # Gone
    BY DEF SomePlaces, Gone
  <2> QED
    <3> SUFFICES ASSUME NEW m \in Nde!Msgs
                 PROVE  \E p \in SomePlaces :
                            /\ IsAt(m, p)'
                            /\ m \notin DOMAIN received' => p = Gone
                            /\ freed'[m] =
                                   IF m \in DOMAIN received' /\ p = Gone THEN 1 ELSE 0
      BY DEF OnePlace
    <3>1. CASE m = n
      BY <1>2, <1>4, <2>1, <2>3, <2>5, <3>1
    <3>2. CASE m # n
      BY <1>2, <1>4, <2>4, <3>2 DEF NodeInv, OnePlace
    <3> QED
      BY <3>1, <3>2
<1>8. InContext'
  BY <1>4, <1>5, Placed DEF NodeInv, InContext
<1>9. AtWork'
  BY <1>2, <1>4, <1>5, Placed DEF NodeInv, AtWork
<1>10. Removals'
  BY <1>2, <1>3, <1>4, <1>5 DEF NodeInv, Removals
<1>11. Control'
  <2>1. freed[n] = 0
    BY <1>2 DEF NodeInv, OnePlace
  <2> QED
    BY <1>2, <1>4, <1>5, <2>1, Placed DEF NodeInv, Control, Nde!Flushing
<1>12. ExitKept'
  <2>1. freed[n] = 0
    BY <1>2 DEF NodeInv, OnePlace
  <2>2. hist.acted[n] = 0
    BY <1>2, <2>1 DEF NodeInv, Control
  <2>3. Nde!Shutdowns' = Nde!Shutdowns
    BY <1>2, <1>4, <2>2 DEF Nde!Shutdowns
  <2> QED
    BY <1>4, <2>3, ExitSame
<1> QED
  BY <1>6, <1>7, <1>8, <1>9, <1>10, <1>11, <1>12 DEF NodeInv

\* A context without a dispatcher keeps the message in place of the last one.
LEMMA StoreStep ==
    ASSUME Nde!NodeConstants, NodeInv, Nde!Store
    PROVE  NodeInv'
<1>1. PICK c \in Nde!Contexts : c = Nde!ContextOf(acc.msg)
  BY NodeHome
<1>2. PICK e : e = acc.msg
  OBVIOUS
<1>3. PICK h : h = context[c].head
  OBVIOUS
<1>4. /\ acc.pc = "put" /\ ~context[c].disp
      /\ context' = [context EXCEPT ![c].head = e]
      /\ freed' = Nde!Freeing({h})
      /\ acc' = [pc |-> "get", msg |-> NoOne]
      /\ UNCHANGED <<received, work, removal, ctl, hist>>
  BY <1>1, <1>2, <1>3 DEF Nde!Store, Nde!NextMessage
<1>5. e \in Nde!Msgs /\ e \in DOMAIN received /\ freed[e] = 0 /\ e # NoOne
  BY <1>2, <1>4, Placed
<1>6. /\ context' \in [Nde!Contexts -> ContextRecord]
      /\ \A d \in Nde!Contexts :
             /\ context'[d].disp = context[d].disp
             /\ context'[d].handlers = context[d].handlers
             /\ context'[d].queue = context[d].queue
             /\ context'[d].head = IF d = c THEN e ELSE context[d].head
  BY <1>4, <1>5, HeadSet DEF NodeInv, NodeTypes
<1>7. /\ freed' \in [Nde!Msgs -> Nat]
      /\ \A m \in Nde!Msgs : freed'[m] = IF m = h THEN freed[m] + 1 ELSE freed[m]
  BY <1>4, FreeingIs DEF NodeInv
<1>8. \A m : Nde!ContextOf(m)' = Nde!ContextOf(m)
  BY <1>4, KindsKept
<1>9. NodeTypes'
  BY <1>4, <1>6, <1>7 DEF NodeInv, NodeTypes, AccRecord
<1>10. IsAt(e, <<"acc", 0>>)
  <2>1. PICK p : IsAt(e, p)
    BY <1>5 DEF NodeInv, OnePlace
  <2> QED
    BY <1>2, <1>4, <2>1 DEF IsAt
<1>11. e # h
  BY <1>3, <1>10 DEF IsAt
<1>12. OnePlace'
  <2>1. IsAt(e, <<"head", c>>)'
    BY <1>4, <1>6, <1>10 DEF IsAt
  <2>2. \A m \in Nde!Msgs \ {e, h} : \A p : IsAt(m, p) => IsAt(m, p)'
    BY <1>2, <1>3, <1>4, <1>5, <1>6 DEF IsAt
  <2>3. ASSUME h \in Nde!Msgs
        PROVE  IsAt(h, Gone)' /\ h \in DOMAIN received /\ freed[h] = 0
    <3>1. PICK p : IsAt(h, p)
      BY <2>3 DEF NodeInv, OnePlace
    <3>2. IsAt(h, <<"head", c>>)
      BY <1>3, <3>1 DEF IsAt
    <3>3. IsAt(h, Gone)'
      BY <1>2, <1>3, <1>4, <1>6, <1>11, <3>2 DEF IsAt, Gone
    <3> QED
      BY <1>3, <2>3, <3>3, Placed
  <2>4. Gone \in SomePlaces /\ <<"head", c>> \in SomePlaces /\ <<"head", c>> # Gone
    BY DEF SomePlaces, Gone
  <2>5. SUFFICES ASSUME NEW m \in Nde!Msgs
                 PROVE  \E p \in SomePlaces :
                            /\ IsAt(m, p)'
                            /\ m \notin DOMAIN received => p = Gone
                            /\ freed'[m] = IF m \in DOMAIN received /\ p = Gone THEN 1 ELSE 0
    BY <1>4 DEF OnePlace
  <2>6. CASE m = e
    BY <1>5, <1>7, <1>11, <2>1, <2>4, <2>6
  <2>7. CASE m = h
    BY <1>7, <2>3, <2>4, <2>7
  <2>8. CASE m # e /\ m # h
    <3>1. PICK p \in SomePlaces :
              /\ IsAt(m, p)
              /\ m \notin DOMAIN received => p = Gone
              /\ freed[m] = IF m \in DOMAIN received /\ p = Gone THEN 1 ELSE 0
      BY DEF NodeInv, OnePlace
    <3>2. IsAt(m, p)' /\ freed'[m] = freed[m]
      BY <1>7, <2>2, <2>8, <3>1
    <3> QED
      BY <3>1, <3>2
  <2> QED
    BY <2>6, <2>7, <2>8
<1>13. InContext'
  BY <1>1, <1>2, <1>6, <1>8 DEF NodeInv, InContext
<1>14. AtWork'
  BY <1>4, <1>6, <1>8 DEF NodeInv, AtWork
<1>15. Removals'
  BY <1>4, <1>6, <1>8 DEF NodeInv, Removals
<1>16. Control'
  <2>1. ctl.life = "up" => c = Reply
    BY <1>1, <1>4 DEF NodeInv, Control, Nde!Contexts
  <2>2. ctl.life = "up" => h \notin DOMAIN received \/ Nde!ContextOf(h) = Reply
    BY <1>3, <2>1, Placed DEF NodeInv, InContext
  <2>3. \A m \in Nde!Msgs : freed'[m] = 0 => freed[m] = 0
    BY <1>7, Placed
  <2>4. ctl.life = "up" => \A m \in DOMAIN received :
           Nde!ContextOf(m) = 0 => freed'[m] = freed[m]
    BY <1>7, <2>2, NodeHome, Placed
  <2>5. context'[0].disp = context[0].disp /\ context'[0].handlers = context[0].handlers
        /\ (ctl.life = "up" => context'[0].head = context[0].head)
    BY <1>6, <2>1, NodeHome
  <2>6. Nde!Flushing' <=> Nde!Flushing
    BY <1>4 DEF Nde!Flushing
  <2> QED
    BY <1>4, <1>8, <2>3, <2>4, <2>5, <2>6 DEF NodeInv, Control
<1>17. ExitKept'
  BY <1>4, ExitSame, SameShutdowns
<1> QED
  BY <1>9, <1>12, <1>13, <1>14, <1>15, <1>16, <1>17 DEF NodeInv

\* A step that leaves the messages alone leaves them where they are.
LEMMA PlacesSame ==
    ASSUME Nde!NodeConstants, NodeInv,
           received' = received, freed' = freed, hist'.lost = hist.lost,
           \A c \in Nde!Contexts :
               /\ context'[c].head = context[c].head
               /\ \A m \in Nde!Msgs :
                      (\E i \in DOMAIN context'[c].queue : context'[c].queue[i] = m)
                          <=> (\E i \in DOMAIN context[c].queue : context[c].queue[i] = m),
           \A v \in Nde!ThreadNames : work'[v].msg = work[v].msg,
           acc'.pc = "put" <=> acc.pc = "put",
           acc.pc = "put" => acc'.msg = acc.msg
    PROVE  OnePlace'
<1>1. \A m \in Nde!Msgs : \A p : IsAt(m, p) => IsAt(m, p)'
  BY DEF IsAt
<1> QED
  BY <1>1 DEF NodeInv, OnePlace

\* A step that deletes no control event, and neither takes an address nor stops one
\* from being put back, leaves the node as it was.
LEMMA ControlSame ==
    ASSUME Nde!NodeConstants, NodeInv,
           received' = received,
           hist'.acted = hist.acted, hist'.failed = hist.failed,
           context'[0].disp = context[0].disp,
           context'[0].handlers = context[0].handlers,
           \A m \in Nde!Msgs : freed'[m] = 0 => freed[m] = 0,
           ctl'.life = "up" =>
               /\ ctl.life = "up" /\ context'[0].head = context[0].head
               /\ ctl.entry \/ Nde!Flushing => ctl'.entry \/ Nde!Flushing'
               /\ \A m \in hist'.lost : m \in hist.lost \/ Nde!ContextOf(m) = Reply
               /\ \A m \in DOMAIN received : Nde!ContextOf(m) = 0 => freed'[m] = freed[m]
    PROVE  Control'
<1>1. \A m : Nde!ContextOf(m)' = Nde!ContextOf(m)
  BY KindsKept
<1>2. \A m \in Nde!Msgs : freed'[m] = 0 => hist'.acted[m] = 0 /\ m \notin hist'.failed
  BY DEF NodeInv, Control
<1>3. ASSUME ctl'.life = "up"
      PROVE  /\ context'[0].disp /\ context'[0].head = NoOne
             /\ ctl'.entry \/ Nde!Flushing'
             /\ \A m \in hist'.lost : Nde!ContextOf(m)' = Reply
             /\ \A m \in DOMAIN received' : Nde!ContextOf(m)' = 0 /\ freed'[m] = 1 =>
                    hist'.acted[m] = IF m \in hist'.failed THEN 0 ELSE 1
  BY <1>1, <1>3 DEF NodeInv, Control
<1>4. context'[0].disp => context'[0].handlers = {"Control"}
  BY DEF NodeInv, Control
<1> QED
  BY <1>2, <1>3, <1>4 DEF Control

\* Nor does a step that deletes a message that the node cannot hold.
LEMMA ControlFailed ==
    ASSUME Nde!NodeConstants, NodeInv, NEW e \in Nde!Msgs, freed[e] = 0,
           received' = received, ctl' = ctl, Nde!Flushing' <=> Nde!Flushing,
           hist'.lost = hist.lost, hist'.acted = hist.acted,
           hist'.failed = hist.failed \cup {e},
           context'[0].disp = context[0].disp,
           context'[0].handlers = context[0].handlers,
           context'[0].head = context[0].head,
           \A m \in Nde!Msgs : freed'[m] = IF m = e THEN freed[m] + 1 ELSE freed[m]
    PROVE  Control'
<1>1. \A m : Nde!ContextOf(m)' = Nde!ContextOf(m)
  BY KindsKept
<1>2. hist.acted[e] = 0
  BY DEF NodeInv, Control
<1>3. \A m \in Nde!Msgs : freed'[m] = 0 => m # e /\ freed[m] = 0
  OBVIOUS
<1>4. \A m \in DOMAIN received : m # e => freed'[m] = freed[m]
  BY Placed
<1>5. \A m \in DOMAIN received :
         (freed[m] = 1 => hist.acted[m] = IF m \in hist.failed THEN 0 ELSE 1) =>
         (freed'[m] = 1 => hist'.acted[m] = IF m \in hist'.failed THEN 0 ELSE 1)
  BY <1>2, <1>4
<1>6. ctl.life = "up" =>
         \A m \in DOMAIN received' : Nde!ContextOf(m)' = 0 /\ freed'[m] = 1 =>
             hist'.acted[m] = IF m \in hist'.failed THEN 0 ELSE 1
  BY <1>1, <1>5 DEF NodeInv, Control
<1>7. \A m \in Nde!Msgs : freed'[m] = 0 => hist'.acted[m] = 0 /\ m \notin hist'.failed
  BY <1>3 DEF NodeInv, Control
<1> QED
  BY <1>1, <1>6, <1>7 DEF NodeInv, Control

\* The accumulator thread hands its message to the dispatcher.
LEMMA SubmitStep ==
    ASSUME Nde!NodeConstants, NodeInv, Nde!Submit
    PROVE  NodeInv'
<1>1. PICK c \in Nde!Contexts : c = Nde!ContextOf(acc.msg)
  BY NodeHome
<1>2. PICK e : e = acc.msg
  OBVIOUS
<1>3. PICK q : q = context[c].queue
  OBVIOUS
<1>4. /\ acc.pc = "put" /\ context[c].disp
      /\ UNCHANGED <<received, work, removal, ctl>>
      /\ IF Len(q) < NodeDepth
         THEN /\ context' = [context EXCEPT ![c].queue = Append(q, e)]
              /\ UNCHANGED <<freed, hist>>
         ELSE /\ freed' = Nde!Freeing({e})
              /\ hist' = [hist EXCEPT !.failed = @ \cup {e}]
              /\ UNCHANGED context
  BY <1>1, <1>2, <1>3 DEF Nde!Submit
<1>5. e \in Nde!Msgs /\ e \in DOMAIN received /\ freed[e] = 0 /\ e # NoOne /\ e # StopEvent
  BY <1>2, <1>4, Placed
<1>6. /\ acc' \in AccRecord /\ acc'.pc \in {"get", "remove"}
      /\ acc'.pc = "remove" => acc'.msg = e /\ c = Reply
  <2>1. acc' = IF c = 0 THEN [pc |-> "get", msg |-> NoOne] ELSE [acc EXCEPT !.pc = "remove"]
    BY <1>1 DEF Nde!Submit, Nde!Persistent, Nde!NextMessage
  <2>2. PICK a : a = [acc EXCEPT !.pc = "remove"]
    OBVIOUS
  <2>3. a \in AccRecord /\ a.pc = "remove" /\ a.msg = e
    BY <1>2, <2>2 DEF NodeInv, NodeTypes, AccRecord
  <2>4. PICK g : g = [pc |-> "get", msg |-> NoOne]
    OBVIOUS
  <2>5. g \in AccRecord /\ g.pc = "get"
    BY <2>4 DEF AccRecord
  <2>6. acc' = IF c = 0 THEN g ELSE a
    BY <2>1, <2>2, <2>4
  <2> QED
    BY <2>3, <2>5, <2>6 DEF Nde!Contexts
<1>7. removal.pc = "idle"
  BY <1>4 DEF NodeInv, Removals
<1>8. \A m : Nde!ContextOf(m)' = Nde!ContextOf(m)
  BY <1>4, KindsKept
<1>9. IsAt(e, <<"acc", 0>>)
  <2>1. PICK p : IsAt(e, p)
    BY <1>5 DEF NodeInv, OnePlace
  <2> QED
    BY <1>2, <1>4, <2>1 DEF IsAt
<1>10. ASSUME \A d \in Nde!Contexts : context'[d].disp = context[d].disp
       PROVE  Removals' /\ AtWork'
  <2>1. acc'.pc = "remove" => Nde!ContextOf(acc.msg)' = Reply /\ context'[Reply].disp
    BY <1>1, <1>2, <1>4, <1>6, <1>10 DEF Nde!ContextOf
  <2>2. acc'.pc \in {"put", "remove"} => acc'.msg \in DOMAIN received'
    BY <1>4, <1>5, <1>6
  <2>3. Removals'
    BY <1>4, <1>6, <1>7, <2>1, <2>2 DEF Removals
  <2>4. AtWork'
    BY <1>4, <1>8, <1>10, NodeHome DEF NodeInv, AtWork
  <2> QED
    BY <2>3, <2>4
<1>11. CASE Len(q) < NodeDepth
  <2>1. q \in Seq(Nde!Msgs \cup {StopEvent})
    BY <1>3 DEF NodeInv, NodeTypes, ContextRecord
  <2>2. PICK t \in Seq(Nde!Msgs \cup {StopEvent}) : t = Append(q, e)
    <3>1. PICK T : T = Nde!Msgs \cup {StopEvent}
      OBVIOUS
    <3>2. Append(q, e) \in Seq(T)
      BY <1>5, <2>1, <3>1
    <3> QED
      BY <3>1, <3>2
  <2>3. /\ Len(t) = Len(q) + 1 /\ DOMAIN q = 1 .. Len(q) /\ DOMAIN t = 1 .. Len(t)
        /\ Len(q) \in Nat /\ t[Len(t)] = e
        /\ \A i \in DOMAIN q : t[i] = q[i]
    BY <2>1, <2>2
  <2>4. /\ context' \in [Nde!Contexts -> ContextRecord]
        /\ \A d \in Nde!Contexts :
               /\ context'[d].disp = context[d].disp
               /\ context'[d].handlers = context[d].handlers
               /\ context'[d].queue = IF d = c THEN t ELSE context[d].queue
               /\ context'[d].head = context[d].head
    BY <1>4, <1>11, <2>2, QueueSet DEF NodeInv, NodeTypes
  <2>5. freed' = freed /\ hist' = hist
    BY <1>4, <1>11
  <2>6. NodeTypes'
    BY <1>4, <1>6, <2>4, <2>5 DEF NodeInv, NodeTypes
  <2>7. \A m : (\E i \in DOMAIN t : t[i] = m) <=> m = e \/ \E i \in DOMAIN q : q[i] = m
    BY <2>3
  <2>8. OnePlace'
    <3>1. IsAt(e, <<"queue", c>>)'
      BY <1>3, <1>4, <1>6, <1>9, <2>4, <2>5, <2>7 DEF IsAt
    <3>2. \A m \in Nde!Msgs \ {e} : \A p : IsAt(m, p) => IsAt(m, p)'
      <4>1. ASSUME NEW m \in Nde!Msgs \ {e}, NEW d \in Nde!Contexts
            PROVE  (\E i \in DOMAIN context'[d].queue : context'[d].queue[i] = m)
                       <=> (\E i \in DOMAIN context[d].queue : context[d].queue[i] = m)
        <5>1. CASE d = c
          BY <1>3, <2>4, <2>7, <5>1
        <5>2. CASE d # c
          BY <2>4, <5>2
        <5> QED
          BY <5>1, <5>2
      <4> QED
        BY <1>2, <1>4, <1>6, <2>4, <2>5, <4>1 DEF IsAt
    <3>3. <<"queue", c>> \in SomePlaces /\ <<"queue", c>> # Gone
      BY DEF SomePlaces, Gone
    <3> QED
      BY <1>4, <1>5, <2>5, <3>1, <3>2, <3>3 DEF NodeInv, OnePlace
  <2>9. InContext'
    <3>1. \A i \in DOMAIN q : q[i] # e
      BY <1>3, <1>9 DEF IsAt
    <3>2. \A i \in DOMAIN t : t[i] # StopEvent =>
             Nde!ContextOf(t[i]) = c /\ \A j \in DOMAIN t : t[i] = t[j] => i = j
      <4> SUFFICES ASSUME NEW i \in DOMAIN t, t[i] # StopEvent
                   PROVE  /\ Nde!ContextOf(t[i]) = c
                          /\ \A j \in DOMAIN t : t[i] = t[j] => i = j
        OBVIOUS
      <4>1. CASE i = Len(t)
        BY <1>1, <1>2, <2>3, <3>1, <4>1
      <4>2. CASE i \in DOMAIN q
        BY <1>3, <2>3, <3>1, <4>2 DEF NodeInv, InContext
      <4> QED
        BY <2>3, <4>1, <4>2
    <3>3. \A i \in DOMAIN t : t[i] # StopEvent =>
             Nde!ContextOf(t[i])' = c /\ \A j \in DOMAIN t : t[i] = t[j] => i = j
      BY <1>8, <3>2
    <3> QED
      BY <1>8, <2>4, <3>3 DEF NodeInv, InContext
  <2>10. Removals' /\ AtWork'
    BY <1>10, <2>4
  <2>11. Control'
    BY <1>4, <2>4, <2>5, NodeHome, ControlSame DEF Nde!Flushing
  <2>12. ExitKept'
    BY <1>4, <2>5, ExitSame, SameShutdowns
  <2> QED
    BY <2>6, <2>8, <2>9, <2>10, <2>11, <2>12 DEF NodeInv
<1>12. CASE ~(Len(q) < NodeDepth)
  <2>1. context' = context /\ freed' = Nde!Freeing({e})
    BY <1>4, <1>12
  <2>2. /\ freed' \in [Nde!Msgs -> Nat]
        /\ \A m \in Nde!Msgs : freed'[m] = IF m = e THEN freed[m] + 1 ELSE freed[m]
    BY <2>1, FreeingIs DEF NodeInv
  <2>3. /\ hist' \in HistRecord
        /\ hist'.lost = hist.lost /\ hist'.acted = hist.acted
        /\ hist'.failed = hist.failed \cup {e}
    BY <1>4, <1>5, <1>12 DEF NodeInv, NodeTypes, HistRecord
  <2>4. NodeTypes'
    BY <1>4, <1>6, <2>1, <2>2, <2>3 DEF NodeInv, NodeTypes
  <2>5. OnePlace'
    <3>1. IsAt(e, Gone)'
      BY <1>4, <1>6, <1>9, <2>1, <2>3 DEF IsAt, Gone
    <3>2. \A m \in Nde!Msgs \ {e} : \A p : IsAt(m, p) => IsAt(m, p)'
      BY <1>2, <1>4, <1>6, <2>1, <2>3 DEF IsAt
    <3>3. Gone \in SomePlaces
      BY DEF SomePlaces
    <3> QED
      BY <1>4, <1>5, <2>2, <3>1, <3>2, <3>3 DEF NodeInv, OnePlace
  <2>6. InContext'
    BY <1>8, <2>1 DEF NodeInv, InContext
  <2>7. Removals' /\ AtWork'
    BY <1>10, <2>1
  <2>8. Control'
    <3>1. Nde!Flushing' <=> Nde!Flushing
      BY <1>4 DEF Nde!Flushing
    <3> QED
      BY <1>4, <1>5, <2>1, <2>2, <2>3, <3>1, ControlFailed
  <2>9. ExitKept'
    BY <1>4, <2>3, ExitSame, SameShutdowns
  <2> QED
    BY <2>4, <2>5, <2>6, <2>7, <2>8, <2>9 DEF NodeInv
<1> QED
  BY <1>11, <1>12

\* The head of a context is deleted; another message stays where it is.
LEMMA HeadDeleted ==
    ASSUME Nde!NodeConstants, NodeInv, NEW c \in Nde!Contexts,
           NEW h, h = context[c].head,
           received' = received, work' = work, hist' = hist,
           acc'.pc # "put", acc.pc # "put",
           \A d \in Nde!Contexts :
               /\ context'[d].queue = context[d].queue
               /\ context'[d].head = IF d = c THEN NoOne ELSE context[d].head,
           \A m \in Nde!Msgs : freed'[m] = IF m \in {h} THEN freed[m] + 1 ELSE freed[m]
    PROVE  /\ OnePlace' /\ InContext'
           /\ \A m \in Nde!Msgs : freed'[m] = 0 => freed[m] = 0
           /\ \A m \in Nde!Msgs : Nde!ContextOf(m) # c => freed'[m] = freed[m]
<1>1. \A m \in Nde!Msgs : freed'[m] = IF m = h THEN freed[m] + 1 ELSE freed[m]
  OBVIOUS
<1>2. \A m : Nde!ContextOf(m)' = Nde!ContextOf(m)
  BY KindsKept
<1>3. OnePlace'
  <2>1. \A m \in Nde!Msgs \ {h} : \A p : IsAt(m, p) => IsAt(m, p)'
    BY Placed DEF IsAt
  <2>2. ASSUME h \in Nde!Msgs
        PROVE  IsAt(h, Gone)' /\ h \in DOMAIN received /\ freed[h] = 0
    <3>1. PICK p : IsAt(h, p)
      BY <2>2 DEF NodeInv, OnePlace
    <3>2. IsAt(h, <<"head", c>>)
      BY <3>1 DEF IsAt
    <3>3. IsAt(h, Gone)'
      BY <2>2, <3>2, Placed DEF IsAt, Gone
    <3> QED
      BY <2>2, <3>3, Placed
  <2>3. Gone \in SomePlaces
    BY DEF SomePlaces
  <2> QED
    BY <1>1, <2>1, <2>2, <2>3 DEF NodeInv, OnePlace
<1>4. InContext'
  BY <1>2 DEF NodeInv, InContext
<1>5. \A m \in Nde!Msgs : freed'[m] = 0 => freed[m] = 0
  BY <1>1, Placed
<1>6. \A m \in Nde!Msgs : Nde!ContextOf(m) # c => freed'[m] = freed[m]
  BY <1>1, Placed DEF NodeInv, InContext
<1> QED
  BY <1>3, <1>4, <1>5, <1>6

\* The removal of a context begins.
LEMMA RemovingIs ==
    ASSUME Nde!NodeConstants, NEW c \in Nde!Contexts, removal' = Nde!Removing(c)
    PROVE  /\ removal' \in RemovalRecord
           /\ removal'.of = c /\ removal'.pc = "signal" /\ removal'.left = Threads[c]
<1>1. IsFiniteSet(Threads[c])
  BY DEF Nde!NodeConstants, Nde!IsFiniteSet, IsFiniteSet
<1>2. Nde!Cardinality(Threads[c]) = Cardinality(Threads[c])
  BY DEF Nde!Cardinality, Cardinality
<1>3. Nde!Cardinality(Threads[c]) \in Int
  BY <1>1, <1>2, FS_CardinalityType
<1>4. Threads[c] \subseteq Nde!ThreadNames
  BY NodeHome
<1> QED
  BY <1>3, <1>4 DEF Nde!Removing, RemovalRecord

\* Once a reply is submitted, or refused, its context begins to be removed.
LEMMA RemoveContextStep ==
    ASSUME Nde!NodeConstants, NodeInv, Nde!RemoveContext
    PROVE  NodeInv'
<1>1. /\ acc.pc = "remove" /\ Nde!ContextOf(acc.msg) = Reply
      /\ context[Reply].disp /\ removal.pc = "idle"
  BY DEF Nde!RemoveContext, NodeInv, Removals
<1>2. /\ removal' = Nde!Removing(Reply)
      /\ freed' = Nde!Freeing({context[Reply].head})
      /\ context' = [context EXCEPT ![Reply].head = NoOne]
      /\ acc' = [pc |-> "removing", msg |-> NoOne]
      /\ UNCHANGED <<received, work, ctl, hist>>
  BY <1>1 DEF Nde!RemoveContext
<1>3. acc' \in AccRecord /\ acc'.pc = "removing"
  BY <1>2 DEF AccRecord
<1>4. Reply \in Nde!Contexts /\ Reply # 0 /\ 0 \in Nde!Contexts
  BY NodeHome
<1>5. /\ context' \in [Nde!Contexts -> ContextRecord]
      /\ \A d \in Nde!Contexts :
             /\ context'[d].disp = context[d].disp
             /\ context'[d].handlers = context[d].handlers
             /\ context'[d].queue = context[d].queue
             /\ context'[d].head = IF d = Reply THEN NoOne ELSE context[d].head
  BY <1>2, <1>4, HeadSet DEF NodeInv, NodeTypes
<1>6. PICK h : h = context[Reply].head
  OBVIOUS
<1>7. /\ freed' \in [Nde!Msgs -> Nat]
       /\ \A m \in Nde!Msgs : freed'[m] = IF m \in {h} THEN freed[m] + 1 ELSE freed[m]
  BY <1>2, <1>6, FreeingIs DEF NodeInv
<1>8. /\ OnePlace' /\ InContext'
      /\ \A m \in Nde!Msgs : freed'[m] = 0 => freed[m] = 0
      /\ \A m \in Nde!Msgs : Nde!ContextOf(m) # Reply => freed'[m] = freed[m]
  <2>1. /\ received' = received /\ work' = work /\ hist' = hist
        /\ acc'.pc # "put" /\ acc.pc # "put"
    BY <1>1, <1>2, <1>3
  <2>2. \A d \in Nde!Contexts :
            /\ context'[d].queue = context[d].queue
            /\ context'[d].head = IF d = Reply THEN NoOne ELSE context[d].head
    BY <1>5
  <2> QED
    BY <1>4, <1>6, <1>7, <2>1, <2>2, HeadDeleted
<1>9. /\ removal' \in RemovalRecord
      /\ removal'.of = Reply /\ removal'.pc = "signal" /\ removal'.left = Threads[Reply]
  BY <1>2, <1>4, RemovingIs
<1>10. NodeTypes'
  BY <1>2, <1>3, <1>5, <1>9, <1>7 DEF NodeInv, NodeTypes
<1>11. AtWork'
  BY <1>2, <1>5, KindsKept, NodeHome DEF NodeInv, AtWork
<1>12. Removals'
  BY <1>1, <1>3, <1>4, <1>5, <1>9 DEF Removals
<1>13. Control'
  BY <1>2, <1>4, <1>5, <1>8, Placed, ControlSame DEF Nde!Flushing
<1>14. ExitKept'
  BY <1>2, ExitSame, SameShutdowns
<1> QED
  BY <1>8, <1>10, <1>11, <1>12, <1>13, <1>14 DEF NodeInv

\* Events that are no messages may be appended to a queue.
LEMMA ShutdownStep ==
    ASSUME Nde!NodeConstants, NodeInv, Nde!Shutdown
    PROVE  NodeInv'
<1>1. PICK c \in Nde!Contexts : c = removal.of
  BY DEF NodeInv, Removals, Nde!Shutdown
<1>2. PICK q \in Seq(Nde!Msgs \cup {StopEvent}) : q = context[c].queue
  BY DEF NodeInv, NodeTypes, ContextRecord
<1>3. /\ removal.pc = "signal"
      /\ UNCHANGED <<received, work, acc, ctl, freed, hist>>
  BY DEF Nde!Shutdown
<1>4. /\ removal' \in RemovalRecord
      /\ removal'.of = c /\ removal'.left = removal.left
      /\ removal'.pc \in {"signal", "delete"}
  BY <1>1 DEF Nde!Shutdown, NodeInv, NodeTypes, RemovalRecord
<1>5. context' = context \/ context' = [context EXCEPT ![c].queue = Append(q, StopEvent)]
  BY <1>1, <1>2 DEF Nde!Shutdown
<1>6. PICK t \in Seq(Nde!Msgs \cup {StopEvent}) : t = Append(q, StopEvent)
  <2>1. PICK T : T = Nde!Msgs \cup {StopEvent}
    OBVIOUS
  <2>2. Append(q, StopEvent) \in Seq(T)
    BY <1>2, <2>1
  <2> QED
    BY <2>1, <2>2
<1>7. /\ Len(t) = Len(q) + 1 /\ DOMAIN q = 1 .. Len(q) /\ DOMAIN t = 1 .. Len(t)
      /\ Len(q) \in Nat /\ t[Len(t)] = StopEvent
      /\ \A i \in DOMAIN q : t[i] = q[i]
  BY <1>2, <1>6
<1>8. PICK r \in Seq(Nde!Msgs \cup {StopEvent}) :
         /\ r \in {q, t}
         /\ context' \in [Nde!Contexts -> ContextRecord]
         /\ \A d \in Nde!Contexts :
                /\ context'[d].disp = context[d].disp
                /\ context'[d].handlers = context[d].handlers
                /\ context'[d].queue = IF d = c THEN r ELSE context[d].queue
                /\ context'[d].head = context[d].head
  <2>1. CASE context' = context
    <3>1. context' \in [Nde!Contexts -> ContextRecord] /\ q \in {q, t}
      BY <2>1 DEF NodeInv, NodeTypes
    <3> QED
      BY <1>2, <2>1, <3>1
  <2>2. CASE context' = [context EXCEPT ![c].queue = Append(q, StopEvent)]
    <3>1. context' = [context EXCEPT ![c].queue = t] /\ t \in {q, t}
      BY <1>6, <2>2
    <3>2. context \in [Nde!Contexts -> ContextRecord]
      BY DEF NodeInv, NodeTypes
    <3>3. /\ context' \in [Nde!Contexts -> ContextRecord]
          /\ \A d \in Nde!Contexts :
                 /\ context'[d].disp = context[d].disp
                 /\ context'[d].handlers = context[d].handlers
                 /\ context'[d].queue = IF d = c THEN t ELSE context[d].queue
                 /\ context'[d].head = context[d].head
      BY <3>1, <3>2, QueueSet
    <3> QED
      BY <3>1, <3>3
  <2> QED
    BY <1>5, <2>1, <2>2
<1>9. \A m \in Nde!Msgs : (\E i \in DOMAIN r : r[i] = m) <=> (\E i \in DOMAIN q : q[i] = m)
  BY <1>7, <1>8, Placed
<1>10. NodeTypes'
  BY <1>3, <1>4, <1>8 DEF NodeInv, NodeTypes
<1>11. OnePlace'
  <2>1. ASSUME NEW d \in Nde!Contexts, NEW m \in Nde!Msgs
        PROVE  (\E i \in DOMAIN context'[d].queue : context'[d].queue[i] = m)
                   <=> (\E i \in DOMAIN context[d].queue : context[d].queue[i] = m)
    <3>1. CASE d = c
      BY <1>2, <1>8, <1>9, <3>1
    <3>2. CASE d # c
      BY <1>8, <3>2
    <3> QED
      BY <3>1, <3>2
  <2> QED
    BY <1>3, <1>8, <2>1, PlacesSame
<1>12. InContext'
  <2>1. \A i \in DOMAIN r : r[i] # StopEvent =>
           Nde!ContextOf(r[i]) = c /\ \A j \in DOMAIN r : r[i] = r[j] => i = j
    <3>1. CASE r = q
      BY <1>2, <3>1 DEF NodeInv, InContext
    <3>2. CASE r = t
      BY <1>2, <1>7, <3>2 DEF NodeInv, InContext
    <3> QED
      BY <1>8, <3>1, <3>2
  <2>2. \A m : Nde!ContextOf(m)' = Nde!ContextOf(m)
    BY <1>3, KindsKept
  <2>3. \A i \in DOMAIN r : r[i] # StopEvent =>
           Nde!ContextOf(r[i])' = c /\ \A j \in DOMAIN r : r[i] = r[j] => i = j
    BY <2>1, <2>2
  <2> QED
    BY <1>8, <2>2, <2>3 DEF NodeInv, InContext
<1>13. AtWork'
  BY <1>3, <1>8, KindsKept, NodeHome DEF NodeInv, AtWork
<1>14. Removals'
  <2>1. \A v \in Threads[c] : v # "signal" /\ v # "delete"
    BY NodeHome DEF Nde!NodeConstants
  <2>2. \A v \in Threads[c] : v \notin removal.left => work[v].pc = "none"
    BY <1>1, <1>3, <2>1 DEF NodeInv, Removals
  <2>3. acc.pc # "remove"
    BY <1>3 DEF NodeInv, Removals
  <2> QED
    BY <1>1, <1>3, <1>4, <1>8, <2>2, <2>3 DEF NodeInv, Removals
<1>15. Control'
  BY <1>3, <1>8, NodeHome, ControlSame DEF Nde!Flushing
<1>16. ExitKept'
  BY <1>3, ExitSame, SameShutdowns
<1> QED
  BY <1>10, <1>11, <1>12, <1>13, <1>14, <1>15, <1>16 DEF NodeInv

-----------------------------------------------------------------------------
(* The threads of a context end.                                           *)

\* A thread that is left to delete is asked to exit.
LEMMA ExitReqStep ==
    ASSUME Nde!NodeConstants, NodeInv, NEW v \in Nde!ThreadNames, Nde!ExitReq(v)
    PROVE  NodeInv'
<1>1. /\ removal.pc = "delete" /\ v \in removal.left
      /\ UNCHANGED <<received, context, acc, ctl, freed, hist>>
  BY DEF Nde!ExitReq
<1>2. /\ removal' \in RemovalRecord
      /\ removal'.of = removal.of /\ removal'.pc = v /\ removal'.left = removal.left \ {v}
  BY DEF Nde!ExitReq, NodeInv, NodeTypes, RemovalRecord
<1>3. PICK t : t = [pc |-> work[v].pc, msg |-> work[v].msg, exit |-> TRUE]
  OBVIOUS
<1>4. t.pc = work[v].pc /\ t.msg = work[v].msg
  BY <1>3
<1>5. Goes(v, t)
  <2>1. work[v] \in ThreadRecord /\ work \in [Nde!ThreadNames -> ThreadRecord]
    BY DEF NodeInv, NodeTypes
  <2>2. /\ work[v].pc \in {"none", "get", "copy", "run", "post", "given", "refused",
                           "flushed", "exited"}
        /\ work[v].msg \in Nde!Msgs \cup {NoOne}
    BY <2>1 DEF ThreadRecord
  <2>3. work' = [work EXCEPT ![v].exit = TRUE]
    BY DEF Nde!ExitReq
  <2> QED
    BY <1>3, <2>1, <2>2, <2>3, ThreadFields
<1>6. \A u \in Nde!ThreadNames : work'[u].pc = work[u].pc /\ work'[u].msg = work[u].msg
  BY <1>4, <1>5 DEF Goes
<1>7. NodeTypes'
  BY <1>1, <1>2, <1>5 DEF NodeInv, NodeTypes, Goes
<1>8. OnePlace'
  BY <1>1, <1>6, PlacesSame
<1>9. InContext'
  BY <1>1, KindsKept DEF NodeInv, InContext
<1>10. AtWork'
  BY <1>1, <1>6, KindsKept, NodeHome DEF NodeInv, AtWork
<1>11. Removals'
  <2>1. \A u \in Threads[removal.of] : u \in Nde!ThreadNames /\ u # "delete" /\ u # "idle"
    BY <1>1, NodeHome DEF Nde!NodeConstants, NodeInv, Removals
  <2>2. acc.pc # "remove"
    BY <1>1 DEF NodeInv, Removals
  <2> QED
    BY <1>1, <1>2, <1>6, <2>1, <2>2 DEF NodeInv, Removals
<1>12. Control'
  BY <1>1, <1>6, ControlSame DEF Nde!Flushing
<1>13. ExitKept'
  BY <1>1, <1>6, ExitSame, SameShutdowns
<1> QED
  BY <1>7, <1>8, <1>9, <1>10, <1>11, <1>12, <1>13 DEF NodeInv

\* A thread that has exited is deleted; it has no message.
LEMMA JoinedStep ==
    ASSUME Nde!NodeConstants, NodeInv, NEW v \in Nde!ThreadNames, Nde!Joined(v)
    PROVE  NodeInv'
<1>1. /\ removal.pc = v /\ work[v].pc = "exited"
      /\ UNCHANGED <<received, context, acc, ctl, freed, hist>>
  BY DEF Nde!Joined
<1>2. /\ removal' \in RemovalRecord
      /\ removal'.of = removal.of /\ removal'.pc = "delete"
      /\ removal'.left = removal.left
  BY DEF Nde!Joined, NodeInv, NodeTypes, RemovalRecord
<1>3. PICK t : t = [pc |-> "none", msg |-> NoOne, exit |-> FALSE]
  OBVIOUS
<1>4. t \in ThreadRecord /\ t.pc = "none" /\ t.msg = NoOne
  BY <1>3 DEF ThreadRecord
<1>5. Goes(v, t)
  <2>1. work \in [Nde!ThreadNames -> ThreadRecord]
    BY DEF NodeInv, NodeTypes
  <2>2. work' = [work EXCEPT ![v] = t]
    BY <1>3 DEF Nde!Joined, Nde!NoThread
  <2> QED
    BY <1>4, <2>1, <2>2, ThreadGoes
<1>6. work[v].msg = NoOne
  BY <1>1 DEF NodeInv, AtWork
<1>7. /\ work'[v].pc = "none"
      /\ \A u \in Nde!ThreadNames : work'[u].msg = work[u].msg
      /\ \A u \in Nde!ThreadNames : u # v => work'[u].pc = work[u].pc
  BY <1>4, <1>5, <1>6 DEF Goes
<1>8. NodeTypes'
  BY <1>1, <1>2, <1>5 DEF NodeInv, NodeTypes, Goes
<1>9. OnePlace'
  BY <1>1, <1>7, PlacesSame
<1>10. InContext'
  BY <1>1, KindsKept DEF NodeInv, InContext
<1>11. AtWork'
  BY <1>1, <1>6, <1>7, KindsKept, NodeHome DEF NodeInv, AtWork
<1>12. Removals'
  <2>1. v # "delete" /\ v # "idle"
    BY DEF Nde!NodeConstants
  <2>2. removal.of \in Nde!Contexts /\ acc.pc # "remove"
    BY <1>1, <2>1 DEF NodeInv, Removals
  <2>3. \A u \in Threads[removal.of] : u \in Nde!ThreadNames
    BY <2>2, NodeHome
  <2> QED
    BY <1>1, <1>2, <1>7, <2>1, <2>2, <2>3 DEF NodeInv, Removals
<1>13. Control'
  <2>1. Nde!Flushing => Nde!Flushing'
    BY <1>1, <1>7 DEF Nde!Flushing
  <2> QED
    BY <1>1, <2>1, ControlSame
<1>14. ExitKept'
  BY <1>1, <1>7, ExitSame, SameShutdowns
<1> QED
  BY <1>8, <1>9, <1>10, <1>11, <1>12, <1>13, <1>14 DEF NodeInv

\* The context is gone, and with it the messages in its queue.
LEMMA RemovedStep ==
    ASSUME Nde!NodeConstants, NodeInv, Nde!Removed
    PROVE  NodeInv'
<1>1. PICK c \in Nde!Contexts : c = removal.of
  BY DEF NodeInv, Removals, Nde!Removed
<1>2. /\ removal.pc = "delete" /\ removal.left = {}
      /\ UNCHANGED <<received, work, ctl, freed>>
  BY DEF Nde!Removed
<1>3. PICK q \in Seq(Nde!Msgs \cup {StopEvent}) : q = context[c].queue
  BY DEF NodeInv, NodeTypes, ContextRecord
<1>4. /\ hist' \in HistRecord
      /\ hist'.acted = hist.acted /\ hist'.failed = hist.failed
      /\ \A m : m \in hist'.lost <=>
                    m \in hist.lost \/ (m \in Nde!Msgs /\ \E i \in DOMAIN q : q[i] = m)
  <2>1. PICK new : new = {m \in Nde!Msgs : m \in Nde!ToSet(q)}
    OBVIOUS
  <2>2. hist' = [hist EXCEPT !.lost = @ \cup new]
    BY <1>1, <1>3, <2>1 DEF Nde!Removed
  <2>3. \A m : m \in new <=> m \in Nde!Msgs /\ \E i \in DOMAIN q : q[i] = m
    BY <2>1 DEF Nde!ToSet
  <2>4. /\ hist' \in HistRecord
        /\ hist'.acted = hist.acted /\ hist'.failed = hist.failed
        /\ hist'.lost = hist.lost \cup new
    BY <2>2, <2>3 DEF NodeInv, NodeTypes, HistRecord
  <2> QED
    BY <2>3, <2>4
<1>5. PICK n : n = Nde!NoContext
  OBVIOUS
<1>6. n \in ContextRecord /\ ~n.disp /\ n.queue = <<>> /\ n.head = NoOne
  BY <1>5 DEF Nde!NoContext, ContextRecord
<1>7. /\ context' \in [Nde!Contexts -> ContextRecord]
      /\ \A d \in Nde!Contexts : context'[d] = IF d = c THEN n ELSE context[d]
  BY <1>1, <1>5, <1>6 DEF Nde!Removed, NodeInv, NodeTypes
<1>8. /\ removal' \in RemovalRecord /\ removal'.pc = "idle"
  BY DEF Nde!Removed, Nde!NoRemoval, RemovalRecord
<1>9. /\ acc' \in AccRecord /\ acc'.pc \in {"get", "exited"}
      /\ acc'.pc = "exited" => acc.pc = "exited"
      /\ acc.pc \in {"removing", "exited"}
      /\ acc.pc = "removing" => c = Reply
  <2>1. acc.pc \in {"removing", "exited"} /\ (acc.pc = "removing" => c = Reply)
    BY <1>1, <1>2 DEF NodeInv, Removals
  <2>2. PICK g : g = Nde!NextMessage
    OBVIOUS
  <2>3. g \in AccRecord /\ g.pc = "get"
    BY <2>2 DEF AccRecord, Nde!NextMessage
  <2>4. acc' = IF acc.pc = "removing" THEN g ELSE acc
    BY <2>2 DEF Nde!Removed
  <2> QED
    BY <2>1, <2>3, <2>4 DEF NodeInv, NodeTypes
<1>10. \A m : Nde!ContextOf(m)' = Nde!ContextOf(m)
  BY <1>2, KindsKept
<1>11. context[c].head = NoOne
  BY <1>1, <1>2 DEF NodeInv, Removals
<1>12. NodeTypes'
  BY <1>2, <1>4, <1>7, <1>8, <1>9 DEF NodeInv, NodeTypes
<1>13. OnePlace'
  <2>1. ASSUME NEW m \in Nde!Msgs, NEW i \in DOMAIN q, q[i] = m
        PROVE  IsAt(m, <<"lost", 0>>)' /\ m \in DOMAIN received /\ freed[m] = 0
    <3>1. PICK p : IsAt(m, p)
      BY DEF NodeInv, OnePlace
    <3>2. IsAt(m, <<"queue", c>>)
      BY <1>3, <2>1, <3>1 DEF IsAt
    <3>3. m \in hist'.lost
      BY <1>4, <2>1
    <3>4. \A d \in Nde!Contexts :
             /\ context'[d].head # m
             /\ \A j \in DOMAIN context'[d].queue : context'[d].queue[j] # m
      BY <1>6, <1>7, <3>2, Placed DEF IsAt
    <3>5. IsAt(m, <<"lost", 0>>)'
      BY <1>2, <1>9, <3>2, <3>3, <3>4 DEF IsAt
    <3> QED
      BY <1>3, <2>1, <3>5, Placed
  <2>2. ASSUME NEW m \in Nde!Msgs, NEW p, IsAt(m, p), \A i \in DOMAIN q : q[i] # m
        PROVE  IsAt(m, p)'
    <3>1. m \in hist'.lost <=> m \in hist.lost
      BY <1>4, <2>2
    <3>2. \A d \in Nde!Contexts :
             /\ context'[d].head = m <=> context[d].head = m
             /\ (\E i \in DOMAIN context'[d].queue : context'[d].queue[i] = m)
                    <=> (\E i \in DOMAIN context[d].queue : context[d].queue[i] = m)
      BY <1>3, <1>6, <1>7, <1>11, <2>2, Placed
    <3> QED
      BY <1>2, <1>9, <2>2, <3>1, <3>2 DEF IsAt
  <2>3. <<"lost", 0>> \in SomePlaces /\ <<"lost", 0>> # Gone
    BY DEF SomePlaces, Gone
  <2>4. ASSUME NEW m \in Nde!Msgs
        PROVE  \E p \in SomePlaces :
                   /\ IsAt(m, p)'
                   /\ m \notin DOMAIN received => p = Gone
                   /\ freed[m] = IF m \in DOMAIN received /\ p = Gone THEN 1 ELSE 0
    <3>1. CASE \E i \in DOMAIN q : q[i] = m
      BY <2>1, <2>3, <3>1
    <3>2. CASE \A i \in DOMAIN q : q[i] # m
      BY <2>2, <3>2 DEF NodeInv, OnePlace
    <3> QED
      BY <3>1, <3>2
  <2> QED
    BY <1>2, <2>4 DEF OnePlace
<1>14. InContext'
  BY <1>6, <1>7, <1>10 DEF NodeInv, InContext
<1>15. AtWork'
  <2>1. ASSUME NEW v \in Nde!ThreadNames, work[v].pc # "none"
        PROVE  context'[Nde!Home(v)].disp
    <3>1. v \in Threads[Nde!Home(v)] /\ Nde!Home(v) \in Nde!Contexts
      BY NodeHome
    <3>2. v # "delete"
      BY DEF Nde!NodeConstants
    <3>3. Nde!Home(v) # c
      BY <1>1, <1>2, <2>1, <3>1, <3>2 DEF NodeInv, Removals
    <3> QED
      BY <1>7, <2>1, <3>1, <3>3 DEF NodeInv, AtWork
  <2> QED
    BY <1>2, <1>10, <2>1 DEF NodeInv, AtWork
<1>16. Removals'
  BY <1>2, <1>8, <1>9 DEF NodeInv, Removals
<1>17. Control'
  <2>1. ctl.life = "up" => c = Reply
    BY <1>9 DEF NodeInv, Removals
  <2>2. \A m \in hist'.lost : m \in hist.lost \/ Nde!ContextOf(m) = c
    BY <1>3, <1>4, Placed DEF NodeInv, InContext
  <2>3. CASE c = 0
    <3>1. ctl'.life # "up" /\ ~context'[0].disp
      BY <1>2, <1>6, <1>7, <2>1, <2>3, NodeHome
    <3> QED
      BY <1>2, <1>4, <3>1 DEF NodeInv, Control
  <2>4. CASE c # 0
    <3>1. context'[0] = context[0]
      BY <1>7, <2>4, NodeHome
    <3>2. Nde!Flushing' <=> Nde!Flushing
      BY <1>2 DEF Nde!Flushing
    <3> QED
      BY <1>2, <1>4, <2>1, <2>2, <3>1, <3>2, ControlSame
  <2> QED
    BY <2>3, <2>4
<1>18. ExitKept'
  BY <1>2, <1>4, ExitSame, SameShutdowns
<1> QED
  BY <1>12, <1>13, <1>14, <1>15, <1>16, <1>17, <1>18 DEF NodeInv

-----------------------------------------------------------------------------
(* The dispatch threads.                                                   *)

\* What a thread takes from a queue was there once.
LEMMA TailIs ==
    ASSUME NEW T, NEW q \in Seq(T), q # <<>>
    PROVE  /\ Head(q) = q[1] /\ 1 \in DOMAIN q /\ Tail(q) \in Seq(T)
           /\ \A i \in DOMAIN Tail(q) : i + 1 \in DOMAIN q /\ Tail(q)[i] = q[i + 1]
           /\ \A i \in DOMAIN q : i = 1 \/ (i - 1 \in DOMAIN Tail(q) /\ Tail(q)[i - 1] = q[i])
           /\ \A i \in DOMAIN q : i \in Int
           /\ \A i \in DOMAIN Tail(q) : i \in Nat \ {0}
  OBVIOUS

\* A dispatch thread takes an event off its queue: a message that it makes a packet
\* of, or deletes for want of memory, or the stop token.
LEMMA GetStep ==
    ASSUME Nde!NodeConstants, NodeInv, NEW v \in Nde!ThreadNames, Nde!Get(v)
    PROVE  NodeInv'
<1>1. PICK c \in Nde!Contexts : c = Nde!Home(v)
  BY NodeHome
<1>2. PICK q \in Seq(Nde!Msgs \cup {StopEvent}) : q = context[c].queue
  BY DEF NodeInv, NodeTypes, ContextRecord
<1>3. PICK e : e = q[1]
  OBVIOUS
<1>4. PICK t : t = Tail(q)
  OBVIOUS
<1>5. /\ work[v].pc = "get" /\ q # <<>>
      /\ UNCHANGED <<received, acc, removal, ctl>>
      /\ context' = [context EXCEPT ![c].queue = t]
  BY <1>1, <1>2, <1>4 DEF Nde!Get
<1>6. /\ Head(q) = e /\ 1 \in DOMAIN q /\ t \in Seq(Nde!Msgs \cup {StopEvent})
      /\ \A i \in DOMAIN t : i + 1 \in DOMAIN q /\ t[i] = q[i + 1]
      /\ \A i \in DOMAIN q : i = 1 \/ (i - 1 \in DOMAIN t /\ t[i - 1] = q[i])
      /\ \A i \in DOMAIN t : i \in Nat \ {0}
  BY <1>3, <1>4, <1>5, TailIs
<1>7. /\ context' \in [Nde!Contexts -> ContextRecord]
      /\ \A d \in Nde!Contexts :
             /\ context'[d].disp = context[d].disp
             /\ context'[d].handlers = context[d].handlers
             /\ context'[d].queue = IF d = c THEN t ELSE context[d].queue
             /\ context'[d].head = context[d].head
  <2>1. context \in [Nde!Contexts -> ContextRecord]
    BY DEF NodeInv, NodeTypes
  <2> QED
    BY <1>5, <1>6, <2>1, QueueSet
<1>8. received' = received /\ acc' = acc
  BY <1>5
<1>9. \A m : Nde!ContextOf(m)' = Nde!ContextOf(m)
  BY <1>5, KindsKept
<1>10. work[v].msg = NoOne
  BY <1>5 DEF NodeInv, AtWork
<1>11. \A i \in DOMAIN q : q[i] # StopEvent =>
          /\ Nde!ContextOf(q[i]) = c
          /\ \A j \in DOMAIN q : q[i] = q[j] => i = j
  BY <1>2 DEF NodeInv, InContext
<1>12. InContext'
  <2>1. \A i \in DOMAIN t : t[i] # StopEvent =>
           Nde!ContextOf(t[i]) = c /\ \A j \in DOMAIN t : t[i] = t[j] => i = j
    BY <1>6, <1>11
  <2>2. \A i \in DOMAIN t : t[i] # StopEvent =>
           Nde!ContextOf(t[i])' = c /\ \A j \in DOMAIN t : t[i] = t[j] => i = j
    BY <1>9, <2>1
  <2> QED
    BY <1>7, <1>9, <2>2 DEF NodeInv, InContext
<1>13. \A m : m # e => ((\E i \in DOMAIN t : t[i] = m) <=> (\E i \in DOMAIN q : q[i] = m))
  BY <1>3, <1>6
<1>14. \A m : m # e => \A d \in Nde!Contexts :
          (\E i \in DOMAIN context'[d].queue : context'[d].queue[i] = m)
              <=> (\E i \in DOMAIN context[d].queue : context[d].queue[i] = m)
  <2> SUFFICES ASSUME NEW m, m # e, NEW d \in Nde!Contexts
               PROVE  (\E i \in DOMAIN context'[d].queue : context'[d].queue[i] = m)
                          <=> (\E i \in DOMAIN context[d].queue : context[d].queue[i] = m)
    OBVIOUS
  <2>1. CASE d = c
    <3>1. context'[d].queue = t /\ context[d].queue = q
      BY <1>2, <1>7, <2>1
    <3> QED
      BY <1>13, <3>1
  <2>2. CASE d # c
    BY <1>7, <2>2
  <2> QED
    BY <2>1, <2>2
<1>15. ASSUME e # StopEvent
       PROVE  /\ e \in Nde!Msgs /\ e \in DOMAIN received /\ freed[e] = 0 /\ e # NoOne
              /\ Nde!ContextOf(e) = c
              /\ IsAt(e, <<"queue", c>>)
              /\ \A i \in DOMAIN t : t[i] # e
  <2>1. /\ e \in Nde!Msgs /\ e \in DOMAIN received /\ freed[e] = 0 /\ e # NoOne
        /\ Nde!ContextOf(e) = c
    BY <1>2, <1>3, <1>6, <1>11, <1>15, Placed
  <2>2. PICK p : IsAt(e, p)
    BY <2>1 DEF NodeInv, OnePlace
  <2>3. IsAt(e, <<"queue", c>>)
    BY <1>2, <1>3, <1>6, <2>2 DEF IsAt
  <2>4. \A i \in DOMAIN t : t[i] # e
    BY <1>3, <1>6, <1>11, <1>15
  <2> QED
    BY <2>1, <2>3, <2>4
<1>16. /\ work[v] \in ThreadRecord /\ work \in [Nde!ThreadNames -> ThreadRecord]
       /\ work[v].exit \in BOOLEAN
  BY DEF NodeInv, NodeTypes, ThreadRecord
<1>17. \* Whatever the event, the thread goes on.
       ASSUME NEW g \in ThreadRecord, Goes(v, g), g.pc \in {"copy", "exited"},
              g.msg # NoOne => g.pc = "copy" /\ g.msg = e /\ e # StopEvent
       PROVE  /\ AtWork' /\ Removals'
              /\ \A u \in Nde!ThreadNames :
                     /\ work'[u].pc = "given" <=> work[u].pc = "given"
                     /\ work'[u].pc = "refused" <=> work[u].pc = "refused"
                     /\ work'[u].pc = "flushed" <=> work[u].pc = "flushed"
  <2>1. \A u \in Nde!ThreadNames \ {v} :
           work'[u].pc = work[u].pc /\ work'[u].msg = work[u].msg
    BY <1>17 DEF Goes
  <2>2. work'[v].pc \in {"copy", "exited"}
        /\ (work'[v].msg # NoOne => work'[v].pc = "copy" /\ work'[v].msg = e /\ e # StopEvent)
    BY <1>17 DEF Goes
  <2>3. context[c].disp
    BY <1>1, <1>5 DEF NodeInv, AtWork
  <2>4. AtWork'
    BY <1>1, <1>5, <1>7, <1>9, <1>15, <2>1, <2>2, <2>3, NodeHome DEF NodeInv, AtWork
  <2>5. Removals'
    <3>1. removal.pc # "idle" => \A u \in Threads[removal.of] : u \in Nde!ThreadNames
      BY NodeHome DEF NodeInv, Removals
    <3>2. Reply \in Nde!Contexts
      BY NodeHome
    <3> QED
      BY <1>5, <1>7, <1>9, <2>1, <3>1, <3>2 DEF NodeInv, Removals
  <2> QED
    BY <1>5, <2>1, <2>2, <2>4, <2>5
<1>18. CASE e # StopEvent /\ work' = [work EXCEPT ![v].pc = "copy", ![v].msg = e]
            /\ UNCHANGED <<freed, hist>>
  <2>1. PICK g : g = [pc |-> "copy", msg |-> e, exit |-> work[v].exit]
    OBVIOUS
  <2>2. g \in ThreadRecord /\ g.pc = "copy" /\ g.msg = e
    BY <1>15, <1>16, <1>18, <2>1 DEF ThreadRecord
  <2>3. Goes(v, g)
    BY <1>15, <1>16, <1>18, <2>1, ThreadFields
  <2>4. NodeTypes'
    BY <1>5, <1>7, <1>18, <2>3 DEF NodeInv, NodeTypes, Goes
  <2>5. OnePlace'
    <3>1. IsAt(e, <<"thread", v>>)'
      <4>1. \A u \in Nde!ThreadNames : work'[u].msg = e <=> u = v
        BY <1>10, <1>15, <1>18, <2>2, <2>3 DEF Goes, IsAt
      <4>2. \A d \in Nde!Contexts :
               /\ context'[d].head # e
               /\ \A i \in DOMAIN context'[d].queue : context'[d].queue[i] # e
        BY <1>7, <1>15, <1>18 DEF IsAt
      <4>3. ~(acc.pc = "put" /\ acc.msg = e) /\ e \notin hist.lost
        BY <1>15, <1>18 DEF IsAt
      <4> QED
        BY <1>5, <1>18, <4>1, <4>2, <4>3 DEF IsAt
    <3>2. \A m \in Nde!Msgs \ {e} : \A p : IsAt(m, p) => IsAt(m, p)'
      <4>1. \A m \in Nde!Msgs \ {e} : \A u \in Nde!ThreadNames :
               work'[u].msg = m <=> work[u].msg = m
        BY <1>10, <2>2, <2>3, Placed DEF Goes
      <4>2. hist' = hist
        BY <1>18
      <4> QED
        BY <1>7, <1>14, <1>8, <4>1, <4>2 DEF IsAt
    <3>3. <<"thread", v>> \in SomePlaces /\ <<"thread", v>> # Gone
      BY DEF SomePlaces, Gone
    <3> QED
      BY <1>5, <1>15, <1>18, <3>1, <3>2, <3>3 DEF NodeInv, OnePlace
  <2>6. /\ AtWork' /\ Removals'
        /\ \A u \in Nde!ThreadNames :
               /\ work'[u].pc = "given" <=> work[u].pc = "given"
               /\ work'[u].pc = "refused" <=> work[u].pc = "refused"
               /\ work'[u].pc = "flushed" <=> work[u].pc = "flushed"
    BY <1>17, <1>18, <2>2, <2>3
  <2>7. Control'
    <3>1. Nde!Flushing' <=> Nde!Flushing
      BY <2>6 DEF Nde!Flushing
    <3> QED
      BY <1>5, <1>7, <1>18, <3>1, NodeHome, ControlSame
  <2>8. ExitKept'
    BY <1>5, <1>18, <2>6, ExitSame, SameShutdowns
  <2> QED
    BY <1>12, <2>4, <2>5, <2>6, <2>7, <2>8 DEF NodeInv
<1>19. CASE e # StopEvent /\ work' = [work EXCEPT ![v].pc = "copy"] /\ freed' = Nde!Freeing({e})
            /\ hist' = [hist EXCEPT !.failed = @ \cup {e}]
  <2>1. PICK g : g = [pc |-> "copy", msg |-> NoOne, exit |-> work[v].exit]
    OBVIOUS
  <2>2. g \in ThreadRecord /\ g.pc = "copy" /\ g.msg = NoOne
    BY <1>16, <2>1 DEF ThreadRecord
  <2>3. Goes(v, g)
    BY <1>10, <1>16, <1>19, <2>1, ThreadFields
  <2>4. /\ freed' \in [Nde!Msgs -> Nat]
        /\ \A m \in Nde!Msgs : freed'[m] = IF m = e THEN freed[m] + 1 ELSE freed[m]
    <3>1. freed' = Nde!Freeing({e}) /\ NodeTypes
      BY <1>19 DEF NodeInv
    <3> QED
      BY <3>1, FreeingIs
  <2>5. /\ hist' \in HistRecord
        /\ hist'.lost = hist.lost /\ hist'.acted = hist.acted
        /\ hist'.failed = hist.failed \cup {e}
    BY <1>15, <1>19 DEF NodeInv, NodeTypes, HistRecord
  <2>6. NodeTypes'
    BY <1>5, <1>7, <2>3, <2>4, <2>5 DEF NodeInv, NodeTypes, Goes
  <2>7. \A u \in Nde!ThreadNames : work'[u].msg = work[u].msg
    BY <1>10, <2>2, <2>3 DEF Goes
  <2>8. OnePlace'
    <3>1. IsAt(e, Gone)'
      <4>1. \A u \in Nde!ThreadNames : work'[u].msg # e
        BY <1>15, <1>19, <2>7 DEF IsAt
      <4>2. \A d \in Nde!Contexts :
               /\ context'[d].head # e
               /\ \A i \in DOMAIN context'[d].queue : context'[d].queue[i] # e
        BY <1>7, <1>15, <1>19 DEF IsAt
      <4>3. ~(acc.pc = "put" /\ acc.msg = e) /\ e \notin hist.lost
        BY <1>15, <1>19 DEF IsAt
      <4> QED
        BY <1>5, <2>5, <4>1, <4>2, <4>3 DEF IsAt, Gone
    <3>2. \A m \in Nde!Msgs \ {e} : \A p : IsAt(m, p) => IsAt(m, p)'
      BY <1>7, <1>14, <1>8, <2>5, <2>7 DEF IsAt
    <3>3. Gone \in SomePlaces
      BY DEF SomePlaces
    <3> QED
      <4>1. e \in Nde!Msgs /\ e \in DOMAIN received /\ freed[e] = 0
        BY <1>15, <1>19
      <4> QED
        BY <1>8, <2>4, <3>1, <3>2, <3>3, <4>1 DEF NodeInv, OnePlace
  <2>9. /\ AtWork' /\ Removals'
        /\ \A u \in Nde!ThreadNames :
               /\ work'[u].pc = "given" <=> work[u].pc = "given"
               /\ work'[u].pc = "refused" <=> work[u].pc = "refused"
               /\ work'[u].pc = "flushed" <=> work[u].pc = "flushed"
    BY <1>17, <2>2, <2>3
  <2>10. Control'
    <3>1. Nde!Flushing' <=> Nde!Flushing
      BY <2>9 DEF Nde!Flushing
    <3>2. /\ context'[0].disp = context[0].disp
          /\ context'[0].handlers = context[0].handlers
          /\ context'[0].head = context[0].head
      BY <1>7, NodeHome
    <3>3. e \in Nde!Msgs /\ freed[e] = 0
      BY <1>15, <1>19
    <3>4. received' = received /\ ctl' = ctl
      BY <1>5
    <3> QED
      BY <2>4, <2>5, <3>1, <3>2, <3>3, <3>4, ControlFailed
  <2>11. ExitKept'
    BY <1>5, <2>5, <2>9, ExitSame, SameShutdowns
  <2> QED
    BY <1>12, <2>6, <2>8, <2>9, <2>10, <2>11 DEF NodeInv
<1>20. CASE e = StopEvent /\ work' = [work EXCEPT ![v].pc = "exited", ![v].exit = TRUE]
            /\ UNCHANGED <<freed, hist>>
  <2>1. PICK g : g = [pc |-> "exited", msg |-> NoOne, exit |-> TRUE]
    OBVIOUS
  <2>2. g \in ThreadRecord /\ g.pc = "exited" /\ g.msg = NoOne
    BY <2>1 DEF ThreadRecord
  <2>3. Goes(v, g)
    BY <1>10, <1>16, <1>20, <2>1, ThreadFields
  <2>4. NodeTypes'
    BY <1>5, <1>7, <1>20, <2>3 DEF NodeInv, NodeTypes, Goes
  <2>5. OnePlace'
    <3>1. \A u \in Nde!ThreadNames : work'[u].msg = work[u].msg
      BY <1>10, <2>2, <2>3 DEF Goes
    <3>2. \A m \in Nde!Msgs : m # e
      BY <1>20, Placed
    <3> QED
      BY <1>5, <1>7, <1>14, <1>20, <3>1, <3>2, PlacesSame
  <2>6. /\ AtWork' /\ Removals'
        /\ \A u \in Nde!ThreadNames :
               /\ work'[u].pc = "given" <=> work[u].pc = "given"
               /\ work'[u].pc = "refused" <=> work[u].pc = "refused"
               /\ work'[u].pc = "flushed" <=> work[u].pc = "flushed"
    BY <1>17, <2>2, <2>3
  <2>7. Control'
    <3>1. Nde!Flushing' <=> Nde!Flushing
      BY <2>6 DEF Nde!Flushing
    <3> QED
      BY <1>5, <1>7, <1>20, <3>1, NodeHome, ControlSame
  <2>8. ExitKept'
    BY <1>5, <1>20, <2>6, ExitSame, SameShutdowns
  <2> QED
    BY <1>12, <2>4, <2>5, <2>6, <2>7, <2>8 DEF NodeInv
<1> QED
  BY <1>1, <1>2, <1>6, <1>18, <1>19, <1>20 DEF Nde!Get

\* A thread that keeps its message, and is in no handler before or after.
LEMMA ThreadOnly ==
    ASSUME Nde!NodeConstants, NodeInv, NEW v \in Nde!ThreadNames,
           UNCHANGED <<received, context, acc, removal, ctl, freed, hist>>,
           NEW p \in {"get", "copy", "run", "post", "exited"},
           work' = [work EXCEPT ![v].pc = p],
           work[v].pc \in {"get", "copy"},
           p \in {"get", "exited"} => work[v].msg = NoOne,
           Nde!Home(v) = 0 => p # "post"
    PROVE  NodeInv'
<1>1. PICK t : t = [pc |-> p, msg |-> work[v].msg, exit |-> work[v].exit]
  OBVIOUS
<1>2. work[v] \in ThreadRecord /\ work \in [Nde!ThreadNames -> ThreadRecord]
  BY DEF NodeInv, NodeTypes
<1>3. work[v].msg \in Nde!Msgs \cup {NoOne} /\ work[v].exit \in BOOLEAN
  BY <1>2 DEF ThreadRecord
<1>4. Goes(v, t) /\ t.pc = p /\ t.msg = work[v].msg
  BY <1>1, <1>2, <1>3, ThreadFields
<1>5. /\ work' \in [Nde!ThreadNames -> ThreadRecord]
      /\ work'[v].pc = p
      /\ \A u \in Nde!ThreadNames : work'[u].msg = work[u].msg
      /\ \A u \in Nde!ThreadNames : u # v => work'[u].pc = work[u].pc
  BY <1>4 DEF Goes
<1>6. \A u \in Nde!ThreadNames :
         /\ work'[u].pc = "given" <=> work[u].pc = "given"
         /\ work'[u].pc = "refused" <=> work[u].pc = "refused"
         /\ work'[u].pc = "flushed" <=> work[u].pc = "flushed"
         /\ work[u].pc = "none" => work'[u].pc = "none"
  BY <1>5
<1>7. NodeTypes'
  BY <1>5 DEF NodeInv, NodeTypes
<1>8. OnePlace'
  BY <1>5, PlacesSame
<1>9. InContext'
  BY KindsKept DEF NodeInv, InContext
<1>10. AtWork'
  <2>1. ASSUME NEW u \in Nde!ThreadNames
        PROVE  /\ work'[u].msg # NoOne =>
                      /\ Nde!ContextOf(work[u].msg) = Nde!Home(u)
                      /\ work'[u].pc \notin {"none", "get", "exited"}
               /\ work'[u].pc \in {"given", "refused"} =>
                      work[u].msg # NoOne /\ received[work[u].msg] = "Shutdown"
               /\ work'[u].pc = "flushed" =>
                      work[u].msg # NoOne /\ received[work[u].msg] = "FlushAddr"
               /\ Nde!Home(u) = 0 => work'[u].pc # "post"
               /\ work'[u].pc # "none" => context[Nde!Home(u)].disp
    BY <1>5 DEF NodeInv, AtWork
  <2>2. \A u \in Nde!ThreadNames : Nde!ContextOf(work'[u].msg) = Nde!ContextOf(work[u].msg)
    BY <1>5
  <2> QED
    BY <1>5, <2>1 DEF AtWork, Nde!ContextOf
<1>11. Removals'
  <2>1. \A u \in Threads[removal.of] : removal.pc # "idle" => u \in Nde!ThreadNames
    BY NodeHome DEF NodeInv, Removals
  <2>2. /\ received' = received /\ context' = context /\ acc' = acc
        /\ removal' = removal /\ ctl' = ctl
    OBVIOUS
  <2> QED
    BY <1>6, <2>1, <2>2, KindsKept DEF NodeInv, Removals
<1>12. Control'
  <2>1. Nde!Flushing' <=> Nde!Flushing
    BY <1>6 DEF Nde!Flushing
  <2> QED
    BY <2>1, ControlSame
<1>13. ExitKept'
  BY <1>6, ExitSame, SameShutdowns
<1> QED
  BY <1>7, <1>8, <1>9, <1>10, <1>11, <1>12, <1>13 DEF NodeInv

\* A dispatch thread that has been asked to exits.
LEMMA ThreadPollStep ==
    ASSUME Nde!NodeConstants, NodeInv, NEW v \in Nde!ThreadNames, Nde!ThreadPoll(v)
    PROVE  NodeInv'
<1>1. work[v].msg = NoOne
  BY DEF Nde!ThreadPoll, NodeInv, AtWork
<1> QED
  BY <1>1, ThreadOnly DEF Nde!ThreadPoll

\* The dispatcher of context 0 has a handler as long as it is there.
LEMMA CopyHandlersStep ==
    ASSUME Nde!NodeConstants, NodeInv, NEW v \in Nde!ThreadNames, Nde!CopyHandlers(v)
    PROVE  NodeInv'
<1>1. PICK p : p = IF context[Nde!Home(v)].handlers = {} THEN "post" ELSE "run"
  OBVIOUS
<1>2. Nde!Home(v) = 0 => p = "run"
  BY <1>1 DEF Nde!CopyHandlers, NodeInv, AtWork, Control
<1>3. p \in {"get", "copy", "run", "post", "exited"} /\ p \notin {"get", "exited"}
  BY <1>1
<1> QED
  BY <1>1, <1>2, <1>3, ThreadOnly DEF Nde!CopyHandlers

-----------------------------------------------------------------------------
\* A handler has returned: the thread gives its message up, which is deleted and,
\* if it was handled, has been acted on once more.
LEMMA FinishIs ==
    ASSUME Nde!NodeConstants, NodeInv, NEW v \in Nde!ThreadNames,
           NEW handled \in BOOLEAN, Nde!Finish(v, handled)
    PROVE  /\ work' \in [Nde!ThreadNames -> ThreadRecord]
           /\ work'[v].pc \in {"get", "exited"} /\ work'[v].msg = NoOne
           /\ \A u \in Nde!ThreadNames : u # v => work'[u] = work[u]
           /\ freed' \in [Nde!Msgs -> Nat]
           /\ \A m \in Nde!Msgs :
                  freed'[m] = IF m = work[v].msg THEN freed[m] + 1 ELSE freed[m]
           /\ hist' \in HistRecord
           /\ hist'.lost = hist.lost /\ hist'.failed = hist.failed
           /\ \A m \in Nde!Msgs :
                  hist'.acted[m] = IF handled /\ m = work[v].msg
                                   THEN hist.acted[m] + 1 ELSE hist.acted[m]
<1>1. PICK e : e = work[v].msg
  OBVIOUS
<1>2. /\ work' \in [Nde!ThreadNames -> ThreadRecord]
      /\ work'[v].pc \in {"get", "exited"} /\ work'[v].msg = NoOne
      /\ \A u \in Nde!ThreadNames : u # v => work'[u] = work[u]
  <2>1. PICK t : t = IF work[v].exit THEN Nde!Exited ELSE Nde!NewThread
    OBVIOUS
  <2>2. PICK r \in ThreadRecord : r = Nde!NoThread
    BY DEF Nde!NoThread, ThreadRecord
  <2>3. r.msg = NoOne
    BY <2>2 DEF Nde!NoThread
  <2>4. t \in ThreadRecord /\ t.pc \in {"get", "exited"} /\ t.msg = NoOne
    <3>1. CASE work[v].exit
      <4>1. t = [r EXCEPT !.pc = "exited", !.exit = TRUE]
        BY <2>1, <2>2, <3>1 DEF Nde!Exited
      <4> QED
        BY <2>3, <4>1 DEF ThreadRecord
    <3>2. CASE ~work[v].exit
      <4>1. t = [r EXCEPT !.pc = "get"]
        BY <2>1, <2>2, <3>2 DEF Nde!NewThread
      <4> QED
        BY <2>3, <4>1 DEF ThreadRecord
    <3> QED
      BY <3>1, <3>2
  <2>5. work' = [work EXCEPT ![v] = t]
    BY <2>1 DEF Nde!Finish
  <2>6. work \in [Nde!ThreadNames -> ThreadRecord]
    BY DEF NodeInv, NodeTypes
  <2> QED
    BY <2>4, <2>5, <2>6
<1>3. /\ freed' \in [Nde!Msgs -> Nat]
      /\ \A m \in Nde!Msgs : freed'[m] = IF m \in {e} THEN freed[m] + 1 ELSE freed[m]
  <2>1. freed' = Nde!Freeing({e}) /\ NodeTypes
    BY <1>1 DEF Nde!Finish, NodeInv
  <2> QED
    BY <2>1, FreeingIs
<1>4. /\ hist' \in HistRecord
      /\ hist'.lost = hist.lost /\ hist'.failed = hist.failed
      /\ \A m \in Nde!Msgs :
             hist'.acted[m] = IF handled /\ m = e THEN hist.acted[m] + 1 ELSE hist.acted[m]
  <2>1. PICK a : a = [m \in Nde!Msgs |->
                         hist.acted[m] + IF handled /\ work[v].msg = m THEN 1 ELSE 0]
    OBVIOUS
  <2>2. hist.acted \in [Nde!Msgs -> Nat] /\ hist \in HistRecord
    BY DEF NodeInv, NodeTypes, HistRecord
  <2>3. \A m \in Nde!Msgs : hist.acted[m] \in Nat
    BY <2>2
  <2>4. \A m \in Nde!Msgs :
           a[m] = IF handled /\ m = e THEN hist.acted[m] + 1 ELSE hist.acted[m]
    BY <1>1, <2>1, <2>3
  <2>5. a \in [Nde!Msgs -> Nat]
    BY <2>1, <2>3
  <2>6. hist' = [hist EXCEPT !.acted = a]
    BY <2>1 DEF Nde!Finish
  <2>7. hist' \in HistRecord /\ hist'.acted = a
        /\ hist'.lost = hist.lost /\ hist'.failed = hist.failed
    BY <2>2, <2>5, <2>6 DEF HistRecord
  <2> QED
    BY <2>4, <2>7
<1> QED
  BY <1>1, <1>2, <1>3, <1>4

\* What a handler leaves behind, but for the shutdown.
LEMMA FinishStep ==
    ASSUME Nde!NodeConstants, NodeInv, NEW v \in Nde!ThreadNames,
           NEW handled \in BOOLEAN, Nde!Finish(v, handled),
           UNCHANGED <<received, context, acc, removal>>,
           work[v].pc \in {"run", "post", "given", "refused", "flushed"},
           work[v].pc # "post" => handled,
           ctl' \in CtlRecord,
           ctl.life # "up" => ctl'.life # "up",
           ctl'.life = "up" => ctl'.entry \/ (ctl'.entry = ctl.entry /\ work[v].pc # "flushed")
    PROVE  NodeTypes' /\ OnePlace' /\ InContext' /\ AtWork' /\ Removals' /\ Control'
<1>1. PICK e : e = work[v].msg
  OBVIOUS
<1>2. received' = received /\ context' = context /\ acc' = acc /\ removal' = removal
  OBVIOUS
<1>3. /\ work' \in [Nde!ThreadNames -> ThreadRecord]
      /\ work'[v].pc \in {"get", "exited"} /\ work'[v].msg = NoOne
      /\ \A u \in Nde!ThreadNames : u # v => work'[u] = work[u]
      /\ freed' \in [Nde!Msgs -> Nat]
      /\ \A m \in Nde!Msgs : freed'[m] = IF m = e THEN freed[m] + 1 ELSE freed[m]
      /\ hist' \in HistRecord
      /\ hist'.lost = hist.lost /\ hist'.failed = hist.failed
      /\ \A m \in Nde!Msgs :
             hist'.acted[m] = IF handled /\ m = e THEN hist.acted[m] + 1 ELSE hist.acted[m]
  BY <1>1, FinishIs
<1>4. \A m : Nde!ContextOf(m)' = Nde!ContextOf(m)
  BY <1>2, KindsKept
<1>5. \A u \in Nde!ThreadNames : u # v => work'[u].pc = work[u].pc /\ work'[u].msg = work[u].msg
  BY <1>3
<1>6. NodeTypes'
  BY <1>2, <1>3 DEF NodeInv, NodeTypes
<1>7. e # NoOne => e \in Nde!Msgs /\ e \in DOMAIN received /\ freed[e] = 0
                  /\ Nde!ContextOf(e) = Nde!Home(v)
  BY <1>1, Placed DEF NodeInv, AtWork
<1>8. OnePlace'
  <2>1. \A m \in Nde!Msgs \ {e} : \A p : IsAt(m, p) => IsAt(m, p)'
    <3>1. \A m \in Nde!Msgs \ {e} : \A u \in Nde!ThreadNames :
             work'[u].msg = m <=> work[u].msg = m
      BY <1>1, <1>3, <1>5, Placed
    <3> QED
      BY <1>2, <1>3, <3>1 DEF IsAt
  <2>2. ASSUME e # NoOne PROVE IsAt(e, Gone)'
    <3>1. PICK p : IsAt(e, p)
      BY <1>7, <2>2 DEF NodeInv, OnePlace
    <3>2. IsAt(e, <<"thread", v>>)
      BY <1>1, <3>1 DEF IsAt
    <3>3. \A u \in Nde!ThreadNames : work'[u].msg # e
      BY <1>3, <1>5, <2>2, <3>2 DEF IsAt
    <3> QED
      BY <1>2, <1>3, <3>2, <3>3 DEF IsAt, Gone
  <2>3. Gone \in SomePlaces
    BY DEF SomePlaces
  <2>4. \A m \in Nde!Msgs : m # NoOne
    BY Placed
  <2> QED
    BY <1>2, <1>3, <1>7, <2>1, <2>2, <2>3, <2>4 DEF NodeInv, OnePlace
<1>9. InContext'
  BY <1>2, <1>4 DEF NodeInv, InContext
<1>10. AtWork'
  <2>1. ASSUME NEW u \in Nde!ThreadNames
        PROVE  /\ work'[u].msg # NoOne =>
                      /\ Nde!ContextOf(work'[u].msg) = Nde!Home(u)
                      /\ work'[u].pc \notin {"none", "get", "exited"}
               /\ work'[u].pc \in {"given", "refused"} =>
                      work'[u].msg # NoOne /\ received[work'[u].msg] = "Shutdown"
               /\ work'[u].pc = "flushed" =>
                      work'[u].msg # NoOne /\ received[work'[u].msg] = "FlushAddr"
               /\ Nde!Home(u) = 0 => work'[u].pc # "post"
               /\ work'[u].pc # "none" => context[Nde!Home(u)].disp
    <3>1. CASE u = v
      BY <1>3, <3>1 DEF NodeInv, AtWork
    <3>2. CASE u # v
      BY <1>3, <3>2 DEF NodeInv, AtWork
    <3> QED
      BY <3>1, <3>2
  <2> QED
    BY <1>2, <2>1 DEF AtWork, Nde!ContextOf
<1>11. ctl'.life = "up" => ctl.life = "up"
  OBVIOUS
<1>12. Removals'
  <2>1. \A u \in Threads[removal.of] : removal.pc # "idle" => u \in Nde!ThreadNames
    BY NodeHome DEF NodeInv, Removals
  <2>2. \A u \in Nde!ThreadNames : work[u].pc = "none" => work'[u].pc = "none"
    BY <1>5
  <2>3. ctl.life # "up" => ctl'.life # "up"
    OBVIOUS
  <2> QED
    BY <1>2, <1>4, <2>1, <2>2, <2>3 DEF NodeInv, Removals
<1>13. Control'
  <2>1. \A m \in Nde!Msgs : freed'[m] = 0 => m # e /\ freed[m] = 0
    BY <1>3, Placed
  <2>2. \A m \in Nde!Msgs : freed'[m] = 0 => hist'.acted[m] = 0 /\ m \notin hist'.failed
    BY <1>3, <2>1 DEF NodeInv, Control
  <2>3. Nde!Home(v) = 0 => handled
    BY DEF NodeInv, AtWork
  <2>4. e # NoOne => hist.acted[e] = 0 /\ e \notin hist.failed
    BY <1>7 DEF NodeInv, Control
  <2>5. \A m \in DOMAIN received : m # e =>
           freed'[m] = freed[m] /\ hist'.acted[m] = hist.acted[m]
    BY <1>3, Placed
  <2>6. ASSUME NEW m \in DOMAIN received, Nde!ContextOf(m) = 0, freed'[m] = 1, ctl.life = "up"
        PROVE  hist'.acted[m] = IF m \in hist'.failed THEN 0 ELSE 1
    <3>1. CASE m = e
      <4>1. e # NoOne
        BY <3>1, Placed
      <4>2. handled /\ hist.acted[e] = 0 /\ e \notin hist.failed /\ e \in Nde!Msgs
        BY <1>7, <2>3, <2>4, <2>6, <3>1, <4>1
      <4> QED
        BY <1>3, <3>1, <4>2
    <3>2. CASE m # e
      BY <1>3, <2>5, <2>6, <3>2 DEF NodeInv, Control
    <3> QED
      BY <3>1, <3>2
  <2>7. ctl'.life = "up" => ctl'.entry \/ Nde!Flushing'
    BY <1>5, <1>11 DEF Nde!Flushing, NodeInv, Control
  <2> QED
    BY <1>2, <1>3, <1>4, <1>11, <2>2, <2>6, <2>7 DEF NodeInv, Control
<1> QED
  BY <1>6, <1>8, <1>9, <1>10, <1>12, <1>13

\* A handler that is not for a shutdown has no part in it.
LEMMA OtherHandler ==
    ASSUME Nde!NodeConstants, NodeInv, NEW v \in Nde!ThreadNames,
           NEW handled \in BOOLEAN, Nde!Finish(v, handled), received' = received,
           work[v].pc \notin {"given", "refused"},
           handled /\ work[v].msg # NoOne => received[work[v].msg] # "Shutdown",
           ctl'.exit = ctl.exit, ctl'.waited = ctl.waited, ctl'.flag = ctl.flag
    PROVE  ExitKept'
<1>1. PICK e : e = work[v].msg
  OBVIOUS
<1>2. /\ work'[v].pc \in {"get", "exited"}
      /\ \A u \in Nde!ThreadNames : u # v => work'[u] = work[u]
      /\ \A m \in Nde!Msgs :
             hist'.acted[m] = IF handled /\ m = e THEN hist.acted[m] + 1 ELSE hist.acted[m]
  BY <1>1, FinishIs
<1>3. \A m \in DOMAIN received : received[m] = "Shutdown" => hist'.acted[m] = hist.acted[m]
  BY <1>1, <1>2, Placed
<1>4. Nde!Shutdowns' = Nde!Shutdowns
  BY <1>3 DEF Nde!Shutdowns
<1>5. \A u \in Nde!ThreadNames :
         /\ work'[u].pc = "given" <=> work[u].pc = "given"
         /\ work'[u].pc = "refused" <=> work[u].pc = "refused"
  BY <1>2
<1> QED
  BY <1>4, <1>5, ExitSame

\* Handlers that change nothing of the node are run, or there are none;
LEMMA RunHandlerStep ==
    ASSUME Nde!NodeConstants, NodeInv, NEW v \in Nde!ThreadNames, Nde!RunHandler(v)
    PROVE  NodeInv'
<1>1. PICK handled \in BOOLEAN : handled = (work[v].pc = "run")
  OBVIOUS
<1>2. /\ Nde!Finish(v, handled) /\ work[v].pc \in {"run", "post"}
      /\ received' = received /\ context' = context /\ acc' = acc /\ removal' = removal
      /\ ctl' = ctl
      /\ handled /\ work[v].msg # NoOne => received[work[v].msg] # "Shutdown"
  BY <1>1 DEF Nde!RunHandler, Nde!Code
<1>3. ctl' \in CtlRecord
  BY <1>2 DEF NodeInv, NodeTypes
<1>4. NodeTypes' /\ OnePlace' /\ InContext' /\ AtWork' /\ Removals' /\ Control'
  BY <1>1, <1>2, <1>3, FinishStep
<1>5. ExitKept'
  BY <1>2, OtherHandler
<1> QED
  BY <1>4, <1>5 DEF NodeInv

\* A start event raises the start semaphore.
LEMMA StartSyncStep ==
    ASSUME Nde!NodeConstants, NodeInv, NEW v \in Nde!ThreadNames, Nde!StartSync(v)
    PROVE  NodeInv'
<1>1. /\ Nde!Finish(v, TRUE) /\ work[v].pc = "run"
      /\ received' = received /\ context' = context /\ acc' = acc /\ removal' = removal
      /\ work[v].msg # NoOne => received[work[v].msg] # "Shutdown"
  BY DEF Nde!StartSync, Nde!Controls, Nde!Code
<1>2. /\ ctl' \in CtlRecord /\ ctl'.life = ctl.life /\ ctl'.entry = ctl.entry
      /\ ctl'.exit = ctl.exit /\ ctl'.waited = ctl.waited /\ ctl'.flag = ctl.flag
  BY DEF Nde!StartSync, NodeInv, NodeTypes, CtlRecord
<1>3. NodeTypes' /\ OnePlace' /\ InContext' /\ AtWork' /\ Removals' /\ Control'
  BY <1>1, <1>2, FinishStep
<1>4. ExitKept'
  BY <1>1, <1>2, OtherHandler
<1> QED
  BY <1>3, <1>4 DEF NodeInv

\* The resolver node's entry is made anew after a flush, as long as the node is up.
LEMMA AddressAddStep ==
    ASSUME Nde!NodeConstants, NodeInv, NEW v \in Nde!ThreadNames, Nde!AddressAdd(v)
    PROVE  NodeInv'
<1>1. /\ Nde!Finish(v, TRUE) /\ work[v].pc = "flushed"
      /\ received' = received /\ context' = context /\ acc' = acc /\ removal' = removal
  BY DEF Nde!AddressAdd
<1>2. work[v].msg # NoOne => received[work[v].msg] # "Shutdown"
  BY <1>1 DEF NodeInv, AtWork
<1>3. /\ ctl' \in CtlRecord
      /\ ctl'.exit = ctl.exit /\ ctl'.waited = ctl.waited /\ ctl'.flag = ctl.flag
      /\ ctl.life # "up" => ctl'.life # "up"
      /\ ctl'.life = "up" => ctl'.entry
  BY DEF Nde!AddressAdd, NodeInv, NodeTypes, CtlRecord
<1>4. NodeTypes' /\ OnePlace' /\ InContext' /\ AtWork' /\ Removals' /\ Control'
  BY <1>1, <1>3, FinishStep
<1>5. ExitKept'
  BY <1>1, <1>2, <1>3, OtherHandler
<1> QED
  BY <1>4, <1>5 DEF NodeInv

\* The flag tells whether the thread that gave the semaphore was the last to write
\* it; with one shutdown there is no other.
LEMMA SignalExitFlagStep ==
    ASSUME Nde!NodeConstants, NodeInv, NEW v \in Nde!ThreadNames, Nde!SignalExitFlag(v)
    PROVE  NodeInv'
<1>1. PICK e : e = work[v].msg
  OBVIOUS
<1>2. /\ Nde!Finish(v, TRUE) /\ work[v].pc \in {"given", "refused"}
      /\ received' = received /\ context' = context /\ acc' = acc /\ removal' = removal
  BY DEF Nde!SignalExitFlag
<1>3. /\ ctl' \in CtlRecord /\ ctl'.life = ctl.life /\ ctl'.entry = ctl.entry
      /\ ctl'.exit = ctl.exit /\ ctl'.waited = ctl.waited
      /\ ctl'.flag <=> work[v].pc = "given"
  BY DEF Nde!SignalExitFlag, NodeInv, NodeTypes, CtlRecord
<1>4. NodeTypes' /\ OnePlace' /\ InContext' /\ AtWork' /\ Removals' /\ Control'
  BY <1>2, <1>3, FinishStep
<1>5. e \in DOMAIN received /\ e \in Nde!Msgs /\ received[e] = "Shutdown" /\ freed[e] = 0
  BY <1>1, <1>2, Placed DEF NodeInv, AtWork
<1>6. hist.acted[e] = 0
  BY <1>5 DEF NodeInv, Control
<1>7. /\ work'[v].pc \in {"get", "exited"}
      /\ \A u \in Nde!ThreadNames : u # v => work'[u] = work[u]
      /\ \A m \in Nde!Msgs :
             hist'.acted[m] = IF m = e THEN hist.acted[m] + 1 ELSE hist.acted[m]
  BY <1>1, <1>2, FinishIs
<1>8. e \notin Nde!Shutdowns /\ Nde!Shutdowns' = Nde!Shutdowns \cup {e}
  <2>1. hist'.acted[e] = 1
    BY <1>5, <1>6, <1>7
  <2>2. \A m \in DOMAIN received : m # e => hist'.acted[m] = hist.acted[m]
    BY <1>7, Placed
  <2> QED
    BY <1>2, <1>5, <1>6, <2>1, <2>2 DEF Nde!Shutdowns
<1>9. ExitKept'
  <2>1. ctl.exit = 1 \/ ctl.waited
    BY <1>2 DEF NodeInv, ExitKept, Nde!Signalling
  <2>2. ASSUME ~Nde!Signalling', NEW m, Nde!Shutdowns' = {m}
        PROVE  ctl'.flag
    <3>1. Nde!Shutdowns = {}
      BY <1>8, <2>2
    <3>2. \A u \in Nde!ThreadNames : u # v => work[u].pc \notin {"given", "refused"}
      BY <1>7, <2>2 DEF Nde!Signalling
    <3>3. work[v].pc # "refused"
      BY <3>1, <3>2 DEF NodeInv, ExitKept
    <3> QED
      BY <1>2, <1>3, <3>3
  <2>3. Nde!Shutdowns' # {}
    BY <1>8
  <2> QED
    BY <1>3, <2>1, <2>2, <2>3 DEF ExitKept
<1> QED
  BY <1>4, <1>9 DEF NodeInv

\* A thread that is in a handler goes on in it.
LEMMA InHandler ==
    ASSUME Nde!NodeConstants, NodeInv, NEW v \in Nde!ThreadNames,
           received' = received, context' = context, acc' = acc, removal' = removal,
           freed' = freed, hist' = hist, ctl' \in CtlRecord,
           work[v].pc = "run",
           NEW p \in {"given", "refused", "flushed"},
           work' = [work EXCEPT ![v].pc = p],
           work[v].msg # NoOne,
           p \in {"given", "refused"} => received[work[v].msg] = "Shutdown",
           p = "flushed" => received[work[v].msg] = "FlushAddr",
           ctl.life # "up" => ctl'.life # "up",
           ctl'.entry = ctl.entry \/ p = "flushed"
    PROVE  /\ NodeTypes' /\ OnePlace' /\ InContext' /\ AtWork' /\ Removals' /\ Control'
           /\ work'[v].pc = p
           /\ \A u \in Nde!ThreadNames : u # v => work'[u].pc = work[u].pc
<1>1. PICK t : t = [pc |-> p, msg |-> work[v].msg, exit |-> work[v].exit]
  OBVIOUS
<1>2. work[v] \in ThreadRecord /\ work \in [Nde!ThreadNames -> ThreadRecord]
  BY DEF NodeInv, NodeTypes
<1>3. work[v].msg \in Nde!Msgs \cup {NoOne} /\ work[v].exit \in BOOLEAN
  BY <1>2 DEF ThreadRecord
<1>4. Goes(v, t) /\ t.pc = p /\ t.msg = work[v].msg
  BY <1>1, <1>2, <1>3, ThreadFields
<1>5. /\ work' \in [Nde!ThreadNames -> ThreadRecord]
      /\ work'[v].pc = p
      /\ \A u \in Nde!ThreadNames : work'[u].msg = work[u].msg
      /\ \A u \in Nde!ThreadNames : u # v => work'[u].pc = work[u].pc
  BY <1>4 DEF Goes
<1>6. NodeTypes'
  BY <1>5 DEF NodeInv, NodeTypes
<1>7. OnePlace'
  BY <1>5, PlacesSame
<1>8. InContext'
  BY KindsKept DEF NodeInv, InContext
<1>9. AtWork'
  <2>1. ASSUME NEW u \in Nde!ThreadNames
        PROVE  /\ work[u].msg # NoOne =>
                      /\ Nde!ContextOf(work[u].msg) = Nde!Home(u)
                      /\ work'[u].pc \notin {"none", "get", "exited"}
               /\ work'[u].pc \in {"given", "refused"} =>
                      work[u].msg # NoOne /\ received[work[u].msg] = "Shutdown"
               /\ work'[u].pc = "flushed" =>
                      work[u].msg # NoOne /\ received[work[u].msg] = "FlushAddr"
               /\ Nde!Home(u) = 0 => work'[u].pc # "post"
               /\ work'[u].pc # "none" => context[Nde!Home(u)].disp
    BY <1>5 DEF NodeInv, AtWork
  <2> QED
    BY <1>5, <2>1 DEF AtWork, Nde!ContextOf
<1>10. Removals'
  <2>1. \A u \in Threads[removal.of] : removal.pc # "idle" => u \in Nde!ThreadNames
    BY NodeHome DEF NodeInv, Removals
  <2>2. \A u \in Nde!ThreadNames : work[u].pc = "none" => work'[u].pc = "none"
    BY <1>5
  <2> QED
    BY <2>1, <2>2, KindsKept DEF NodeInv, Removals
<1>11. Control'
  <2>1. ctl.entry \/ Nde!Flushing => ctl'.entry \/ Nde!Flushing'
    <3>1. \A u \in Nde!ThreadNames : work[u].pc = "flushed" => work'[u].pc = "flushed"
      BY <1>5
    <3> QED
      BY <1>5, <3>1 DEF Nde!Flushing
  <2> QED
    BY <2>1, ControlSame
<1> QED
  BY <1>5, <1>6, <1>7, <1>8, <1>9, <1>10, <1>11

\* A shutdown event gives the exit semaphore, whose limit is 1.
LEMMA SignalExitStep ==
    ASSUME Nde!NodeConstants, NodeInv, NEW v \in Nde!ThreadNames, Nde!SignalExit(v)
    PROVE  NodeInv'
<1>1. PICK p \in {"given", "refused"} : p = IF ctl.exit = 0 THEN "given" ELSE "refused"
  OBVIOUS
<1>2. /\ work[v].pc = "run" /\ work' = [work EXCEPT ![v].pc = p]
      /\ received' = received /\ context' = context /\ acc' = acc /\ removal' = removal
      /\ freed' = freed /\ hist' = hist
      /\ work[v].msg # NoOne /\ received[work[v].msg] = "Shutdown"
  BY <1>1 DEF Nde!SignalExit, Nde!Controls, Nde!Code
<1>3. /\ ctl' \in CtlRecord /\ ctl'.life = ctl.life /\ ctl'.entry = ctl.entry
      /\ ctl'.exit = 1 /\ ctl'.waited = ctl.waited /\ ctl.exit \in {0, 1}
  BY DEF Nde!SignalExit, NodeInv, NodeTypes, CtlRecord
<1>4. /\ NodeTypes' /\ OnePlace' /\ InContext' /\ AtWork' /\ Removals' /\ Control'
      /\ work'[v].pc = p
      /\ \A u \in Nde!ThreadNames : u # v => work'[u].pc = work[u].pc
  BY <1>2, <1>3, InHandler
<1>5. ExitKept'
  <2>1. Nde!Signalling'
    BY <1>1, <1>4 DEF Nde!Signalling
  <2>2. Nde!Shutdowns' = Nde!Shutdowns
    BY <1>2, SameShutdowns
  <2>3. ASSUME NEW u \in Nde!ThreadNames, work'[u].pc = "refused"
        PROVE  \/ Nde!Shutdowns # {}
               \/ \E w \in Nde!ThreadNames \ {u} : work'[w].pc \in {"given", "refused"}
    <3>1. CASE u = v
      <4>1. ctl.exit = 1
        BY <1>1, <1>3, <1>4, <2>3, <3>1
      <4>2. Nde!Shutdowns # {} \/ Nde!Signalling
        BY <4>1 DEF NodeInv, ExitKept
      <4>3. \A w \in Nde!ThreadNames : work[w].pc \in {"given", "refused"} =>
               w # v /\ work'[w].pc \in {"given", "refused"}
        BY <1>2, <1>4
      <4> QED
        BY <3>1, <4>2, <4>3 DEF Nde!Signalling
    <3>2. CASE u # v
      BY <1>1, <1>4, <3>2
    <3> QED
      BY <3>1, <3>2
  <2> QED
    BY <1>3, <2>1, <2>2, <2>3 DEF ExitKept
<1> QED
  BY <1>4, <1>5 DEF NodeInv

\* A flush empties the address cache; after the resolver's end it ends in a crash.
LEMMA FlushAddrCacheStep ==
    ASSUME Nde!NodeConstants, NodeInv, NEW v \in Nde!ThreadNames, Nde!FlushAddrCache(v)
    PROVE  NodeInv'
<1>1. /\ work[v].pc = "run"
      /\ received' = received /\ context' = context /\ acc' = acc /\ removal' = removal
      /\ freed' = freed /\ hist' = hist
      /\ work[v].msg # NoOne /\ received[work[v].msg] = "FlushAddr"
  BY DEF Nde!FlushAddrCache, Nde!Controls, Nde!Code
<1>2. CASE ctl.life = "up"
  <2>1. /\ ctl' \in CtlRecord /\ ctl'.life = ctl.life
        /\ ctl'.exit = ctl.exit /\ ctl'.waited = ctl.waited /\ ctl'.flag = ctl.flag
    BY <1>2 DEF Nde!FlushAddrCache, NodeInv, NodeTypes, CtlRecord
  <2>2. PICK p \in {"given", "refused", "flushed"} : p = "flushed"
    OBVIOUS
  <2>3. work' = [work EXCEPT ![v].pc = p]
    BY <1>2, <2>2 DEF Nde!FlushAddrCache
  <2>4. /\ NodeTypes' /\ OnePlace' /\ InContext' /\ AtWork' /\ Removals' /\ Control'
        /\ work'[v].pc = "flushed"
        /\ \A u \in Nde!ThreadNames : u # v => work'[u].pc = work[u].pc
    BY <1>1, <2>1, <2>2, <2>3, InHandler
  <2>5. \A u \in Nde!ThreadNames :
           /\ work'[u].pc = "given" <=> work[u].pc = "given"
           /\ work'[u].pc = "refused" <=> work[u].pc = "refused"
    BY <1>1, <2>4
  <2>6. ExitKept'
    BY <1>1, <2>1, <2>5, ExitSame, SameShutdowns
  <2> QED
    BY <2>4, <2>6 DEF NodeInv
<1>3. CASE ctl.life # "up"
  <2>1. /\ ctl' \in CtlRecord /\ ctl'.life = "crashed" /\ work' = work
        /\ ctl'.exit = ctl.exit /\ ctl'.waited = ctl.waited /\ ctl'.flag = ctl.flag
    BY <1>3 DEF Nde!FlushAddrCache, NodeInv, NodeTypes, CtlRecord
  <2>2. NodeTypes'
    BY <1>1, <2>1 DEF NodeInv, NodeTypes
  <2>3. OnePlace'
    BY <1>1, <2>1, PlacesSame
  <2>4. InContext' /\ AtWork' /\ Removals'
    BY <1>1, <2>1, KindsKept DEF NodeInv, InContext, AtWork, Removals
  <2>5. Control'
    BY <1>1, <2>1, ControlSame
  <2>6. ExitKept'
    BY <1>1, <2>1, ExitSame, SameShutdowns
  <2> QED
    BY <2>2, <2>3, <2>4, <2>5, <2>6 DEF NodeInv
<1> QED
  BY <1>2, <1>3

-----------------------------------------------------------------------------
(* Clients, and the end of the node.                                       *)

\* The application gives the reply context a handler, hence a dispatcher ...
LEMMA RegisterHandlerStep ==
    ASSUME Nde!NodeConstants, NodeInv, Nde!RegisterHandler
    PROVE  NodeInv'
<1>1. /\ removal.pc = "idle"
      /\ received' = received /\ acc' = acc /\ removal' = removal /\ ctl' = ctl
      /\ freed' = freed /\ hist' = hist
  BY DEF Nde!RegisterHandler, Nde!MutexFree
<1>2. Reply \in Nde!Contexts /\ Reply # 0 /\ 0 \in Nde!Contexts
  BY NodeHome
<1>3. /\ context' \in [Nde!Contexts -> ContextRecord]
      /\ \A d \in Nde!Contexts :
             /\ context'[d].disp = IF d = Reply THEN TRUE ELSE context[d].disp
             /\ d # Reply => context'[d].handlers = context[d].handlers
             /\ context'[d].queue = context[d].queue
             /\ context'[d].head = context[d].head
  <2>1. PICK hs : hs = context[Reply].handlers \cup {"Client"}
    OBVIOUS
  <2>2. hs \in SUBSET {"Control", "Client"} /\ context \in [Nde!Contexts -> ContextRecord]
    BY <1>2, <2>1 DEF NodeInv, NodeTypes, ContextRecord
  <2>3. context' = [context EXCEPT ![Reply].disp = TRUE, ![Reply].handlers = hs]
    BY <2>1 DEF Nde!RegisterHandler
  <2> QED
    BY <1>2, <2>2, <2>3, DispatcherSet
<1>4. PICK n : n = Nde!NewThread
  OBVIOUS
<1>5. n \in ThreadRecord /\ n.pc = "get" /\ n.msg = NoOne
  <2>1. PICK r \in ThreadRecord : r = Nde!NoThread
    BY DEF Nde!NoThread, ThreadRecord
  <2>2. r.msg = NoOne
    BY <2>1 DEF Nde!NoThread
  <2>3. n = [r EXCEPT !.pc = "get"]
    BY <1>4, <2>1 DEF Nde!NewThread
  <2> QED
    BY <2>2, <2>3 DEF ThreadRecord
<1>6. /\ work' \in [Nde!ThreadNames -> ThreadRecord]
      /\ \A u \in Nde!ThreadNames :
             work'[u] = IF Nde!Home(u) = Reply /\ ~context[Reply].disp THEN n ELSE work[u]
  BY <1>4, <1>5 DEF Nde!RegisterHandler, NodeInv, NodeTypes
<1>7. ASSUME NEW u \in Nde!ThreadNames, Nde!Home(u) = Reply, ~context[Reply].disp
      PROVE  work[u].pc = "none" /\ work[u].msg = NoOne
  BY <1>7 DEF NodeInv, AtWork
<1>8. \A u \in Nde!ThreadNames :
         /\ work'[u].msg = work[u].msg
         /\ \/ work'[u].pc = work[u].pc
            \/ Nde!Home(u) = Reply /\ work[u].pc = "none" /\ work'[u].pc = "get"
  BY <1>5, <1>6, <1>7
<1>9. NodeTypes'
  BY <1>1, <1>3, <1>6 DEF NodeInv, NodeTypes
<1>10. OnePlace'
  BY <1>1, <1>3, <1>8, PlacesSame
<1>11. InContext'
  <2>1. \A d \in Nde!Contexts :
           context'[d].queue = context[d].queue /\ context'[d].head = context[d].head
    BY <1>3
  <2>2. \A m : Nde!ContextOf(m)' = Nde!ContextOf(m)
    BY <1>1, KindsKept
  <2> QED
    BY <2>1, <2>2 DEF NodeInv, InContext
<1>12. AtWork'
  <2>1. ASSUME NEW u \in Nde!ThreadNames
        PROVE  /\ work[u].msg # NoOne =>
                      /\ Nde!ContextOf(work[u].msg) = Nde!Home(u)
                      /\ work'[u].pc \notin {"none", "get", "exited"}
               /\ work'[u].pc \in {"given", "refused"} =>
                      work[u].msg # NoOne /\ received[work[u].msg] = "Shutdown"
               /\ work'[u].pc = "flushed" =>
                      work[u].msg # NoOne /\ received[work[u].msg] = "FlushAddr"
               /\ Nde!Home(u) = 0 => work'[u].pc # "post"
               /\ work'[u].pc # "none" => context'[Nde!Home(u)].disp
    <3>1. Nde!Home(u) \in Nde!Contexts
      BY NodeHome
    <3> QED
      BY <1>3, <1>8, <3>1 DEF NodeInv, AtWork
  <2> QED
    BY <1>1, <1>8, <2>1 DEF AtWork, Nde!ContextOf
<1>13. Removals'
  BY <1>1, <1>2, <1>3, KindsKept DEF NodeInv, Removals
<1>14. \A u \in Nde!ThreadNames :
          /\ work'[u].pc = "given" <=> work[u].pc = "given"
          /\ work'[u].pc = "refused" <=> work[u].pc = "refused"
          /\ work'[u].pc = "flushed" <=> work[u].pc = "flushed"
  BY <1>8
<1>15. Control'
  <2>1. Nde!Flushing' <=> Nde!Flushing
    BY <1>14 DEF Nde!Flushing
  <2>2. /\ context'[0].disp = context[0].disp
        /\ context'[0].handlers = context[0].handlers
        /\ context'[0].head = context[0].head
    BY <1>2, <1>3
  <2> QED
    BY <1>1, <2>1, <2>2, ControlSame
<1>16. ExitKept'
  BY <1>1, <1>14, ExitSame, SameShutdowns
<1> QED
  BY <1>9, <1>10, <1>11, <1>12, <1>13, <1>15, <1>16 DEF NodeInv

\* ... and takes the handler away again.
LEMMA RemoveHandlerStep ==
    ASSUME Nde!NodeConstants, NodeInv, Nde!RemoveHandler
    PROVE  NodeInv'
<1>1. /\ received' = received /\ work' = work /\ acc' = acc /\ removal' = removal
      /\ ctl' = ctl /\ freed' = freed /\ hist' = hist
  BY DEF Nde!RemoveHandler
<1>2. Reply \in Nde!Contexts /\ Reply # 0 /\ 0 \in Nde!Contexts
  BY NodeHome
<1>3. /\ context' \in [Nde!Contexts -> ContextRecord]
      /\ \A d \in Nde!Contexts :
             /\ context'[d].disp = context[d].disp
             /\ d # Reply => context'[d].handlers = context[d].handlers
             /\ context'[d].queue = context[d].queue
             /\ context'[d].head = context[d].head
  <2>1. PICK hs : hs = context[Reply].handlers \ {"Client"}
    OBVIOUS
  <2>2. hs \in SUBSET {"Control", "Client"} /\ context \in [Nde!Contexts -> ContextRecord]
    BY <1>2, <2>1 DEF NodeInv, NodeTypes, ContextRecord
  <2>3. context' = [context EXCEPT ![Reply].handlers = hs]
    BY <2>1 DEF Nde!RemoveHandler
  <2> QED
    BY <1>2, <2>2, <2>3, HandlersSet
<1>4. NodeTypes'
  BY <1>1, <1>3 DEF NodeInv, NodeTypes
<1>5. OnePlace'
  BY <1>1, <1>3, PlacesSame
<1>6. InContext'
  BY <1>1, <1>3, KindsKept DEF NodeInv, InContext
<1>7. AtWork'
  BY <1>1, <1>3, KindsKept, NodeHome DEF NodeInv, AtWork
<1>8. Removals'
  BY <1>1, <1>2, <1>3, KindsKept DEF NodeInv, Removals
<1>9. Control'
  <2>1. Nde!Flushing' <=> Nde!Flushing
    BY <1>1 DEF Nde!Flushing
  <2>2. /\ context'[0].disp = context[0].disp
        /\ context'[0].handlers = context[0].handlers
        /\ context'[0].head = context[0].head
    BY <1>2, <1>3
  <2> QED
    BY <1>1, <2>1, <2>2, ControlSame
<1>10. ExitKept'
  BY <1>1, ExitSame, SameShutdowns
<1> QED
  BY <1>4, <1>5, <1>6, <1>7, <1>8, <1>9, <1>10 DEF NodeInv

\* The node's own semaphores and life.
LEMMA NodeOnlyStep ==
    ASSUME Nde!NodeConstants, NodeInv,
           Nde!WaitForSync \/ Nde!WaitForExit \/ Nde!DestroyResolver
    PROVE  NodeInv'
<1>1. /\ received' = received /\ context' = context /\ work' = work /\ acc' = acc
      /\ removal' = removal /\ freed' = freed /\ hist' = hist
  BY DEF Nde!WaitForSync, Nde!WaitForExit, Nde!DestroyResolver
<1>2. /\ ctl' \in CtlRecord
      /\ ctl'.flag = ctl.flag
      /\ ctl.life # "up" => ctl'.life # "up"
      /\ ctl'.life = "up" => ctl'.entry = ctl.entry
      /\ ctl'.exit = 1 \/ ctl'.waited <=> ctl.exit = 1 \/ ctl.waited
  <2>1. CASE Nde!WaitForSync
    BY <2>1 DEF Nde!WaitForSync, NodeInv, NodeTypes, CtlRecord
  <2>2. CASE Nde!WaitForExit
    BY <2>2 DEF Nde!WaitForExit, NodeInv, NodeTypes, CtlRecord
  <2>3. CASE Nde!DestroyResolver
    BY <2>3 DEF Nde!DestroyResolver, NodeInv, NodeTypes, CtlRecord
  <2> QED
    BY <2>1, <2>2, <2>3
<1>3. NodeTypes'
  BY <1>1, <1>2 DEF NodeInv, NodeTypes
<1>4. OnePlace'
  BY <1>1, PlacesSame
<1>5. InContext' /\ AtWork' /\ Removals'
  BY <1>1, <1>2, KindsKept DEF NodeInv, InContext, AtWork, Removals
<1>6. Control'
  <2>1. Nde!Flushing' <=> Nde!Flushing
    BY <1>1 DEF Nde!Flushing
  <2> QED
    BY <1>1, <1>2, <2>1, ControlSame
<1>7. ExitKept'
  <2>1. Nde!Shutdowns' = Nde!Shutdowns
    BY <1>1, SameShutdowns
  <2>2. Nde!Signalling' <=> Nde!Signalling
    BY <1>1 DEF Nde!Signalling
  <2> QED
    BY <1>1, <1>2, <2>1, <2>2 DEF NodeInv, ExitKept
<1> QED
  BY <1>3, <1>4, <1>5, <1>6, <1>7 DEF NodeInv

\* ~IpcAccumMap stops the accumulator thread ...
LEMMA StopAccumStep ==
    ASSUME Nde!NodeConstants, NodeInv, Nde!StopAccum
    PROVE  NodeInv'
<1>1. /\ received' = received /\ context' = context /\ work' = work /\ ctl' = ctl
      /\ removal' = removal /\ freed' = freed /\ hist' = hist
      /\ acc.pc = "get" /\ ctl.life # "up"
  BY DEF Nde!StopAccum
<1>2. acc' \in AccRecord /\ acc'.pc = "exited"
  BY DEF Nde!StopAccum, NodeInv, NodeTypes, AccRecord
<1>3. NodeTypes'
  BY <1>1, <1>2 DEF NodeInv, NodeTypes
<1>4. OnePlace'
  BY <1>1, <1>2, PlacesSame
<1>5. InContext' /\ AtWork'
  BY <1>1, KindsKept DEF NodeInv, InContext, AtWork
<1>6. Removals'
  BY <1>1, <1>2 DEF NodeInv, Removals
<1>7. Control'
  <2>1. Nde!Flushing' <=> Nde!Flushing
    BY <1>1 DEF Nde!Flushing
  <2> QED
    BY <1>1, <2>1, ControlSame
<1>8. ExitKept'
  BY <1>1, ExitSame, SameShutdowns
<1> QED
  BY <1>3, <1>4, <1>5, <1>6, <1>7, <1>8 DEF NodeInv

\* ... and removes the contexts that there are.
LEMMA DestroyContextStep ==
    ASSUME Nde!NodeConstants, NodeInv, NEW c \in Nde!Contexts, Nde!DestroyContext(c)
    PROVE  NodeInv'
<1>1. PICK h : h = context[c].head
  OBVIOUS
<1>2. /\ received' = received /\ work' = work /\ hist' = hist /\ acc' = acc /\ ctl' = ctl
      /\ acc.pc = "exited" /\ ctl.life # "up" /\ removal.pc = "idle"
  BY DEF Nde!DestroyContext
<1>3. /\ context' \in [Nde!Contexts -> ContextRecord]
      /\ \A d \in Nde!Contexts :
             /\ context'[d].disp = context[d].disp
             /\ context'[d].handlers = context[d].handlers
             /\ context'[d].queue = context[d].queue
             /\ context'[d].head = IF d = c THEN NoOne ELSE context[d].head
  <2>1. /\ context' = [context EXCEPT ![c].head = NoOne]
        /\ context \in [Nde!Contexts -> ContextRecord]
    BY DEF Nde!DestroyContext, NodeInv, NodeTypes
  <2> QED
    BY <2>1, HeadSet
<1>4. /\ freed' \in [Nde!Msgs -> Nat]
      /\ \A m \in Nde!Msgs : freed'[m] = IF m \in {h} THEN freed[m] + 1 ELSE freed[m]
  <2>1. freed' = Nde!Freeing({h}) /\ NodeTypes
    BY <1>1 DEF Nde!DestroyContext, NodeInv
  <2> QED
    BY <2>1, FreeingIs
<1>5. /\ OnePlace' /\ InContext'
      /\ \A m \in Nde!Msgs : freed'[m] = 0 => freed[m] = 0
  <2>1. acc'.pc # "put" /\ acc.pc # "put"
    BY <1>2
  <2>2. \A d \in Nde!Contexts :
            /\ context'[d].queue = context[d].queue
            /\ context'[d].head = IF d = c THEN NoOne ELSE context[d].head
    BY <1>3
  <2> QED
    BY <1>1, <1>2, <1>4, <2>1, <2>2, HeadDeleted
<1>6. \/ removal' = removal
      \/ /\ removal' \in RemovalRecord /\ context[c].disp
         /\ removal'.of = c /\ removal'.pc = "signal" /\ removal'.left = Threads[c]
  <2>1. removal' = removal \/ (context[c].disp /\ removal' = Nde!Removing(c))
    BY DEF Nde!DestroyContext
  <2> QED
    BY <2>1, RemovingIs
<1>7. NodeTypes'
  BY <1>2, <1>3, <1>4, <1>6 DEF NodeInv, NodeTypes
<1>8. AtWork'
  BY <1>2, <1>3, KindsKept, NodeHome DEF NodeInv, AtWork
<1>9. Removals'
  <2>1. CASE removal' = removal
    BY <1>2, <2>1 DEF Removals
  <2>2. CASE /\ removal' \in RemovalRecord /\ context[c].disp
             /\ removal'.of = c /\ removal'.pc = "signal" /\ removal'.left = Threads[c]
    BY <1>2, <1>3, <2>2 DEF Removals
  <2> QED
    BY <1>6, <2>1, <2>2
<1>10. Control'
  <2>1. context'[0].disp = context[0].disp /\ context'[0].handlers = context[0].handlers
    BY <1>3, NodeHome
  <2> QED
    BY <1>2, <1>5, <2>1, ControlSame
<1>11. ExitKept'
  BY <1>2, ExitSame, SameShutdowns
<1> QED
  BY <1>5, <1>7, <1>8, <1>9, <1>10, <1>11 DEF NodeInv

-----------------------------------------------------------------------------
\* A new node has received nothing, and its control context has its handler.
LEMMA NodeStarts ==
    ASSUME Nde!NodeConstants, Nde!NodeInit
    PROVE  NodeInv
<1>1. 0 \in Nde!Contexts /\ Reply # 0
  BY NodeHome
<1>2. PICK r : r = Nde!NoContext
  OBVIOUS
<1>3. /\ r \in ContextRecord
      /\ ~r.disp /\ r.handlers = {} /\ r.queue = <<>> /\ r.head = NoOne
  BY <1>2 DEF Nde!NoContext, ContextRecord
<1>4. PICK s \in ContextRecord : s = [r EXCEPT !.disp = TRUE, !.handlers = {"Control"}]
  <2>1. [r EXCEPT !.disp = TRUE, !.handlers = {"Control"}] \in ContextRecord
    BY <1>3 DEF ContextRecord
  <2> QED
    BY <2>1
<1>5. s.disp /\ s.handlers = {"Control"} /\ s.queue = <<>> /\ s.head = NoOne
  BY <1>3, <1>4 DEF ContextRecord
<1> USE DEF Nde!NodeInit
<1>6. /\ context \in [Nde!Contexts -> ContextRecord]
      /\ context[0] = s
      /\ \A c \in Nde!Contexts : context[c].queue = <<>> /\ context[c].head = NoOne
  <2>1. context = [c \in Nde!Contexts |-> IF c = 0 THEN s ELSE r]
    BY <1>2, <1>4
  <2> QED
    BY <1>1, <1>3, <1>5, <2>1
<1>7. PICK t \in ThreadRecord : t = Nde!NoThread
  BY DEF Nde!NoThread, ThreadRecord
<1>8. t.pc = "none" /\ t.msg = NoOne
  BY <1>7 DEF Nde!NoThread
<1>9. PICK u : u = [t EXCEPT !.pc = "get"]
  OBVIOUS
<1>10. u \in ThreadRecord /\ u.pc = "get" /\ u.msg = NoOne
  BY <1>8, <1>9 DEF ThreadRecord
<1>11. /\ work \in [Nde!ThreadNames -> ThreadRecord]
       /\ \A v \in Nde!ThreadNames :
              work[v].msg = NoOne /\ work[v].pc = IF Nde!Home(v) = 0 THEN "get" ELSE "none"
  <2>1. work = [v \in Nde!ThreadNames |-> IF Nde!Home(v) = 0 THEN u ELSE t]
    BY <1>7, <1>9 DEF Nde!NewThread
  <2> QED
    BY <1>8, <1>10, <2>1
<1>12. acc \in AccRecord /\ acc.pc = "get"
  BY DEF Nde!NextMessage, AccRecord
<1>13. removal \in RemovalRecord /\ removal.pc = "idle"
  BY DEF Nde!NoRemoval, RemovalRecord
<1>14. /\ ctl \in CtlRecord /\ ctl.life = "up" /\ ctl.entry
       /\ ctl.exit = 0 /\ ~ctl.waited
  BY DEF CtlRecord
<1>15. /\ hist \in HistRecord /\ hist.lost = {} /\ hist.failed = {}
       /\ \A m \in Nde!Msgs : hist.acted[m] = 0
  <2>1. PICK a : a = [m \in Nde!Msgs |-> 0]
    OBVIOUS
  <2>2. a \in [Nde!Msgs -> Nat] /\ \A m \in Nde!Msgs : a[m] = 0
    BY <2>1
  <2>3. hist = [lost |-> {}, acted |-> a, failed |-> {}]
    BY <2>1
  <2> QED
    BY <2>2, <2>3 DEF HistRecord
<1>16. freed \in [Nde!Msgs -> Nat] /\ \A m \in Nde!Msgs : freed[m] = 0
  OBVIOUS
<1>17. received \in Seq(MsgKinds) /\ Len(received) = 0 /\ DOMAIN received = {}
  OBVIOUS
<1>18. Nde!Shutdowns = {} /\ ~Nde!Signalling
  BY <1>11, <1>17 DEF Nde!Shutdowns, Nde!Signalling
<1>19. NodeTypes
  BY <1>6, <1>11, <1>12, <1>13, <1>14, <1>15, <1>16, <1>17
     DEF NodeTypes, Nde!NodeConstants
<1>20. OnePlace
  <2>1. \A m \in Nde!Msgs : m # NoOne /\ IsAt(m, Gone)
    BY <1>6, <1>11, <1>12, <1>15 DEF IsAt, Gone, Nde!NodeConstants
  <2>2. Gone \in SomePlaces
    BY DEF SomePlaces
  <2> QED
    BY <1>16, <1>17, <2>1, <2>2 DEF OnePlace
<1>21. InContext
  BY <1>6 DEF InContext
<1>22. AtWork
  BY <1>5, <1>6, <1>11 DEF AtWork
<1>23. Removals
  BY <1>12, <1>13 DEF Removals
<1>24. Control
  BY <1>5, <1>6, <1>14, <1>15, <1>16, <1>17 DEF Control
<1>25. ExitKept
  BY <1>11, <1>14, <1>18 DEF ExitKept
<1> QED
  BY <1>19, <1>20, <1>21, <1>22, <1>23, <1>24, <1>25 DEF NodeInv

\* Every step of the node keeps the invariant.
LEMMA NodeSteps ==
    ASSUME Nde!NodeConstants, NodeInv, [Nde!NodeNext]_Nde!vars
    PROVE  NodeInv'
<1>1. ASSUME NEW v \in Nde!ThreadNames, Nde!Handle(v)
      PROVE  NodeInv'
  BY <1>1, GetStep, ThreadPollStep, CopyHandlersStep, RunHandlerStep, StartSyncStep,
     SignalExitStep, SignalExitFlagStep, FlushAddrCacheStep, AddressAddStep
     DEF Nde!Handle
<1>2. CASE UNCHANGED Nde!vars
  <2>1. /\ received' = received /\ context' = context /\ work' = work /\ acc' = acc
        /\ removal' = removal /\ ctl' = ctl /\ freed' = freed /\ hist' = hist
    BY <1>2 DEF Nde!vars
  <2>2. NodeTypes'
    BY <2>1 DEF NodeInv, NodeTypes
  <2>3. OnePlace'
    BY <2>1, PlacesSame
  <2>4. InContext' /\ AtWork' /\ Removals'
    BY <2>1, KindsKept DEF NodeInv, InContext, AtWork, Removals
  <2>5. Control'
    BY <2>1, ControlSame DEF Nde!Flushing
  <2>6. ExitKept'
    BY <2>1, ExitSame, SameShutdowns
  <2> QED
    BY <2>2, <2>3, <2>4, <2>5, <2>6 DEF NodeInv
<1>3. CASE Nde!NodeNext
  BY <1>1, <1>3, CompleteStep, StoreStep, SubmitStep, RemoveContextStep, ShutdownStep,
     ExitReqStep, JoinedStep, RemovedStep, RegisterHandlerStep, RemoveHandlerStep,
     NodeOnlyStep, StopAccumStep, DestroyContextStep
     DEF Nde!NodeNext
<1> QED
  BY <1>2, <1>3

\* One place is one member of Places, and the invariant says what was to be shown.
LEMMA ActedOnAtLast ==
    ASSUME Nde!NodeConstants, NodeInv
    PROVE  Nde!ControlIsActedOn
<1>1. \A S : Nde!Cardinality(S) = Cardinality(S)
  BY DEF Nde!Cardinality, Cardinality
<1>2. ASSUME NEW m \in DOMAIN received
      PROVE  Nde!Cardinality(Nde!Places(m)) + freed[m] = 1
  <2>1. m \in Nde!Msgs
    BY Placed
  <2>2. PICK p \in SomePlaces :
           IsAt(m, p) /\ freed[m] = IF p = Gone THEN 1 ELSE 0
    BY <2>1 DEF NodeInv, OnePlace
  <2>3. ASSUME NEW x \in Nde!Places(m) PROVE x = p /\ p # Gone
    <3>1. CASE \E c \in Nde!Contexts : x = <<"head", c>> /\ context[c].head = m
      BY <2>2, <3>1 DEF IsAt, Gone
    <3>2. CASE \E c \in Nde!Contexts : x = <<"queue", c>> /\ m \in Nde!ToSet(context[c].queue)
      BY <2>2, <3>2 DEF IsAt, Gone, Nde!ToSet
    <3>3. CASE \E v \in Nde!ThreadNames : x = <<"thread", v>> /\ work[v].msg = m
      BY <2>2, <3>3 DEF IsAt, Gone
    <3>4. CASE x = <<"acc", 0>> /\ acc.pc = "put" /\ acc.msg = m
      BY <2>2, <3>4 DEF IsAt, Gone
    <3>5. CASE x = <<"lost", 0>> /\ m \in hist.lost
      BY <2>2, <3>5 DEF IsAt, Gone
    <3> QED
      BY <2>3, <3>1, <3>2, <3>3, <3>4, <3>5 DEF Nde!Places
  <2>4. p # Gone => p \in Nde!Places(m)
    <3>1. CASE \E c \in Nde!Contexts : p = <<"head", c>>
      BY <2>2, <3>1 DEF IsAt, Nde!Places
    <3>2. CASE \E c \in Nde!Contexts : p = <<"queue", c>>
      <4>1. PICK c \in Nde!Contexts : p = <<"queue", c>>
        BY <3>2
      <4>2. m \in Nde!ToSet(context[c].queue)
        BY <2>2, <4>1 DEF IsAt, Nde!ToSet
      <4> QED
        BY <4>1, <4>2 DEF Nde!Places
    <3>3. CASE \E v \in Nde!ThreadNames : p = <<"thread", v>>
      BY <2>2, <3>3 DEF IsAt, Nde!Places
    <3>4. CASE p = <<"acc", 0>> \/ p = <<"lost", 0>>
      BY <2>2, <3>4 DEF IsAt, Nde!Places
    <3> QED
      BY <3>1, <3>2, <3>3, <3>4 DEF SomePlaces
  <2>5. CASE p = Gone
    <3>1. Nde!Places(m) = {}
      BY <2>3, <2>5
    <3>2. Cardinality({}) = 0
      BY FS_EmptySet
    <3> QED
      BY <1>1, <2>2, <2>5, <3>1, <3>2
  <2>6. CASE p # Gone
    <3>1. Nde!Places(m) = {p}
      BY <2>3, <2>4, <2>6
    <3>2. Cardinality({p}) = 1
      BY FS_Singleton
    <3> QED
      BY <1>1, <2>2, <2>6, <3>1, <3>2
  <2> QED
    BY <2>5, <2>6
<1>3. ASSUME Nde!Cardinality(Nde!Shutdowns) = 1, ~Nde!Signalling
      PROVE  ctl.flag /\ (ctl.exit = 1 \/ ctl.waited)
  <2>1. IsFiniteSet(1 .. Len(received))
    BY Placed, FS_Interval
  <2>2. IsFiniteSet(Nde!Shutdowns)
    BY <2>1, Placed, FS_Subset DEF Nde!Shutdowns
  <2>3. PICK m : Nde!Shutdowns = {m}
    BY <1>1, <1>3, <2>2, FS_Singleton
  <2>4. m \in Nde!Msgs
    BY <2>3, Placed DEF Nde!Shutdowns
  <2> QED
    BY <1>3, <2>3, <2>4 DEF NodeInv, ExitKept
<1>4. ctl.life = "up" =>
         /\ \A m \in hist.lost : Nde!ContextOf(m) = Reply
         /\ \A m \in DOMAIN received : Nde!ContextOf(m) = 0 /\ freed[m] = 1 =>
               hist.acted[m] = IF m \in hist.failed THEN 0 ELSE 1
         /\ ctl.entry \/ Nde!Flushing
  BY DEF NodeInv, Control
<1>5. \A v \in Nde!ThreadNames : work[v].pc # "none" => context[Nde!Home(v)].disp
  BY DEF NodeInv, AtWork
<1> QED
  BY <1>2, <1>3, <1>4, <1>5 DEF Nde!ControlIsActedOn

\* A node acts, once, on every control event that it takes and can hold, and loses
\* no message but a reply whose context is removed; the first shutdown shows in
\* CheckForExit and in WaitForExit, the resolver node is in the address cache or on
\* its way back, and no dispatch thread outlives its dispatcher (IpcNode's control
\* handler, IpcContext and the destructors of both).
THEOREM NodesActOnControl ==
    ASSUME Nde!NodeConstants
    PROVE  Nde!NodeSpec => []ControlIsActedOn
<1>1. Nde!NodeInit => NodeInv
  BY NodeStarts
<1>2. NodeInv /\ [Nde!NodeNext]_Nde!vars => NodeInv'
  BY NodeSteps
<1>3. NodeInv => ControlIsActedOn
  BY ActedOnAtLast DEF ControlIsActedOn
<1> QED
  BY <1>1, <1>2, <1>3, PTL DEF Nde!NodeSpec
=============================================================================
