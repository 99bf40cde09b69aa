------------------------------ MODULE Dispatch ------------------------------
(***************************************************************************)
(* cp::Dispatch (cpDispatch.cpp): dispatch threads take events from one    *)
(* queue and run the registered handlers on them.  The event queue is the  *)
(* atomic queue that ItcQueue implements (module BoundedFifo), a dispatch  *)
(* thread is a Thread whose destructor waits for the user function (module *)
(* Thread), and the stack mutex covers the handlers and the threads.       *)
(* "owner" deletes the object; "setter" is another thread that changes the *)
(* number of dispatch threads, perhaps while the destructor runs.          *)
(***************************************************************************)
EXTENDS Naturals, FiniteSets, Sequences, SequencesExt

CONSTANTS Workers,   \* names for dispatch threads
          Events,    \* each is submitted at most once
          Handlers,  \* event handler functions
          Depth      \* EventQueueDepth

ASSUME DispatchAssumption ==
    /\ IsFiniteSet(Workers) /\ IsFiniteSet(Events)
    /\ Depth \in Nat \ {0}

CONSTANTS ShutdownEvent, NoEvent, Free
ASSUME SpecialEvents == {ShutdownEvent, NoEvent} \cap Events = {}

Admins == {"owner", "setter"}
ASSUME FreeIsNobody == Free \notin Admins

VARIABLES handlers,    \* m_Handlers
          threads,     \* m_Threads
          mayCreate,   \* general purpose flag 1 of m_EventQueue
          mutex,       \* the holder of m_StackMutex between steps, or Free
          queue,       \* m_EventQueue
          state,       \* what has become of each event
          exitFlag,    \* exit has been requested of the worker
          held,        \* pDispEvent of each worker
          todo,        \* the part of its copy of m_Handlers a worker has to run
          wpc,         \* where each worker is in ThreadFunction
          target,      \* the argument of NumThreadsSet
          signals,     \* Shutdown calls the destructor has still to make
          apc          \* where the owner and the setter are

worker == <<exitFlag, held, todo, wpc>>
admin == <<target, signals, apc>>
vars == <<handlers, threads, mayCreate, mutex, queue, state, worker, admin>>

Closing == apc["owner"] # "idle"
Deleted == apc["owner"] = "deleted"

\* The thread that NumThreadsSet deletes: m_Threads.back().
Back == threads[Len(threads)]

Init ==
    /\ handlers = <<>>
    /\ threads = <<>>
    /\ mayCreate = TRUE
    /\ mutex = Free
    /\ queue = <<>>
    /\ state = [e \in Events |-> "new"]
    /\ exitFlag = [w \in Workers |-> FALSE]
    /\ held = [w \in Workers |-> NoEvent]
    /\ todo = [w \in Workers |-> <<>>]
    /\ wpc = [w \in Workers |-> "none"]
    /\ target = [a \in Admins |-> 0]
    /\ signals = 0
    /\ apc = [a \in Admins |-> "idle"]

-----------------------------------------------------------------------------
\* The clients.  When Put fails, SubmitEvent and Shutdown delete the dispatch
\* event again and nothing has changed; the client may submit it once more.
SubmitEvent(e) ==
    /\ ~Closing
    /\ state[e] = "new"
    /\ Len(queue) < Depth
    /\ queue' = Append(queue, e)
    /\ state' = [state EXCEPT ![e] = "accepted"]
    /\ UNCHANGED <<handlers, threads, mayCreate, mutex, worker, admin>>

Shutdown ==
    /\ ~Closing
    /\ Len(queue) < Depth
    /\ queue' = Append(queue, ShutdownEvent)
    /\ UNCHANGED <<handlers, threads, mayCreate, mutex, state, worker, admin>>

\* Mutant: a handler that is already registered is added again.
EventHandlerAdd_NoSearch(h) ==
    /\ ~Deleted
    /\ mutex = Free
    /\ Len(handlers) <= Cardinality(Handlers)
    /\ handlers' = Append(handlers, h)
    /\ UNCHANGED <<threads, mayCreate, mutex, queue, state, worker, admin>>

EventHandlerAdd(h) ==
    /\ ~Deleted
    /\ mutex = Free
    /\ h \notin ToSet(handlers)
    /\ handlers' = Append(handlers, h)
    /\ UNCHANGED <<threads, mayCreate, mutex, queue, state, worker, admin>>

\* The first entry with the handler is erased.
EventHandlerDel(h) ==
    /\ ~Deleted
    /\ mutex = Free
    /\ \E i \in DOMAIN handlers :
           /\ handlers[i] = h /\ \A j \in 1 .. i - 1 : handlers[j] # h
           /\ handlers' = RemoveAt(handlers, i)
    /\ UNCHANGED <<threads, mayCreate, mutex, queue, state, worker, admin>>

-----------------------------------------------------------------------------
\* NumThreadsSet.  The setter's first call stands for the constructor's.
NumThreadsSet(n) ==
    /\ ~Closing
    /\ apc["setter"] = "idle"
    /\ target' = [target EXCEPT !["setter"] = n]
    /\ apc' = [apc EXCEPT !["setter"] = "lock"]
    /\ UNCHANGED <<handlers, threads, mayCreate, mutex, queue, state, worker,
                   signals>>

\* Where a call of NumThreadsSet returns to.
Return(a) == apc' = [apc EXCEPT ![a] = IF a = "owner" THEN "deleted" ELSE "idle"]

\* n new threads, under names that no thread has.
NewThreads(n) == SubSeq(SetToSeq({w \in Workers : wpc[w] = "none"}), 1, n)

\* Mutant: threads are created whatever the flag says.
CreateThreads_NoFlag(a) ==
    /\ apc[a] = "lock" /\ mutex = Free
    /\ target[a] >= Len(threads)
    /\ LET new == NewThreads(target[a] - Len(threads))
       IN  /\ threads' = threads \o new
           /\ wpc' = [w \in Workers |-> IF w \in ToSet(new) THEN "poll" ELSE wpc[w]]
           /\ exitFlag' = [w \in Workers |-> exitFlag[w] /\ w \notin ToSet(new)]
    /\ Return(a)
    /\ UNCHANGED <<handlers, mayCreate, mutex, queue, state, held, todo,
                   target, signals>>

\* The new threads are at the back of m_Threads.
CreateThreads(a) ==
    /\ apc[a] = "lock" /\ mutex = Free
    /\ target[a] >= Len(threads)
    /\ LET new == IF mayCreate THEN NewThreads(target[a] - Len(threads)) ELSE <<>>
       IN  /\ threads' = threads \o new
           /\ wpc' = [w \in Workers |-> IF w \in ToSet(new) THEN "poll" ELSE wpc[w]]
           /\ exitFlag' = [w \in Workers |-> exitFlag[w] /\ w \notin ToSet(new)]
    /\ Return(a)
    /\ UNCHANGED <<handlers, mayCreate, mutex, queue, state, held, todo,
                   target, signals>>

\* Mutant: only the shutdown event asks the thread to exit.
DeleteBegin_NoExitReq(a) ==
    /\ \/ apc[a] = "lock" /\ mutex = Free
       \/ apc[a] = "delete"
    /\ target[a] < Len(threads)
    /\ mutex' = a
    /\ apc' = [apc EXCEPT ![a] = "join"]
    /\ UNCHANGED <<handlers, threads, mayCreate, queue, state, worker, target,
                   signals>>

\* delete m_Threads.back(), in ~Thread: ExitReq ...
DeleteBegin(a) ==
    /\ \/ apc[a] = "lock" /\ mutex = Free
       \/ apc[a] = "delete"
    /\ target[a] < Len(threads)
    /\ mutex' = a
    /\ exitFlag' = [exitFlag EXCEPT ![Back] = TRUE]
    /\ apc' = [apc EXCEPT ![a] = "join"]
    /\ UNCHANGED <<handlers, threads, mayCreate, queue, state, held, todo, wpc,
                   target, signals>>

\* ... and m_SemExit.Take(); then m_Threads.pop_back().
DeleteEnd(a) ==
    /\ apc[a] = "join"
    /\ wpc[Back] = "exited"
    /\ wpc' = [wpc EXCEPT ![Back] = "none"]
    /\ threads' = Front(threads)
    /\ apc' = [apc EXCEPT ![a] = "delete"]
    /\ UNCHANGED <<handlers, mayCreate, mutex, queue, state, exitFlag, held, todo,
                   target, signals>>

NumThreadsEnd(a) ==
    /\ apc[a] = "delete"
    /\ target[a] = Len(threads)
    /\ mutex' = Free
    /\ Return(a)
    /\ UNCHANGED <<handlers, threads, mayCreate, queue, state, worker, target,
                   signals>>

-----------------------------------------------------------------------------
\* The destructor: no more threads, one Shutdown per thread, NumThreadsSet(0).
DtorBegin ==
    /\ apc["owner"] = "idle"
    /\ mutex = Free
    /\ mayCreate' = FALSE
    /\ signals' = Len(threads)
    /\ apc' = [apc EXCEPT !["owner"] = "signal"]
    /\ UNCHANGED <<handlers, threads, mutex, queue, state, worker, target>>

\* Shutdown's Put succeeds, or gives up after k_DefaultTimeout.
DtorShutdown ==
    /\ apc["owner"] = "signal"
    /\ signals > 0
    /\ signals' = signals - 1
    /\ \/ /\ Len(queue) < Depth
          /\ queue' = Append(queue, ShutdownEvent)
       \/ UNCHANGED queue
    /\ UNCHANGED <<handlers, threads, mayCreate, mutex, state, worker, target, apc>>

DtorDelete ==
    /\ apc["owner"] = "signal"
    /\ signals = 0
    /\ target' = [target EXCEPT !["owner"] = 0]
    /\ apc' = [apc EXCEPT !["owner"] = "lock"]
    /\ UNCHANGED <<handlers, threads, mayCreate, mutex, queue, state, worker, signals>>

-----------------------------------------------------------------------------
\* ThreadFunction of worker w.
WorkerGoto(w, step) == wpc' = [wpc EXCEPT ![w] = step]

ThreadPoll(w) ==
    /\ wpc[w] = "poll"
    /\ WorkerGoto(w, IF exitFlag[w] THEN "exited" ELSE "get")
    /\ UNCHANGED <<handlers, threads, mayCreate, mutex, queue, state, exitFlag,
                   held, todo, admin>>

\* Mutant: the event stays in the queue.
GetEvent_Peek(w) ==
    /\ wpc[w] = "get"
    /\ queue # <<>>
    /\ held' = [held EXCEPT ![w] = Head(queue)]
    /\ UNCHANGED queue
    /\ WorkerGoto(w, IF Head(queue) = ShutdownEvent THEN "shutdown" ELSE "lock")
    /\ UNCHANGED <<handlers, threads, mayCreate, mutex, state, exitFlag, todo,
                   admin>>

\* Mutant: a worker whose exit was requested meanwhile leaves with the event.
GetEvent_TestExit(w) ==
    /\ wpc[w] = "get"
    /\ queue # <<>>
    /\ held' = [held EXCEPT ![w] = Head(queue)]
    /\ queue' = Tail(queue)
    /\ WorkerGoto(w, IF exitFlag[w] THEN "exited"
                     ELSE IF Head(queue) = ShutdownEvent THEN "shutdown" ELSE "lock")
    /\ UNCHANGED <<handlers, threads, mayCreate, mutex, state, exitFlag, todo,
                   admin>>

GetEvent(w) ==
    /\ wpc[w] = "get"
    /\ queue # <<>>
    /\ held' = [held EXCEPT ![w] = Head(queue)]
    /\ queue' = Tail(queue)
    /\ WorkerGoto(w, IF Head(queue) = ShutdownEvent THEN "shutdown" ELSE "lock")
    /\ UNCHANGED <<handlers, threads, mayCreate, mutex, state, exitFlag, todo,
                   admin>>

\* m_EventQueue.Get gives up after k_ReceiveTimeout.
GetTimeout(w) ==
    /\ wpc[w] = "get"
    /\ WorkerGoto(w, "poll")
    /\ UNCHANGED <<handlers, threads, mayCreate, mutex, queue, state, exitFlag,
                   held, todo, admin>>

\* The pre-dispatch handler has run; lock, copy the handlers, unlock.
CopyHandlers(w) ==
    /\ wpc[w] = "lock"
    /\ mutex = Free
    /\ todo' = [todo EXCEPT ![w] = handlers]
    /\ WorkerGoto(w, "run")
    /\ UNCHANGED <<handlers, threads, mayCreate, mutex, queue, state, exitFlag,
                   held, admin>>

RunHandler(w) ==
    /\ wpc[w] = "run"
    /\ todo[w] # <<>>
    /\ todo' = [todo EXCEPT ![w] = Tail(@)]
    /\ UNCHANGED <<handlers, threads, mayCreate, mutex, queue, state, exitFlag,
                   held, wpc, admin>>

\* After the post-dispatch handler, or ExitReq for opc_Shutdown, the worker
\* deletes the event.
FinishEvent(w) ==
    /\ \/ wpc[w] = "run" /\ todo[w] = <<>>
       \/ wpc[w] = "shutdown"
    /\ exitFlag' = [exitFlag EXCEPT ![w] = @ \/ wpc[w] = "shutdown"]
    /\ state' = [e \in Events |-> IF e = held[w] THEN "dispatched" ELSE state[e]]
    /\ held' = [held EXCEPT ![w] = NoEvent]
    /\ WorkerGoto(w, "poll")
    /\ UNCHANGED <<handlers, threads, mayCreate, mutex, queue, todo, admin>>

ThreadFunction(w) ==
    \/ ThreadPoll(w) \/ GetEvent(w)
    \/ CopyHandlers(w) \/ RunHandler(w) \/ FinishEvent(w)

-----------------------------------------------------------------------------
Admin(a) ==
    CreateThreads(a) \/ DeleteBegin(a) \/ DeleteEnd(a) \/ NumThreadsEnd(a)

Destructor == DtorShutdown \/ DtorDelete \/ Admin("owner")

Next ==
    \/ \E e \in Events : SubmitEvent(e)
    \/ Shutdown
    \/ \E h \in Handlers : EventHandlerAdd(h) \/ EventHandlerDel(h)
    \/ \E n \in 0 .. Cardinality(Workers) : NumThreadsSet(n)
    \/ \E a \in Admins : Admin(a)
    \/ DtorBegin \/ DtorShutdown \/ DtorDelete
    \/ \E w \in Workers : ThreadFunction(w) \/ GetTimeout(w)

\* An actor that can go on again and again does (it may find the stack mutex
\* locked now and then), a handler returns, and a queue that is never empty is
\* served.
Fairness ==
    /\ \A w \in Workers : SF_vars(ThreadFunction(w) \/ GetTimeout(w))
    /\ SF_vars(\E w \in Workers : GetEvent(w))
    /\ SF_vars(Admin("setter"))
    /\ SF_vars(Destructor)

Spec == Init /\ [][Next]_vars /\ Fairness

-----------------------------------------------------------------------------
\* Types, and no handler is registered twice.
TypeOK ==
    /\ handlers \in Seq(Handlers) /\ IsInjective(handlers)
    /\ threads \in Seq(Workers) /\ IsInjective(threads)
    /\ mayCreate \in BOOLEAN
    /\ mutex \in Admins \cup {Free}
    /\ queue \in Seq(Events \cup {ShutdownEvent}) /\ Len(queue) <= Depth
    /\ state \in [Events -> {"new", "accepted", "dispatched"}]
    /\ exitFlag \in [Workers -> BOOLEAN]
    /\ held \in [Workers -> Events \cup {ShutdownEvent, NoEvent}]
    /\ todo \in [Workers -> Seq(Handlers)]
    /\ wpc \in [Workers -> {"none", "poll", "get", "lock", "run", "shutdown",
                            "exited"}]
    /\ target \in [Admins -> Nat]
    /\ signals \in Nat
    /\ apc \in [Admins -> {"idle", "lock", "join", "delete", "signal", "deleted"}]

\* An event that SubmitEvent accepted is in the queue or with one worker until
\* it is deleted, and in one place only: no two workers run handlers on it, and
\* none is lost while threads come and go.
EventInOnePlace ==
    \A e \in Events :
        Cardinality({i \in DOMAIN queue : queue[i] = e})
            + Cardinality({w \in Workers : held[w] = e})
        = IF state[e] = "accepted" THEN 1 ELSE 0

\* When the destructor returns no dispatch thread is left that could use the
\* object, even if NumThreadsSet ran at the same time: flag 1 keeps that call
\* from creating a thread once the destructor has counted them.
NoThreadAfterDelete ==
    Deleted => threads = <<>> /\ \A w \in Workers : wpc[w] = "none"

\* The thread that is being deleted, with the stack mutex locked, waits for the
\* stack mutex.
WaitsForEachOther ==
    \E a \in Admins : apc[a] = "join" /\ wpc[Back] = "lock"

\* An accepted event is dispatched as long as a dispatch thread stays: a
\* shutdown event or an exit request stops one thread only and loses no event.
AcceptedIsDispatched ==
    \A e \in Events : state[e] = "accepted" ~>
        \/ state[e] = "dispatched"
        \/ \A w \in Workers : wpc[w] \in {"none", "exited"}
        \/ WaitsForEachOther

\* The destructor returns, except for that deadlock.
DestructorReturns == Closing ~> Deleted \/ WaitsForEachOther

\* What the destructor says of its last call: it deletes the dispatch threads.
DeletesThreads == Closing ~> Deleted

=============================================================================
