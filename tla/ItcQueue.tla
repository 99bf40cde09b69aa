------------------------------ MODULE ItcQueue ------------------------------
(***************************************************************************)
(* cp::ItcQueue (cpItcQueue.cpp): a bounded queue between threads, made of *)
(* a deque under a mutex, a semaphore counting free slots and a semaphore  *)
(* counting elements.  The semaphores are used as module Semaphore         *)
(* specifies them, which SemLite is shown to implement.  All threads may   *)
(* both put and get, with or without a timeout.                            *)
(***************************************************************************)
EXTENDS Naturals, Sequences, FiniteSets

CONSTANTS Threads, Elements,
          Depth,        \* MaxEntries of the constructor
          NoElement,    \* an Element reference that holds nothing yet
          Free          \* the mutex's holder when it has none

ASSUME ItcQueueAssumption ==
    /\ IsFiniteSet(Threads)
    /\ Depth \in Nat \ {0}
    /\ NoElement \notin Elements
    /\ Free \notin Threads

VARIABLES semPut,   \* tokens of m_SemPut: free slots
          semGet,   \* tokens of m_SemGet: announced elements
          mutex,    \* the holder of m_Mutex
          queue,    \* m_Queue
          pc,       \* where each thread is in Put or Get
          timed,    \* whether the call has a finite timeout
          element   \* the call's Element argument

vars == <<semPut, semGet, mutex, queue, pc, timed, element>>

Resting == {"none", "putDone", "got", "failed"}
PutSteps == {"putTake", "putLock", "putGive"}
GetSteps == {"getTake", "getLock", "getGive"}

Standing(where, step) == {t \in Threads : where[t] = step}
At(step) == Standing(pc, step)

Init ==
    /\ semPut = Depth
    /\ semGet = 0
    /\ mutex = Free
    /\ queue = <<>>
    /\ pc = [t \in Threads |-> "none"]
    /\ timed = [t \in Threads |-> FALSE]
    /\ element = [t \in Threads |-> NoElement]

\* SemLite::Give: a token more, unless the limit drops it.
Given(tokens) == IF tokens < Depth THEN tokens + 1 ELSE tokens

Goto(t, step) == pc' = [pc EXCEPT ![t] = step]

PutCall(t) ==
    /\ pc[t] \in Resting
    /\ Goto(t, "putTake")
    /\ \E b \in BOOLEAN : timed' = [timed EXCEPT ![t] = b]
    /\ \E e \in Elements : element' = [element EXCEPT ![t] = e]
    /\ UNCHANGED <<semPut, semGet, mutex, queue>>

GetCall(t) ==
    /\ pc[t] \in Resting
    /\ Goto(t, "getTake")
    /\ \E b \in BOOLEAN : timed' = [timed EXCEPT ![t] = b]
    /\ element' = [element EXCEPT ![t] = NoElement]
    /\ UNCHANGED <<semPut, semGet, mutex, queue>>

\* Mutant: Put goes on although its Take did not get a slot.
PutTake_Unchecked(t) ==
    /\ pc[t] = "putTake"
    /\ semPut' = semPut - 1
    /\ Goto(t, "putLock")
    /\ UNCHANGED <<semGet, mutex, queue, timed, element>>

\* m_SemPut.Take(Timeout) returns true.
PutTake(t) ==
    /\ pc[t] = "putTake"
    /\ semPut > 0
    /\ semPut' = semPut - 1
    /\ Goto(t, "putLock")
    /\ UNCHANGED <<semGet, mutex, queue, timed, element>>

\* m_SemGet.Take(Timeout) returns true.
GetTake(t) ==
    /\ pc[t] = "getTake"
    /\ semGet > 0
    /\ semGet' = semGet - 1
    /\ Goto(t, "getLock")
    /\ UNCHANGED <<semPut, mutex, queue, timed, element>>

\* Mutant: Get does not look at what Take returned.
TakeTimeout_Unchecked(t) ==
    /\ pc[t] \in {"putTake", "getTake"}
    /\ timed[t]
    /\ Goto(t, IF pc[t] = "getTake" THEN "getLock" ELSE "failed")
    /\ timed' = [timed EXCEPT ![t] = FALSE]
    /\ element' = [element EXCEPT ![t] = NoElement]
    /\ UNCHANGED <<semPut, semGet, mutex, queue>>

\* Either Take times out: the call returns false and has touched nothing.
TakeTimeout(t) ==
    /\ pc[t] \in {"putTake", "getTake"}
    /\ timed[t]
    /\ Goto(t, "failed")
    /\ timed' = [timed EXCEPT ![t] = FALSE]
    /\ element' = [element EXCEPT ![t] = NoElement]
    /\ UNCHANGED <<semPut, semGet, mutex, queue>>

\* Mutant: the element is pushed to the front.
PutPush_Front(t) ==
    /\ pc[t] = "putLock"
    /\ mutex = Free
    /\ mutex' = t
    /\ queue' = <<element[t]>> \o queue
    /\ element' = [element EXCEPT ![t] = NoElement]
    /\ Goto(t, "putGive")
    /\ UNCHANGED <<semPut, semGet, timed>>

\* The mutex is locked and the element goes to the back.
PutPush(t) ==
    /\ pc[t] = "putLock"
    /\ mutex = Free
    /\ mutex' = t
    /\ queue' = Append(queue, element[t])
    /\ element' = [element EXCEPT ![t] = NoElement]
    /\ Goto(t, "putGive")
    /\ UNCHANGED <<semPut, semGet, timed>>

\* The element is announced, the mutex unlocked, and Put returns true.
PutGive(t) ==
    /\ pc[t] = "putGive"
    /\ semGet' = Given(semGet)
    /\ mutex' = Free
    /\ Goto(t, "putDone")
    /\ timed' = [timed EXCEPT ![t] = FALSE]
    /\ UNCHANGED <<semPut, queue, element>>

\* The mutex is locked and the front is taken, which is undefined on an empty
\* deque: no such step is modelled, and ElementForEachToken shows it needs none.
GetPop(t) ==
    /\ pc[t] = "getLock"
    /\ mutex = Free
    /\ queue # <<>>
    /\ mutex' = t
    /\ element' = [element EXCEPT ![t] = Head(queue)]
    /\ queue' = Tail(queue)
    /\ Goto(t, "getGive")
    /\ UNCHANGED <<semPut, semGet, timed>>

\* The slot is given back, the mutex unlocked, and Get returns true.
GetGive(t) ==
    /\ pc[t] = "getGive"
    /\ semPut' = Given(semPut)
    /\ mutex' = Free
    /\ Goto(t, "got")
    /\ timed' = [timed EXCEPT ![t] = FALSE]
    /\ UNCHANGED <<semGet, queue, element>>

Next ==
    \E t \in Threads :
        \/ PutCall(t) \/ PutTake(t) \/ PutPush(t) \/ PutGive(t)
        \/ GetCall(t) \/ GetTake(t) \/ GetPop(t) \/ GetGive(t)
        \/ TakeTimeout(t)

\* Each semaphore grants a token on offer to somebody (Semaphore's promise),
\* a free mutex goes to somebody who waits for it, and its holder goes on.
Fairness ==
    /\ WF_vars(\E t \in Threads : PutTake(t))
    /\ WF_vars(\E t \in Threads : GetTake(t))
    /\ WF_vars(\E t \in Threads : PutPush(t) \/ GetPop(t))
    /\ \A t \in Threads : WF_vars(PutGive(t) \/ GetGive(t))

Spec == Init /\ [][Next]_vars /\ Fairness

-----------------------------------------------------------------------------
\* The tokens, the queue and the callers have their types.
TypeOK ==
    /\ semPut \in 0 .. Depth
    /\ semGet \in 0 .. Depth
    /\ mutex \in Threads \cup {Free}
    /\ queue \in Seq(Elements)
    /\ pc \in [Threads -> Resting \cup PutSteps \cup GetSteps]
    /\ timed \in [Threads -> BOOLEAN]
    /\ element \in [Threads -> Elements \cup {NoElement}]
    /\ \A t \in At("putTake") \cup At("putLock") : element[t] \in Elements

\* A slot is free, reserved by a putter on its way, filled, or just emptied:
\* none leaks and none is used twice, whoever stops where in Put and Get.
SlotsConserved ==
    semPut + Cardinality(At("putLock")) + Len(queue)
        + Cardinality(At("getGive")) = Depth

\* Every token of m_SemGet, taken or not, stands for an element in the deque:
\* a getter that holds one never finds the deque empty.
ElementForEachToken ==
    semGet + Cardinality(At("getLock")) + Cardinality(At("putGive"))
        = Len(queue)

\* Both laws hold: whatever step a caller stands at or gives up from, Put and
\* Get leave as many slots and as many tokens as the deque has room and elements.
Conservation == SlotsConserved /\ ElementForEachToken

\* What a caller at a step of Put or Get is doing to the abstract queue.
OpAt(step, isTimed) ==
    IF step \in {"putTake", "putLock"} THEN IF isTimed THEN "timedPut" ELSE "put"
    ELSE IF step \in {"getTake", "getLock"} THEN IF isTimed THEN "timedGet" ELSE "get"
    ELSE IF step = "putGive" THEN "putDone"
    ELSE IF step = "getGive" THEN "got"
    ELSE step

OpView == [t \in Threads |-> OpAt(pc[t], timed[t])]

\* Put and Get act on a bounded FIFO, and it makes progress.
Abstract == INSTANCE BoundedFifo WITH fifo <- queue, op <- OpView, held <- element

ImplementsFifo == Abstract!FifoSpec

=============================================================================
