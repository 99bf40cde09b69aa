---------------------------- MODULE BoundedFifo ----------------------------
(***************************************************************************)
(* What a bounded first-in-first-out queue with timed calls promises: a    *)
(* successful put appends its element, a successful get removes the oldest *)
(* one, a failed call was timed and moves nothing.                         *)
(***************************************************************************)
EXTENDS Naturals, Sequences

CONSTANTS Threads, Elements, Depth, NoElement

VARIABLES fifo,    \* the elements in the queue, oldest first
          op,      \* what each caller is doing, or how its last call ended
          held     \* the element a caller wants to put, or got last

fvars == <<fifo, op, held>>

AtRest == {"none", "putDone", "got", "failed"}

FifoInit ==
    /\ fifo = <<>>
    /\ op = [t \in Threads |-> "none"]
    /\ held = [t \in Threads |-> NoElement]

RequestPut(t) ==
    /\ op[t] \in AtRest
    /\ \E how \in {"put", "timedPut"}, e \in Elements :
          /\ op' = [op EXCEPT ![t] = how]
          /\ held' = [held EXCEPT ![t] = e]
    /\ UNCHANGED fifo

RequestGet(t) ==
    /\ op[t] \in AtRest
    /\ \E how \in {"get", "timedGet"} : op' = [op EXCEPT ![t] = how]
    /\ held' = [held EXCEPT ![t] = NoElement]
    /\ UNCHANGED fifo

Enqueue(t) ==
    /\ op[t] \in {"put", "timedPut"}
    /\ Len(fifo) < Depth
    /\ fifo' = Append(fifo, held[t])
    /\ op' = [op EXCEPT ![t] = "putDone"]
    /\ held' = [held EXCEPT ![t] = NoElement]

Dequeue(t) ==
    /\ op[t] \in {"get", "timedGet"}
    /\ fifo # <<>>
    /\ fifo' = Tail(fifo)
    /\ op' = [op EXCEPT ![t] = "got"]
    /\ held' = [held EXCEPT ![t] = Head(fifo)]

GiveUp(t) ==
    /\ op[t] \in {"timedPut", "timedGet"}
    /\ op' = [op EXCEPT ![t] = "failed"]
    /\ held' = [held EXCEPT ![t] = NoElement]
    /\ UNCHANGED fifo

FifoNext ==
    \E t \in Threads :
        RequestPut(t) \/ RequestGet(t) \/ Enqueue(t) \/ Dequeue(t) \/ GiveUp(t)

FifoSafety == FifoInit /\ [][FifoNext]_fvars

\* A queue with room serves somebody who wants to put, and one with elements
\* somebody who wants to get.
FifoSpec ==
    /\ FifoSafety
    /\ WF_fvars(\E t \in Threads : Enqueue(t))
    /\ WF_fvars(\E t \in Threads : Dequeue(t))

=============================================================================
