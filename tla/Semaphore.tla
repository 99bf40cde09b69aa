----------------------------- MODULE Semaphore -----------------------------
(***************************************************************************)
(* What a counting semaphore with timed takes and a destructor promises to *)
(* its callers, whatever it is made of.  A call either takes one token or, *)
(* only when it was timed or the semaphore is closing, fails and takes     *)
(* none.                                                                   *)
(***************************************************************************)
EXTENDS Naturals

CONSTANTS Threads,    \* the callers
          InitCount,  \* tokens at construction
          MaxCount    \* the most tokens the semaphore may hold

VARIABLES count,      \* tokens available
          phase,      \* "open", "closing" (destructor entered) or "gone"
          call        \* what each caller is doing, or how its last call ended

svars == <<count, phase, call>>

Outside == {"none", "taken", "failed"}
Pending == {"forever", "timed"}

SemInit ==
    /\ count = InitCount
    /\ phase = "open"
    /\ call = [t \in Threads |-> "none"]

Request(t) ==
    /\ phase = "open"
    /\ call[t] \in Outside
    /\ \E how \in Pending : call' = [call EXCEPT ![t] = how]
    /\ UNCHANGED <<count, phase>>

\* A closing semaphore turns a new caller away.
Refuse(t) ==
    /\ phase = "closing"
    /\ call[t] \in Outside
    /\ call' = [call EXCEPT ![t] = "failed"]
    /\ UNCHANGED <<count, phase>>

Grant(t) ==
    /\ phase # "gone"
    /\ call[t] \in Pending
    /\ count > 0
    /\ count' = count - 1
    /\ call' = [call EXCEPT ![t] = "taken"]
    /\ UNCHANGED phase

GiveUp(t) ==
    /\ phase # "gone"
    /\ call[t] = "timed"
    /\ call' = [call EXCEPT ![t] = "failed"]
    /\ UNCHANGED <<count, phase>>

\* The caller's thread is cancelled inside the call.
Abandon(t) ==
    /\ phase # "gone"
    /\ call[t] \in Pending
    /\ call' = [call EXCEPT ![t] = "dead"]
    /\ UNCHANGED <<count, phase>>

Release ==
    /\ phase # "gone"
    /\ count < MaxCount
    /\ count' = count + 1
    /\ UNCHANGED <<phase, call>>

ReleaseAll ==
    /\ phase # "gone"
    /\ count' = MaxCount
    /\ UNCHANGED <<phase, call>>

Close ==
    /\ \/ phase = "open" /\ phase' = "closing"
       \/ phase = "closing" /\ phase' = "gone"
    /\ UNCHANGED <<count, call>>

SemNext ==
    \/ \E t \in Threads :
          Request(t) \/ Refuse(t) \/ Grant(t) \/ GiveUp(t) \/ Abandon(t)
    \/ Release
    \/ ReleaseAll
    \/ Close

SemSafety == SemInit /\ [][SemNext]_svars

SemSpec == SemSafety /\ WF_svars(\E t \in Threads : Grant(t))

=============================================================================
