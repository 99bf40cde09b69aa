------------------------------- MODULE Thread -------------------------------
(***************************************************************************)
(* cp::Thread (cpThread.cpp, platforms/posix/cpThread_I.cpp): a detached   *)
(* native thread that runs a user function, with suspend, resume and exit  *)
(* requests, abort, and a destructor that waits for the user function.     *)
(* The state mutex covers neither ThreadPoll nor Abort, so each locked     *)
(* operation is three steps: the test of the run state, its assignment and *)
(* the move of the semaphore.                                              *)
(* "owner" deletes the Thread object, "thread" is the native thread and    *)
(* the clients are other threads that use the object until it is deleted.  *)
(***************************************************************************)
EXTENDS Integers, FiniteSets

CONSTANT Clients

ASSUME ThreadAssumption ==
    /\ IsFiniteSet(Clients)
    /\ Clients \cap {"owner", "thread", "free"} = {}

VARIABLES runState,    \* m_RunState
          exitFlag,    \* m_ExitFlag
          valid,       \* m_Valid
          exitSync,    \* m_ExitSync
          abortable,   \* m_Abortable
          cancel,      \* pthread_cancel has been called
          mutex,       \* the holder of m_MtxState, or "free"
          semSuspend,  \* count of m_SemSuspend, at most 1
          semExit,     \* count of m_SemExit, at most 2
          closing,     \* the destructor has begun
          pc           \* where each actor is

object == <<runState, exitFlag, valid, exitSync, abortable, closing>>
vars == <<object, cancel, mutex, semSuspend, semExit, pc>>

Actors == {"owner", "thread"} \cup Clients

Goto(who, step) == pc' = [pc EXCEPT ![who] = step]

\* Where an actor may call a method of the object, and returns to.
Home(who) == IF who = "thread" THEN "user"
             ELSE IF who = "owner" /\ closing THEN "dtorWait"
             ELSE "idle"

Deleted == pc["owner"] = "deleted"

\* The constructor: it may fail to start the thread; if not, the thread runs
\* before m_Valid is set.
Init ==
    /\ exitSync \in BOOLEAN
    /\ exitFlag = FALSE
    /\ valid = FALSE
    /\ abortable = FALSE
    /\ cancel = FALSE
    /\ mutex = "free"
    /\ semSuspend = 0
    /\ semExit = 0
    /\ closing = FALSE
    /\ \/ /\ runState \in {"Running", "Suspended"}
          /\ pc = [who \in Actors |-> IF who = "thread" THEN "poll"
                                   ELSE IF who = "owner" THEN "ctor"
                                   ELSE "idle"]
       \/ /\ runState = "Error"
          /\ pc = [who \in Actors |-> IF who = "thread" THEN "none" ELSE "idle"]

CtorDone ==
    /\ pc["owner"] = "ctor"
    /\ valid' = TRUE
    /\ Goto("owner", "idle")
    /\ UNCHANGED <<runState, exitFlag, exitSync, abortable, closing, cancel,
                   mutex, semSuspend, semExit>>

\* The owner and the clients call methods while the object lives; once its
\* destructor runs only its own thread still does.
MayCall(who) ==
    /\ ~Deleted
    /\ pc["owner"] # "ctor" \/ who = "thread"
    /\ ~closing \/ who = "thread"
    /\ pc[who] = Home(who)

Locks(who) == mutex = "free" /\ mutex' = who

\* Suspend locks and finds the thread running (else it does nothing).
Suspend(who) ==
    /\ MayCall(who)
    /\ valid
    /\ runState = "Running"
    /\ Locks(who)
    /\ Goto(who, "suspend")
    /\ UNCHANGED <<object, cancel, semSuspend, semExit>>

\* It assigns the run state, whatever an Abort has made of it since the test.
SuspendSet(who) ==
    /\ ~Deleted
    /\ pc[who] = "suspend"
    /\ runState' = "Suspended"
    /\ Goto(who, "drain")
    /\ UNCHANGED <<exitFlag, valid, exitSync, abortable, closing, cancel, mutex,
                   semSuspend, semExit>>

\* Mutant: Suspend leaves the token of an earlier Resume in place.
SuspendDrain_Keep(who) ==
    /\ ~Deleted
    /\ pc[who] = "drain"
    /\ mutex' = "free"
    /\ Goto(who, Home(who))
    /\ UNCHANGED <<object, cancel, semSuspend, semExit>>

\* The end of Suspend: m_SemSuspend.TryTake().
SuspendDrain(who) ==
    /\ ~Deleted
    /\ pc[who] = "drain"
    /\ semSuspend' = 0
    /\ mutex' = "free"
    /\ Goto(who, Home(who))
    /\ UNCHANGED <<object, cancel, semExit>>

\* What Resume and ExitReq do with a suspended thread, from the test on.
Unsuspend(who) ==
    \/ /\ runState = "Suspended"
       /\ Locks(who)
       /\ Goto(who, "resume")
    \/ /\ runState # "Suspended"
       /\ mutex = "free"
       /\ Goto(who, Home(who))
       /\ UNCHANGED mutex

Resume(who) ==
    /\ MayCall(who)
    /\ valid
    /\ runState = "Suspended"
    /\ Unsuspend(who)
    /\ UNCHANGED <<object, cancel, semSuspend, semExit>>

\* Mutant: the thread is woken but not told to exit.
ExitReq_NoFlag(who) ==
    /\ MayCall(who) \/ pc[who] = "dtor"
    /\ valid
    /\ Unsuspend(who)
    /\ UNCHANGED <<object, cancel, semSuspend, semExit>>

\* Called by the destructor too.
ExitReq(who) ==
    /\ MayCall(who) \/ pc[who] = "dtor"
    /\ valid
    /\ exitFlag' = TRUE
    /\ Unsuspend(who)
    /\ UNCHANGED <<runState, valid, exitSync, abortable, closing, cancel,
                   semSuspend, semExit>>

\* Resume and ExitReq assign the run state, over an Error of Abort too.
ResumeSet(who) ==
    /\ ~Deleted
    /\ pc[who] = "resume"
    /\ runState' = "Running"
    /\ Goto(who, "give")
    /\ UNCHANGED <<exitFlag, valid, exitSync, abortable, closing, cancel, mutex,
                   semSuspend, semExit>>

\* The end of Resume and ExitReq: m_SemSuspend.Give().
SuspendGive(who) ==
    /\ ~Deleted
    /\ pc[who] = "give"
    /\ semSuspend' = 1
    /\ mutex' = "free"
    /\ Goto(who, Home(who))
    /\ UNCHANGED <<object, cancel, semExit>>

\* Abort takes no lock: it calls pthread_cancel and then assigns the run state.
\* A thread that aborts itself is cancelled before the assignment.
Abort(who) ==
    /\ MayCall(who)
    /\ pc["thread"] \notin {"none", "done", "dead"}
    /\ abortable
    /\ cancel' = TRUE
    /\ Goto(who, IF who = "thread" THEN "dead" ELSE "aborting")
    /\ UNCHANGED <<object, mutex, semSuspend, semExit>>

AbortError(who) ==
    /\ ~Deleted
    /\ pc[who] = "aborting"
    /\ runState' = "Error"
    /\ Goto(who, Home(who))
    /\ UNCHANGED <<exitFlag, valid, exitSync, abortable, closing, cancel, mutex,
                   semSuspend, semExit>>

-----------------------------------------------------------------------------
\* The native thread: InvokeUserFunc, and ThreadPoll in it and in the user
\* function, whose loop runs while ThreadPoll returns true.
UserDone == IF exitSync THEN "give1" ELSE "done"

ThreadPoll ==
    /\ ~Deleted
    /\ pc["thread"] = "poll"
    /\ Goto("thread", IF runState = "Suspended" THEN "park" ELSE "check")
    /\ UNCHANGED <<object, cancel, mutex, semSuspend, semExit>>

\* Mutant: the suspended thread takes the token without waiting for it.
PollPark_NoBlock ==
    /\ ~Deleted
    /\ pc["thread"] = "park"
    /\ semSuspend' = semSuspend - 1
    /\ Goto("thread", "check")
    /\ UNCHANGED <<object, cancel, mutex, semExit>>

PollPark ==
    /\ ~Deleted
    /\ pc["thread"] = "park"
    /\ semSuspend > 0
    /\ semSuspend' = semSuspend - 1
    /\ Goto("thread", "check")
    /\ UNCHANGED <<object, cancel, mutex, semExit>>

PollCheck ==
    /\ ~Deleted
    /\ pc["thread"] = "check"
    /\ Goto("thread", IF exitFlag THEN UserDone ELSE "user")
    /\ UNCHANGED <<object, cancel, mutex, semSuspend, semExit>>

UserStep ==
    /\ ~Deleted
    /\ pc["thread"] = "user"
    /\ \/ Goto("thread", "poll")
       \/ Goto("thread", UserDone)
    /\ UNCHANGED <<object, cancel, mutex, semSuspend, semExit>>

ThreadExit ==
    /\ ~Deleted
    /\ pc["thread"] = "user"
    /\ exitFlag' = TRUE
    /\ UNCHANGED <<runState, valid, exitSync, abortable, closing, cancel, mutex,
                   semSuspend, semExit, pc>>

Abortable ==
    /\ ~Deleted
    /\ pc["thread"] = "user"
    /\ abortable' \in BOOLEAN
    /\ UNCHANGED <<runState, exitFlag, valid, exitSync, closing, cancel, mutex,
                   semSuspend, semExit, pc>>

\* m_SemExit.Give() twice: for the destructor and for one waiting client.
ExitGive ==
    /\ ~Deleted
    /\ \/ pc["thread"] = "give1" /\ Goto("thread", "give2")
       \/ pc["thread"] = "give2" /\ Goto("thread", "done")
    /\ semExit' = IF semExit < 2 THEN semExit + 1 ELSE 2
    /\ UNCHANGED <<object, cancel, mutex, semSuspend>>

\* The native cancellation strikes: anywhere if it is asynchronous, else where
\* the thread blocks.  A state mutex it holds stays locked.
Cancelled ==
    /\ cancel
    /\ pc["thread"] \notin {"none", "done", "dead"}
    /\ abortable \/ pc["thread"] \in {"user", "park"}
    /\ Goto("thread", "dead")
    /\ UNCHANGED <<object, cancel, mutex, semSuspend, semExit>>

-----------------------------------------------------------------------------
\* A client's WaitExit: one success each is what the second Give provides for.
WaitExit(c) ==
    /\ ~Deleted /\ pc["owner"] # "ctor"
    /\ exitSync
    /\ pc[c] = "idle"
    /\ Goto(c, "waiting")
    /\ UNCHANGED <<object, cancel, mutex, semSuspend, semExit>>

WaitExitEnd(c) ==
    /\ ~Deleted
    /\ pc[c] = "waiting"
    /\ \/ /\ semExit > 0
          /\ semExit' = semExit - 1
          /\ Goto(c, "released")
       \/ /\ Goto(c, "idle")
          /\ UNCHANGED semExit
    /\ UNCHANGED <<object, cancel, mutex, semSuspend>>

\* The destructor, from its test of the run state to ExitReq.
DtorBegin ==
    /\ pc["owner"] = "idle"
    /\ \A c \in Clients : pc[c] \in {"idle", "waiting", "released"}
    /\ closing' = TRUE
    /\ Goto("owner", IF runState = "Error" THEN "deleted" ELSE "dtor")
    /\ UNCHANGED <<runState, exitFlag, valid, exitSync, abortable, cancel, mutex,
                   semSuspend, semExit>>

\* Mutant: the destructor does not wait for the thread.
DtorEnd_NoWait ==
    /\ pc["owner"] = "dtorWait"
    /\ UNCHANGED semExit
    /\ Goto("owner", "deleted")
    /\ UNCHANGED <<object, cancel, mutex, semSuspend>>

DtorEnd ==
    /\ pc["owner"] = "dtorWait"
    /\ IF exitSync
       THEN semExit > 0 /\ semExit' = semExit - 1
       ELSE UNCHANGED semExit
    /\ Goto("owner", "deleted")
    /\ UNCHANGED <<object, cancel, mutex, semSuspend>>

Next ==
    \/ CtorDone
    \/ \E who \in Actors :
          \/ Suspend(who) \/ SuspendSet(who) \/ SuspendDrain(who)
          \/ Resume(who) \/ ExitReq(who) \/ ResumeSet(who) \/ SuspendGive(who)
          \/ Abort(who) \/ AbortError(who)
    \/ ThreadPoll \/ PollPark \/ PollCheck
    \/ UserStep \/ ThreadExit \/ Abortable
    \/ ExitGive
    \/ Cancelled
    \/ \E c \in Clients : WaitExit(c) \/ WaitExitEnd(c)
    \/ DtorBegin
    \/ DtorEnd

\* A thread that can go on does.  The user function polls or returns again and
\* again, and a destructor that asks for the mutex again and again gets it.
Fairness ==
    /\ WF_vars(ThreadPoll) /\ WF_vars(PollPark) /\ WF_vars(PollCheck)
    /\ WF_vars(ExitGive)
    /\ SF_vars(UserStep)
    /\ \A who \in Actors : WF_vars(\/ SuspendSet(who) \/ SuspendDrain(who)
                                  \/ ResumeSet(who) \/ SuspendGive(who))
    /\ SF_vars(pc["owner"] = "dtor" /\ ExitReq("owner"))
    /\ WF_vars(DtorEnd)

Spec == Init /\ [][Next]_vars /\ Fairness

-----------------------------------------------------------------------------
Steps == {"idle", "ctor", "dtor", "dtorWait", "deleted", "suspend", "drain",
          "resume", "give", "aborting", "waiting", "released", "none", "poll",
          "park", "check", "user", "give1", "give2", "done", "dead"}

\* Types of the members and of the actors' positions.
TypeOK ==
    /\ runState \in {"Running", "Suspended", "Error"}
    /\ {exitFlag, valid, exitSync, abortable, cancel, closing} \subseteq BOOLEAN
    /\ mutex \in Actors \cup {"free"}
    /\ semSuspend \in 0 .. 1
    /\ semExit \in 0 .. 2
    /\ pc \in [Actors -> Steps]

\* The unlocked ThreadPoll and the locked Suspend, Resume and ExitReq agree
\* through m_SemSuspend: a suspended thread finds no stale token that would
\* let it run on, and one that was resumed while it went to sleep on an old
\* reading of the run state finds a token that lets it out.
SuspendHandshake ==
    mutex = "free" =>
        /\ runState = "Suspended" => semSuspend = 0
        /\ runState = "Running" /\ pc["thread"] = "park" => semSuspend = 1

\* With exit synchronisation the destructor ends only when the user function
\* has returned: no poll, user code or exit request is under way on the object
\* it frees.  (An Abort whose Error stands gives this up.)
UserFunctionOutlived ==
    Deleted /\ exitSync /\ runState # "Error" =>
        pc["thread"] \in {"give2", "done", "dead"}

\* The destructor comes back from any state of suspension and any exit or abort,
\* except in the three situations in which the code cannot: the thread sleeps in
\* a suspension of its own that came after the exit request; it is cancelled and
\* nothing says so, because a Suspend, a Resume or an ExitReq assigned the run
\* state over the Error of Abort, or it aborted itself; or two clients have taken
\* the tokens of m_SemExit.
ParkedByItself ==
    pc["owner"] = "dtorWait" /\ pc["thread"] = "park" /\ runState = "Suspended"

ErrorOverwritten == pc["thread"] = "dead" /\ runState # "Error"

DestructorReturns ==
    closing ~> \/ Deleted
               \/ ParkedByItself
               \/ ErrorOverwritten
               \/ Cardinality({c \in Clients : pc[c] = "released"}) > 1

\* What InvokeUserFunc says before its two Gives: the thread will not reference
\* object resources any longer once it has released the destructor.
NoReferenceAfterRelease ==
    Deleted /\ exitSync /\ runState # "Error" => pc["thread"] \in {"done", "dead"}

=============================================================================
