---------------------------- MODULE ThreadProofs ----------------------------
(***************************************************************************)
(* What Thread promises for any number of clients: the types, the          *)
(* agreement of the run state and the suspend semaphore, and that the      *)
(* destructor outlives the user function; and, at the end, SubProcess,     *)
(* which collects output in such a thread.                                 *)
(***************************************************************************)
EXTENDS Thread, SubProcessPart, ListLemmas, FiniteSetTheorems, SequenceTheorems, TLAPS

\* Where an actor holds the state mutex.
Locked == {"suspend", "drain", "resume", "give"}

\* Who holds the mutex, and what the holder has already written.
LockInv ==
    /\ \A who \in Actors : pc[who] \in Locked => mutex = who
    /\ \A who \in Actors : pc[who] = "drain" => runState # "Running"
    /\ \A who \in Actors : pc[who] = "give" => runState # "Suspended"

\* A token of m_SemExit means that the user function has returned.
ExitInv == semExit > 0 => pc["thread"] \in {"give2", "done", "dead"}

HandshakeInv == TypeOK /\ LockInv /\ SuspendHandshake

OutlivedInv == TypeOK /\ ExitInv /\ UserFunctionOutlived

USE DEF object

-----------------------------------------------------------------------------
\* An actor returns to a step of its own program.
LEMMA HomeIsAStep ==
    \A who : Home(who) \in {"user", "dtorWait", "idle"}
  BY SMT DEF Home

\* The owner, the thread and the clients are different actors, and none is "free".
LEMMA ActorNames ==
    /\ {"owner", "thread"} \subseteq Actors
    /\ Clients \subseteq Actors
    /\ "free" \notin Actors
    /\ \A c \in Clients : c # "owner" /\ c # "thread"
  BY ThreadAssumption DEF Actors

\* The constructed Thread and its actors are well typed.
LEMMA TypeInit == Init => TypeOK
<1> SUFFICES ASSUME Init PROVE TypeOK
  OBVIOUS
<1>1. {exitFlag, valid, exitSync, abortable, cancel, closing} \subseteq BOOLEAN
  BY Zenon DEF Init
<1>2. runState \in {"Running", "Suspended", "Error"} /\ mutex = "free"
  BY DEF Init
<1>3. semSuspend \in 0 .. 1 /\ semExit \in 0 .. 2
  BY DEF Init
<1>4. pc \in [Actors -> Steps]
  BY DEF Init, Steps
<1> QED
  BY <1>1, <1>2, <1>3, <1>4 DEF TypeOK

\* Every operation of the object keeps the types of its members.
LEMMA TypeStep == TypeOK /\ [Next]_vars => TypeOK'
<1> SUFFICES ASSUME TypeOK, [Next]_vars PROVE TypeOK'
  OBVIOUS
<1> USE HomeIsAStep, ActorNames DEF TypeOK, Steps, Goto
<1>1. CASE CtorDone
  BY <1>1 DEF CtorDone
<1>2. ASSUME NEW who \in Actors, Suspend(who) PROVE TypeOK'
  BY <1>2 DEF Suspend, Locks
<1>3. ASSUME NEW who \in Actors, SuspendDrain(who) PROVE TypeOK'
  BY <1>3 DEF SuspendDrain
<1>4. ASSUME NEW who \in Actors, Resume(who) PROVE TypeOK'
  BY <1>4 DEF Resume, Unsuspend, Locks
<1>5. ASSUME NEW who \in Actors, ExitReq(who) PROVE TypeOK'
  BY <1>5 DEF ExitReq, Unsuspend, Locks
<1>6. ASSUME NEW who \in Actors, SuspendGive(who) PROVE TypeOK'
  BY <1>6 DEF SuspendGive
<1>7. ASSUME NEW who \in Actors, Abort(who) PROVE TypeOK'
  BY <1>7 DEF Abort
<1>21. ASSUME NEW who \in Actors, SuspendSet(who) PROVE TypeOK'
  BY <1>21 DEF SuspendSet
<1>22. ASSUME NEW who \in Actors, ResumeSet(who) PROVE TypeOK'
  BY <1>22 DEF ResumeSet
<1>23. ASSUME NEW who \in Actors, AbortError(who) PROVE TypeOK'
  BY <1>23 DEF AbortError
<1>8. CASE ThreadPoll
  BY <1>8 DEF ThreadPoll
<1>9. CASE PollPark
  BY <1>9 DEF PollPark
<1>10. CASE PollCheck
  BY <1>10 DEF PollCheck, UserDone
<1>11. CASE UserStep
  BY <1>11 DEF UserStep, UserDone
<1>12. CASE ThreadExit
  BY <1>12 DEF ThreadExit
<1>13. CASE Abortable
  BY <1>13 DEF Abortable
<1>14. CASE ExitGive
  BY <1>14 DEF ExitGive
<1>15. CASE Cancelled
  BY <1>15 DEF Cancelled
<1>16. ASSUME NEW c \in Clients, WaitExit(c) PROVE TypeOK'
  BY <1>16 DEF WaitExit
<1>17. ASSUME NEW c \in Clients, WaitExitEnd(c) PROVE TypeOK'
  BY <1>17 DEF WaitExitEnd
<1>18. CASE DtorBegin
  BY <1>18 DEF DtorBegin
<1>19. CASE DtorEnd
  BY <1>19 DEF DtorEnd
<1>20. CASE UNCHANGED vars
  BY <1>20 DEF vars
<1> QED
  BY <1>1, <1>2, <1>3, <1>4, <1>5, <1>6, <1>7, <1>8, <1>9, <1>10, <1>11,
     <1>12, <1>13, <1>14, <1>15, <1>16, <1>17, <1>18, <1>19, <1>20, <1>21, <1>22,
     <1>23 DEF Next

\* The members and positions keep their types, for any number of clients.
THEOREM TypeCorrect == Spec => []TypeOK
  BY TypeInit, TypeStep, PTL DEF Spec

-----------------------------------------------------------------------------
\* The handshake survives each step because only the holder of the mutex makes
\* the run state Running or Suspended, whatever Abort has made of it meanwhile, and it leaves the semaphore as
\* the new state wants it before it unlocks.
LEMMA HandshakeStep == HandshakeInv /\ [Next]_vars => HandshakeInv'
<1> SUFFICES ASSUME HandshakeInv, [Next]_vars PROVE LockInv' /\ SuspendHandshake'
  BY TypeStep DEF HandshakeInv
<1> USE HomeIsAStep, ActorNames
    DEF HandshakeInv, LockInv, SuspendHandshake, Locked, TypeOK, Goto
<1> DEFINE Goal == LockInv' /\ SuspendHandshake'
<1>1. CASE CtorDone
  BY <1>1 DEF CtorDone
<1>2. ASSUME NEW who \in Actors, Suspend(who) PROVE Goal
  BY <1>2 DEF Suspend, Locks
<1>3. ASSUME NEW who \in Actors, SuspendDrain(who) PROVE Goal
  BY <1>3 DEF SuspendDrain
<1>4. ASSUME NEW who \in Actors, Resume(who) PROVE Goal
  BY <1>4 DEF Resume, Unsuspend, Locks
<1>5. ASSUME NEW who \in Actors, ExitReq(who) PROVE Goal
  BY <1>5 DEF ExitReq, Unsuspend, Locks
<1>6. ASSUME NEW who \in Actors, SuspendGive(who) PROVE Goal
  BY <1>6 DEF SuspendGive
<1>7. ASSUME NEW who \in Actors, Abort(who) PROVE Goal
  BY <1>7 DEF Abort
<1>21. ASSUME NEW who \in Actors, SuspendSet(who) PROVE Goal
  BY <1>21 DEF SuspendSet
<1>22. ASSUME NEW who \in Actors, ResumeSet(who) PROVE Goal
  BY <1>22 DEF ResumeSet
<1>23. ASSUME NEW who \in Actors, AbortError(who) PROVE Goal
  BY <1>23 DEF AbortError
<1>8. CASE ThreadPoll
  BY <1>8 DEF ThreadPoll
<1>9. CASE PollPark
  BY <1>9 DEF PollPark
<1>10. CASE PollCheck
  BY <1>10 DEF PollCheck, UserDone
<1>11. CASE UserStep
  BY <1>11 DEF UserStep, UserDone
<1>12. CASE ThreadExit
  BY <1>12 DEF ThreadExit
<1>13. CASE Abortable
  BY <1>13 DEF Abortable
<1>14. CASE ExitGive
  BY <1>14 DEF ExitGive
<1>15. CASE Cancelled
  BY <1>15 DEF Cancelled
<1>16. ASSUME NEW c \in Clients, WaitExit(c) PROVE Goal
  BY <1>16 DEF WaitExit
<1>17. ASSUME NEW c \in Clients, WaitExitEnd(c) PROVE Goal
  BY <1>17 DEF WaitExitEnd
<1>18. CASE DtorBegin
  BY <1>18 DEF DtorBegin
<1>19. CASE DtorEnd
  BY <1>19 DEF DtorEnd
<1>20. CASE UNCHANGED vars
  BY <1>20 DEF vars
<1> QED
  BY <1>1, <1>2, <1>3, <1>4, <1>5, <1>6, <1>7, <1>8, <1>9, <1>10, <1>11,
     <1>12, <1>13, <1>14, <1>15, <1>16, <1>17, <1>18, <1>19, <1>20, <1>21, <1>22,
     <1>23 DEF Next

\* A resumed thread that sleeps on an old reading of the run state always finds
\* its token, and a suspended one never finds a stale token.
THEOREM HandshakeHolds == Spec => []SuspendHandshake
<1>1. Init => HandshakeInv
  <2> SUFFICES ASSUME Init PROVE HandshakeInv
    OBVIOUS
  <2>1. LockInv /\ SuspendHandshake
    BY SMT DEF Init, LockInv, SuspendHandshake, Locked, Actors
  <2> QED
    BY <2>1, TypeInit DEF HandshakeInv
<1>2. HandshakeInv => SuspendHandshake
  BY DEF HandshakeInv
<1> QED
  BY <1>1, <1>2, HandshakeStep, PTL DEF Spec

-----------------------------------------------------------------------------
\* The destructor takes a token that only InvokeUserFunc gives, after the user
\* function; without one it ends only on an Error, which then stands: nothing is
\* assigned to a deleted object.
LEMMA OutlivedStep == OutlivedInv /\ [Next]_vars => OutlivedInv'
<1> SUFFICES ASSUME OutlivedInv, [Next]_vars
             PROVE ExitInv' /\ UserFunctionOutlived'
  BY TypeStep DEF OutlivedInv
<1> USE HomeIsAStep, ActorNames
    DEF OutlivedInv, ExitInv, UserFunctionOutlived, Deleted, TypeOK, Goto
<1> DEFINE Goal == ExitInv' /\ UserFunctionOutlived'
<1>1. CASE CtorDone
  BY <1>1 DEF CtorDone
<1>2. ASSUME NEW who \in Actors, Suspend(who) PROVE Goal
  BY <1>2 DEF Suspend, Locks, MayCall
<1>3. ASSUME NEW who \in Actors, SuspendDrain(who) PROVE Goal
  BY <1>3 DEF SuspendDrain
<1>4. ASSUME NEW who \in Actors, Resume(who) PROVE Goal
  BY <1>4 DEF Resume, Unsuspend, Locks, MayCall
<1>5. ASSUME NEW who \in Actors, ExitReq(who) PROVE Goal
  BY <1>5 DEF ExitReq, Unsuspend, Locks, MayCall
<1>6. ASSUME NEW who \in Actors, SuspendGive(who) PROVE Goal
  BY <1>6 DEF SuspendGive
<1>7. ASSUME NEW who \in Actors, Abort(who) PROVE Goal
  BY <1>7 DEF Abort, MayCall
<1>21. ASSUME NEW who \in Actors, SuspendSet(who) PROVE Goal
  BY <1>21 DEF SuspendSet
<1>22. ASSUME NEW who \in Actors, ResumeSet(who) PROVE Goal
  BY <1>22 DEF ResumeSet
<1>23. ASSUME NEW who \in Actors, AbortError(who) PROVE Goal
  BY <1>23 DEF AbortError
<1>8. CASE ThreadPoll
  BY <1>8 DEF ThreadPoll
<1>9. CASE PollPark
  BY <1>9 DEF PollPark
<1>10. CASE PollCheck
  BY <1>10 DEF PollCheck, UserDone
<1>11. CASE UserStep
  BY <1>11 DEF UserStep, UserDone
<1>12. CASE ThreadExit
  BY <1>12 DEF ThreadExit
<1>13. CASE Abortable
  BY <1>13 DEF Abortable
<1>14. CASE ExitGive
  BY <1>14 DEF ExitGive
<1>15. CASE Cancelled
  BY <1>15 DEF Cancelled
<1>16. ASSUME NEW c \in Clients, WaitExit(c) PROVE Goal
  BY <1>16 DEF WaitExit
<1>17. ASSUME NEW c \in Clients, WaitExitEnd(c) PROVE Goal
  BY <1>17 DEF WaitExitEnd
<1>18. CASE DtorBegin
  BY <1>18 DEF DtorBegin
<1>19. CASE DtorEnd
  BY <1>19 DEF DtorEnd
<1>20. CASE UNCHANGED vars
  BY <1>20 DEF vars
<1> QED
  BY <1>1, <1>2, <1>3, <1>4, <1>5, <1>6, <1>7, <1>8, <1>9, <1>10, <1>11,
     <1>12, <1>13, <1>14, <1>15, <1>16, <1>17, <1>18, <1>19, <1>20, <1>21, <1>22,
     <1>23 DEF Next

\* With exit synchronisation the destructor frees the object only when the user
\* function has returned, however many clients wait for the exit.
THEOREM DestructorOutlives == Spec => []UserFunctionOutlived
<1>1. Init => OutlivedInv
  <2> SUFFICES ASSUME Init PROVE OutlivedInv
    OBVIOUS
  <2>1. ExitInv /\ UserFunctionOutlived
    BY ActorNames, SMT DEF Init, ExitInv, UserFunctionOutlived, Deleted, Actors
  <2> QED
    BY <2>1, TypeInit DEF OutlivedInv
<1>2. OutlivedInv => UserFunctionOutlived
  BY DEF OutlivedInv
<1> QED
  BY <1>1, <1>2, OutlivedStep, PTL DEF Spec

-----------------------------------------------------------------------------
(* SubProcess (cpSubProcess_I.cpp), whose output a Thread collects: for    *)
(* any clients and any output.                                             *)

Output(n) == [i \in 1 .. n |-> i]
Places == {"ctor", "idle", "isRunning", "waited", "left", "dtorClose", "dtorWait", "dtorWaited",
           "dtorJoin", "deleted"}

SubTypeOK ==
    /\ written \in Nat /\ completed \in {0, 1}
    /\ pipe \in Seq(Nat) /\ chunk \in Seq(Nat) /\ rx \in Seq(Nat) /\ extracted \in Seq(Nat)
    /\ collectorExit \in {"no", "asked", "atEnd"}
    /\ user \in [Sub!Users -> Places]

\* Before the constructor is done nothing has happened.
Unopened ==
    user[Owner] = "ctor" =>
       /\ desc = "none" /\ io = "suspended" /\ collectorExit = "no" /\ written = 0
       /\ pipe = <<>> /\ chunk = <<>> /\ rx = <<>> /\ extracted = <<>>

\* The thread holds output between reading and storing it only; it has seen the end
\* of it when there can be no more; and the descriptor is not closed before the
\* destructor has told the thread to exit.
Collects ==
    /\ desc = "open" => extracted \o rx \o chunk \o pipe = Output(written)
    /\ io # "store" => chunk = <<>>
    /\ collectorExit = "atEnd" =>
          /\ desc = "open" /\ process = "ended" /\ pipe = <<>>
          /\ io \in {"poll", "give", "done"}
    /\ user[Owner] = "dtorClose" \/ desc = "closed" => collectorExit = "asked"

\* There is one token once the thread is done, and none before.
OneToken ==
    /\ io # "done" => completed = 0 /\ Sub!Holders = {}
    /\ io = "done" => \/ completed = 1 /\ Sub!Holders = {}
                      \/ completed = 0 /\ \E u \in Sub!Users : Sub!Holders = {u}
    /\ user[Owner] \in {"dtorJoin", "deleted"} => io = "done"

SubIInv == SubTypeOK /\ Unopened /\ Collects /\ OneToken

\* Concatenation and what is appended, of lists of numbers.
LEMMA Reassociate == \A r, s, t \in Seq(Nat) : (r \o s) \o t = r \o (s \o t)
BY ConcatAssociative

LEMMA AppendedNumber ==
    \A s, t \in Seq(Nat), e \in Nat : s \o Append(t, e) = Append(s \o t, e)
BY AppendAfter

\* What the process writes next goes to the end of its output.
LEMMA OutputGrows ==
    ASSUME NEW n \in Nat
    PROVE  Output(n) \in Seq(Nat) /\ Len(Output(n)) = n /\ Append(Output(n), n + 1) = Output(n + 1)
<1>1. Output(n) \in Seq(Nat) /\ Len(Output(n)) = n /\ Output(n + 1) \in Seq(Nat) /\ Len(Output(n + 1)) = n + 1
  BY FunctionIsSeq DEF Output
<1>2. /\ Append(Output(n), n + 1) \in Seq(Nat) /\ Len(Append(Output(n), n + 1)) = n + 1
      /\ \A i \in 1 .. n + 1 : Append(Output(n), n + 1)[i] = IF i = n + 1 THEN n + 1 ELSE Output(n)[i]
  BY <1>1, AppendProperties
<1>3. \A i \in 1 .. n + 1 : Append(Output(n), n + 1)[i] = Output(n + 1)[i]
  BY <1>2 DEF Output
<1> QED
  BY <1>1, <1>2, <1>3, SeqEqual

\* The invariant says what CompletedIsCollected says.
LEMMA SubInvariant == ASSUME SubIInv PROVE Sub!CompletedIsCollected
<1>1. Sub!OutputKept
  <2>1. ASSUME io = "done", collectorExit = "atEnd" PROVE extracted \o rx = Output(written)
    <3>1. /\ chunk = <<>> /\ pipe = <<>> /\ extracted \o rx \o chunk \o pipe = Output(written)
          /\ extracted \o rx \in Seq(Nat)
      BY <2>1, ConcatProperties DEF SubIInv, Collects, SubTypeOK
    <3>2. extracted \o rx \o <<>> = extracted \o rx
      BY <3>1, ConcatEmptySeq
    <3> QED
      BY <3>1, <3>2
  <2> QED
    BY <2>1 DEF SubIInv, Collects, Sub!OutputKept, Output
<1>2. Sub!CompletionKept
  <2>0. Sub!Cardinality(Sub!Holders) = Cardinality(Sub!Holders)
    BY DEF Sub!Cardinality, Cardinality
  <2>1. Sub!Holders = {} => Cardinality(Sub!Holders) = 0
    BY FS_EmptySet
  <2>2. (\E u \in Sub!Users : Sub!Holders = {u}) => Cardinality(Sub!Holders) = 1
    BY FS_Singleton
  <2>3. CASE io = "done"
    BY <2>0, <2>1, <2>2, <2>3 DEF SubIInv, OneToken, Sub!CompletionKept
  <2>4. CASE io # "done"
    BY <2>0, <2>1, <2>4 DEF SubIInv, OneToken, Sub!CompletionKept
  <2> QED
    BY <2>3, <2>4
<1> QED
  BY <1>1, <1>2 DEF Sub!CompletedIsCollected

LEMMA SubBegins == ASSUME Sub!SubInit PROVE SubIInv
<1>1. <<>> \in Seq(Nat)
  BY EmptySeq
<1>2. Owner \in Sub!Users
  BY DEF Sub!Users
<1>3. Sub!Holders = {}
  BY DEF Sub!SubInit, Sub!Holders, Sub!Users
<1> QED
  BY <1>1, <1>2, <1>3 DEF Sub!SubInit, SubIInv, SubTypeOK, Unopened, Collects, OneToken, Places

\* The constructor: what has been opened has no output yet.
LEMMA CtorKeepsInvariant ==
    ASSUME SubIInv, Sub!Open \/ Sub!OpenFails \/ Sub!NoCommand PROVE SubIInv'
<1> USE DEF SubIInv, SubTypeOK
<1>1. /\ Owner \in Sub!Users /\ user[Owner] = "ctor" /\ "idle" \in Places
      /\ user' = [user EXCEPT ![Owner] = "idle"]
  BY DEF Sub!Open, Sub!OpenFails, Sub!NoCommand, Sub!Goto, Sub!Users, Places
<1>2. /\ UNCHANGED <<written, pipe, chunk, rx, extracted, completed>>
      /\ collectorExit' \in {collectorExit, "asked"} /\ io' \in {io, "poll0"}
      /\ desc = "none" /\ io = "suspended" /\ desc' \in {"none", "open"}
  BY <1>1 DEF Sub!Open, Sub!OpenFails, Sub!NoCommand, Sub!pipeVars, Sub!dataVars, Unopened
<1>3. SubTypeOK'
  BY <1>1, <1>2
<1>4. Unopened'
  BY <1>1 DEF Unopened
<1>5. Collects'
  <2>1. <<>> \o <<>> \o <<>> \o <<>> = Output(0)
    BY FunctionIsSeq, EmptySeq, ConcatEmptySeq, SeqEqual DEF Output
  <2> QED
    BY <1>1, <1>2, <2>1 DEF Unopened, Collects
<1>6. Sub!Holders' = Sub!Holders
  BY <1>1 DEF Sub!Holders
<1> QED
  BY <1>1, <1>2, <1>3, <1>4, <1>5, <1>6 DEF OneToken

\* The process and the thread: output moves, in order.
LEMMA CollectorKeepsInvariant ==
    ASSUME SubIInv,
           \/ Sub!Write \/ Sub!End \/ Sub!ThreadPoll \/ Sub!ReadSome \/ Sub!ReadEnd
           \/ Sub!ReadFails \/ Sub!ReadForeign \/ Sub!Store
    PROVE  SubIInv'
<1> USE DEF SubIInv, SubTypeOK, Sub!pipeVars, Sub!dataVars
<1> DEFINE done == extracted \o rx
<1>0. /\ pipe \in Seq(Nat) /\ chunk \in Seq(Nat) /\ rx \in Seq(Nat) /\ extracted \in Seq(Nat)
      /\ done \in Seq(Nat) /\ done \o chunk \in Seq(Nat)
  BY ConcatProperties
<1>1. CASE Sub!Write
  <2>1. /\ written' = written + 1 /\ pipe' = Append(pipe, written + 1) /\ desc = "open"
        /\ process = "runs" /\ pipe' \in Seq(Nat)
        /\ UNCHANGED <<dir, desc, process, chunk, rx, extracted, collectorExit, io, completed, user>>
    BY <1>1, AppendProperties DEF Sub!Write
  <2>2. done \o chunk \o pipe' = Append(done \o chunk \o pipe, written + 1)
    <3>1. written + 1 \in Nat
      OBVIOUS
    <3> HIDE DEF done
    <3>2. (done \o chunk) \o Append(pipe, written + 1) = Append((done \o chunk) \o pipe, written + 1)
      BY <1>0, <3>1, AppendedNumber, Zenon
    <3> QED
      BY <2>1, <3>2
  <2>3. extracted \o rx \o chunk \o pipe' = Output(written')
    BY <2>1, <2>2, OutputGrows DEF Collects
  <2>4. (extracted \o rx \o chunk \o pipe = Output(written))'
    BY <2>1, <2>3
  <2>5. Collects'
    <3> HIDE DEF Output
    <3> QED
      BY <2>1, <2>4 DEF Collects
  <2>6. OneToken' /\ Unopened'
    BY <2>1 DEF Unopened, OneToken, Sub!Holders
  <2> QED
    BY <2>1, <2>5, <2>6
<1>2. CASE Sub!End \/ Sub!ThreadPoll \/ Sub!ReadFails \/ Sub!ReadEnd
  <2>1. /\ UNCHANGED <<dir, desc, written, pipe, chunk, rx, extracted, completed, user>>
        /\ (io' # "store" /\ io # "store") \/ UNCHANGED io
        /\ (io = "done" <=> io' = "done")
        /\ collectorExit' # collectorExit =>
              collectorExit' = "atEnd" /\ process' = "ended" /\ pipe' = <<>> /\ io' = "poll" /\ desc = "open"
        /\ collectorExit = "atEnd" => process' = "ended" /\ io' \in {"poll", "give", "done"}
        /\ collectorExit' \in {"no", "asked", "atEnd"} /\ (collectorExit # "no" => collectorExit' = collectorExit)
        /\ io = "suspended" => io' = io /\ UNCHANGED collectorExit
    BY <1>2 DEF Sub!End, Sub!ThreadPoll, Sub!ReadFails, Sub!ReadEnd, Sub!AtEnd, Sub!IoTo, Collects
  <2> QED
    BY <2>1 DEF Unopened, Collects, OneToken, Sub!Holders
<1>3. CASE Sub!ReadSome
  <2>1. PICK n \in 1 .. Len(pipe) : chunk' = SubSeq(pipe, 1, n) /\ pipe' = SubSeq(pipe, n + 1, Len(pipe))
    BY <1>3 DEF Sub!ReadSome
  <2>2. /\ io = "read" /\ io' = "store" /\ chunk = <<>> /\ desc = "open"
        /\ UNCHANGED <<dir, desc, process, written, rx, extracted, collectorExit, completed, user>>
    BY <1>3 DEF Sub!ReadSome, Sub!IoTo, Collects
  <2>3. /\ chunk' \in Seq(Nat) /\ pipe' \in Seq(Nat) /\ chunk' \o pipe' = pipe
    BY <2>1, SplitIsWhole
  <2>4. done \o chunk \o pipe = done \o pipe
    BY <1>0, <2>2, ConcatEmptySeq
  <2>5. done \o chunk' \o pipe' = done \o (chunk' \o pipe')
    <3> HIDE DEF done
    <3>1. PICK r \in Seq(Nat) : r = done
      BY <1>0
    <3>2. PICK s \in Seq(Nat) : s = chunk'
      BY <2>3
    <3>3. PICK t \in Seq(Nat) : t = pipe'
      BY <2>3
    <3>4. (r \o s) \o t = r \o (s \o t)
      BY Reassociate, Zenon
    <3> QED
      BY <3>1, <3>2, <3>3, <3>4, Zenon
  <2>6. collectorExit # "atEnd"
    BY <2>2 DEF Collects
  <2> QED
    BY <2>2, <2>3, <2>4, <2>5, <2>6 DEF Unopened, Collects, OneToken, Sub!Holders
<1>4. CASE Sub!ReadForeign
  <2>1. /\ desc = "closed" /\ io = "read" /\ io' = "store" /\ chunk' = <<0>> /\ chunk' \in Seq(Nat)
        /\ UNCHANGED <<dir, desc, process, written, pipe, rx, extracted, collectorExit, completed, user>>
    BY <1>4 DEF Sub!ReadForeign, Sub!IoTo
  <2> QED
    BY <2>1 DEF Unopened, Collects, OneToken, Sub!Holders
<1>5. CASE Sub!Store
  <2>1. /\ io = "store" /\ io' = "poll" /\ rx' = rx \o chunk /\ chunk' = <<>>
        /\ UNCHANGED <<dir, desc, process, written, pipe, extracted, collectorExit, completed, user>>
    BY <1>5 DEF Sub!Store, Sub!IoTo
  <2>2. rx' \in Seq(Nat) /\ extracted \o rx' \in Seq(Nat) /\ chunk' \in Seq(Nat)
    BY <2>1, ConcatProperties, EmptySeq
  <2>3. extracted \o rx' = done \o chunk
    <3>1. (extracted \o rx) \o chunk = extracted \o (rx \o chunk)
      BY <1>0, Reassociate, Zenon
    <3> QED
      BY <2>1, <3>1
  <2>4. extracted \o rx' \o chunk' = extracted \o rx'
    BY <2>1, <2>2, ConcatEmptySeq
  <2>5. collectorExit # "atEnd"
    BY <2>1 DEF Collects
  <2> QED
    BY <2>1, <2>2, <2>3, <2>4, <2>5 DEF Unopened, Collects, OneToken, Sub!Holders
<1> QED
  BY <1>1, <1>2, <1>3, <1>4, <1>5

\* The thread makes its token when there is none.
LEMMA CompleteKeepsInvariant ==
    ASSUME SubIInv, Sub!Complete PROVE SubIInv'
BY DEF SubIInv, SubTypeOK, Sub!Complete, Sub!IoTo, Sub!pipeVars, Sub!dataVars, Unopened, Collects,
       OneToken, Sub!Holders

\* The methods: who takes the token is its only holder, and what is copied out stays
\* in order.
LEMMA MethodsKeepInvariant ==
    ASSUME SubIInv, NEW u \in Sub!Users,
           \/ Sub!Cancel(u) \/ Sub!IsRunning(u) \/ Sub!WaitUntilDone(u)
           \/ Sub!GiveBack(u) \/ Sub!BufferExtract(u)
    PROVE  SubIInv'
<1> USE DEF SubIInv, SubTypeOK, Sub!pipeVars, Sub!dataVars, Sub!From
<1>0. Owner \in Sub!Users /\ user[Owner] # "ctor"
  BY DEF Sub!Users, Sub!Cancel, Sub!IsRunning, Sub!WaitUntilDone, Sub!GiveBack, Sub!BufferExtract
<1>1. CASE Sub!Cancel(u)
  BY <1>0, <1>1 DEF Sub!Cancel, Sub!RequestExit, Unopened, Collects, OneToken, Sub!Holders
<1>2. CASE Sub!BufferExtract(u)
  <2>1. /\ extracted' = extracted \o rx /\ rx' = <<>>
        /\ UNCHANGED <<dir, desc, process, written, pipe, chunk, collectorExit, io, completed, user>>
    BY <1>2 DEF Sub!BufferExtract
  <2>2. /\ extracted' \in Seq(Nat) /\ rx' \in Seq(Nat) /\ extracted' \o rx' = extracted \o rx
    BY <2>1, ConcatProperties, ConcatEmptySeq, EmptySeq
  <2> QED
    BY <1>0, <2>1, <2>2 DEF Unopened, Collects, OneToken, Sub!Holders
<1>3. CASE Sub!IsRunning(u) \/ Sub!WaitUntilDone(u)
  <2>1. PICK place \in {"isRunning", "waited", "dtorWaited"} :
             user' = [user EXCEPT ![u] = place] /\ (user[u] = "idle" \/ user[u] = "dtorWait")
    BY <1>3 DEF Sub!IsRunning, Sub!WaitUntilDone, Sub!Goto
  <2>2. /\ completed = 1 /\ completed' = 0
        /\ UNCHANGED <<dir, desc, process, written, pipe, chunk, rx, extracted, collectorExit, io>>
    BY <1>3 DEF Sub!IsRunning, Sub!WaitUntilDone
  <2>3. io = "done" /\ Sub!Holders = {}
    BY <2>2 DEF OneToken
  <2>4. Sub!Holders' = {u}
    BY <2>1, <2>3 DEF Sub!Holders
  <2>5. /\ user' \in [Sub!Users -> Places] /\ user'[Owner] # "ctor"
        /\ user'[Owner] = "dtorClose" => user[Owner] = "dtorClose"
    BY <1>0, <2>1 DEF Places
  <2> QED
    BY <2>2, <2>3, <2>4, <2>5 DEF Unopened, Collects, OneToken
<1>4. CASE Sub!GiveBack(u)
  <2>1. PICK place \in {"idle", "dtorJoin"} :
             user' = [user EXCEPT ![u] = place] /\ user[u] \in {"isRunning", "waited", "dtorWaited"}
    BY <1>4 DEF Sub!GiveBack, Sub!Goto
  <2>2. /\ completed' = 1
        /\ UNCHANGED <<dir, desc, process, written, pipe, chunk, rx, extracted, collectorExit, io>>
    BY <1>4 DEF Sub!GiveBack
  <2>3. io = "done" /\ Sub!Holders = {u}
    <3>1. u \in Sub!Holders
      BY <2>1 DEF Sub!Holders
    <3> QED
      BY <3>1 DEF OneToken
  <2>4. Sub!Holders' = {}
    <3>1. \A a \in Sub!Users : user[a] \in {"isRunning", "waited", "dtorWaited"} => a = u
      BY <2>3 DEF Sub!Holders
    <3> QED
      BY <2>1, <3>1 DEF Sub!Holders
  <2>5. /\ user' \in [Sub!Users -> Places] /\ user'[Owner] # "ctor"
        /\ user'[Owner] = "dtorClose" => user[Owner] = "dtorClose"
    BY <1>0, <2>1 DEF Places
  <2> QED
    BY <2>2, <2>3, <2>4, <2>5 DEF Unopened, Collects, OneToken
<1> QED
  BY <1>1, <1>2, <1>3, <1>4

LEMMA DtorKeepsInvariant ==
    ASSUME SubIInv, Sub!DtorCancel \/ Sub!DtorClose \/ Sub!DtorClosed \/ Sub!DtorJoin
    PROVE  SubIInv'
<1> USE DEF SubIInv, SubTypeOK, Sub!pipeVars, Sub!dataVars, Sub!From
<1>0. Owner \in Sub!Users /\ user[Owner] # "ctor"
  BY DEF Sub!Users, Sub!DtorCancel, Sub!DtorClose, Sub!DtorClosed, Sub!DtorJoin
<1>1. CASE Sub!DtorCancel
  <2>1. /\ \A a \in Sub!Users : user[a] = "idle"
        /\ user' = [a \in Sub!Users |-> IF a # Owner THEN "left" ELSE IF desc = "open" THEN "dtorClose" ELSE "dtorWait"]
        /\ collectorExit' = "asked" /\ io' = IF io = "suspended" THEN "poll0" ELSE io
        /\ UNCHANGED <<dir, desc, process, written, pipe, chunk, rx, extracted, completed>>
    BY <1>1 DEF Sub!DtorCancel, Sub!RequestExit, Sub!Users
  <2>2. Sub!Holders = {} /\ Sub!Holders' = {}
    BY <2>1 DEF Sub!Holders
  <2> QED
    BY <1>0, <2>1, <2>2 DEF Unopened, Collects, OneToken, Places
<1>2. CASE Sub!DtorClose
  BY <1>0, <1>2 DEF Sub!DtorClose, Unopened, Collects, OneToken, Sub!Holders
<1>3. CASE Sub!DtorClosed
  BY <1>0, <1>3 DEF Sub!DtorClosed, Sub!Goto, Unopened, Collects, OneToken, Sub!Holders, Places
<1>4. CASE Sub!DtorJoin
  BY <1>0, <1>4 DEF Sub!DtorJoin, Sub!Goto, Unopened, Collects, OneToken, Sub!Holders, Places
<1> QED
  BY <1>1, <1>2, <1>3, <1>4

\* No output is lost or reordered while the descriptor is open, and the completion is
\* one token, for any clients and however long the output is.
THEOREM SubProcessKeepsOutput == Sub!SubSpec => []CompletedIsCollected
<1>1. Sub!SubInit => SubIInv
  BY SubBegins
<1>2. SubIInv /\ [Sub!SubNext]_(Sub!subVars) => SubIInv'
  <2> SUFFICES ASSUME SubIInv, [Sub!SubNext]_(Sub!subVars) PROVE SubIInv'
    OBVIOUS
  <2>1. CASE UNCHANGED Sub!subVars
    BY <2>1 DEF Sub!subVars, SubIInv, SubTypeOK, Unopened, Collects, OneToken, Sub!Holders
  <2>2. CASE Sub!SubNext
    BY <2>2, CtorKeepsInvariant, CollectorKeepsInvariant, CompleteKeepsInvariant,
       MethodsKeepInvariant, DtorKeepsInvariant DEF Sub!SubNext
  <2> QED
    BY <2>1, <2>2
<1>3. SubIInv => CompletedIsCollected
  BY SubInvariant DEF CompletedIsCollected
<1> QED
  BY <1>1, <1>2, <1>3, PTL DEF Sub!SubSpec
=============================================================================
