----------------------------- MODULE SubProcess -----------------------------
(***************************************************************************)
(* SubProcess (platforms/posix/cpSubProcess_I.cpp): a process at the other *)
(* end of a pipe, and a thread that collects what it writes until the pipe *)
(* is closed or the thread is told to exit.  The thread gives m_Completed  *)
(* when it is done; whoever takes that token gives it back.                *)
(*                                                                         *)
(* The thread is what Thread promises: it starts suspended, its function   *)
(* is not called if it is told to exit before, and its destructor waits    *)
(* for it.  The receive buffer is touched under m_SyncIo only, so that an  *)
(* operation on it is one step.                                            *)
(***************************************************************************)
EXTENDS Naturals, Sequences, FiniteSets

CONSTANTS
    Owner,          \* the thread that creates and deletes the object
    Clients,        \* other threads that use it
    MaxWrites       \* bound on what the process writes

VARIABLES
    dir,        \* m_Dir: the "FlowOut" or "FlowIn" of data from or to the process
    desc,       \* m_Descriptor: "none", "open" or "closed"
    process,    \* "none", "runs" or "ended"
    written,    \* how many pieces of output the process has written
    pipe,       \* those that are in the pipe
    chunk,      \* those that IoThread has read and not yet stored
    rx,         \* m_RxBuffer
    extracted,  \* those that clients have copied out
    exitFlag,   \* of m_IoThread: "no", or set because a client "asked" or "atEnd" by the thread
    io,         \* where m_IoThread is
    completed,  \* the count of m_Completed, at most 1
    user        \* user[u]: where the owner and the clients are

subVars == <<dir, desc, process, written, pipe, chunk, rx, extracted, exitFlag, io, completed, user>>
pipeVars == <<dir, desc, process, written, pipe>>
dataVars == <<chunk, rx, extracted>>

Users == {Owner} \cup Clients
Goto(u, place) == user' = [user EXCEPT ![u] = place]

SubInit ==
    /\ dir \in {"FlowOut", "FlowIn"}
    /\ desc = "none" /\ process = "none" /\ written = 0 /\ pipe = <<>>
    /\ chunk = <<>> /\ rx = <<>> /\ extracted = <<>>
    /\ exitFlag = "no" /\ io = "suspended" /\ completed = 0
    /\ user = [u \in Users |-> IF u = Owner THEN "ctor" ELSE "idle"]

-----------------------------------------------------------------------------
(* The constructor.                                                        *)

\* popen succeeds: the thread is resumed.
Open ==
    /\ user[Owner] = "ctor"
    /\ desc' = "open" /\ process' = "runs"
    /\ io' = "poll0"
    /\ Goto(Owner, "idle")
    /\ UNCHANGED <<dir, written, pipe, dataVars, exitFlag, completed>>

\* It fails: the thread is told to exit, which resumes it.
OpenFails ==
    /\ user[Owner] = "ctor"
    /\ exitFlag' = "asked"
    /\ io' = "poll0"
    /\ Goto(Owner, "idle")
    /\ UNCHANGED <<pipeVars, dataVars, completed>>

\* Without a command, the thread stays suspended.
NoCommand ==
    /\ user[Owner] = "ctor"
    /\ Goto(Owner, "idle")
    /\ UNCHANGED <<pipeVars, dataVars, exitFlag, io, completed>>

-----------------------------------------------------------------------------
(* The process.                                                            *)

Write ==
    /\ process = "runs" /\ dir = "FlowOut" /\ desc = "open" /\ written < MaxWrites
    /\ written' = written + 1
    /\ pipe' = Append(pipe, written')
    /\ UNCHANGED <<dir, desc, process, dataVars, exitFlag, io, completed, user>>

\* By itself, or for want of a reader.
End ==
    /\ process = "runs"
    /\ process' = "ended"
    /\ UNCHANGED <<dir, desc, written, pipe, dataVars, exitFlag, io, completed, user>>

-----------------------------------------------------------------------------
(* The I/O thread.                                                         *)

IoTo(place) == io' = place

\* InvokeUserFunc polls before it calls the function, IoThread at each turn.
ThreadPoll ==
    /\ \/ io = "poll0" /\ IoTo(IF exitFlag # "no" THEN "skipped" ELSE "poll")
       \/ io = "poll" /\ IoTo(IF exitFlag # "no" THEN "give" ELSE "read")
    /\ UNCHANGED <<pipeVars, dataVars, exitFlag, completed, user>>

\* Some of what is in the pipe.
ReadSome ==
    /\ io = "read" /\ desc = "open"
    /\ \E n \in 1 .. Len(pipe) :
          /\ chunk' = SubSeq(pipe, 1, n)
          /\ pipe' = SubSeq(pipe, n + 1, Len(pipe))
    /\ IoTo("store")
    /\ UNCHANGED <<dir, desc, process, written, rx, extracted, exitFlag, completed, user>>

\* Mutant: nothing to read is taken for the end of the output.
AtEnd_Empty == pipe = <<>>

\* The pipe is closed at the other end, and empty.
AtEnd == process = "ended" /\ pipe = <<>>

ReadEnd ==
    /\ io = "read" /\ desc = "open" /\ dir = "FlowOut" /\ AtEnd
    /\ exitFlag' = IF exitFlag = "no" THEN "atEnd" ELSE exitFlag
    /\ IoTo("poll")
    /\ UNCHANGED <<pipeVars, dataVars, completed, user>>

\* Nothing there yet, a descriptor to write to, or one that is closed.
ReadFails ==
    /\ io = "read"
    /\ \/ desc = "open" /\ dir = "FlowOut" /\ pipe = <<>> /\ process = "runs"
       \/ desc = "open" /\ dir = "FlowIn"
       \/ desc = "closed"
    /\ IoTo("poll")
    /\ UNCHANGED <<pipeVars, dataVars, exitFlag, completed, user>>

\* The descriptor that pclose has closed is another file's by now: its data is lost
\* to its own readers.
ReadForeign ==
    /\ io = "read" /\ desc = "closed"
    /\ chunk' = <<0>>
    /\ IoTo("store")
    /\ UNCHANGED <<pipeVars, rx, extracted, exitFlag, completed, user>>

Store ==
    /\ io = "store"
    /\ rx' = rx \o chunk /\ chunk' = <<>>
    /\ IoTo("poll")
    /\ UNCHANGED <<pipeVars, extracted, exitFlag, completed, user>>

Complete ==
    /\ io = "give"
    /\ completed' = 1
    /\ IoTo("done")
    /\ UNCHANGED <<pipeVars, dataVars, exitFlag, user>>

-----------------------------------------------------------------------------
(* The methods.                                                            *)

\* A user calls one of them, or the owner's destructor goes on.
From(u, place) == user[Owner] # "ctor" /\ user[u] = place

RequestExit == exitFlag' = "asked" /\ io' = IF io = "suspended" THEN "poll0" ELSE io

Cancel(u) ==
    /\ From(u, "idle")
    /\ RequestExit
    /\ UNCHANGED <<pipeVars, dataVars, completed, user>>

\* IsRunning: TryTake.  It returns true without a token, else once it has given it
\* back; another caller may look in between.
IsRunning(u) ==
    /\ From(u, "idle") /\ completed = 1
    /\ completed' = 0
    /\ Goto(u, "isRunning")
    /\ UNCHANGED <<pipeVars, dataVars, exitFlag, io>>

\* WaitUntilDone: Take ...
WaitUntilDone(u) ==
    /\ \/ From(u, "idle") /\ Goto(u, "waited")
       \/ u = Owner /\ From(u, "dtorWait") /\ Goto(u, "dtorWaited")
    /\ completed = 1
    /\ completed' = 0
    /\ UNCHANGED <<pipeVars, dataVars, exitFlag, io>>

\* ... and Give; m_Completed drops what exceeds 1.
GiveBack(u) ==
    /\ \/ From(u, "isRunning") /\ Goto(u, "idle")
       \/ From(u, "waited") /\ Goto(u, "idle")
       \/ u = Owner /\ From(u, "dtorWaited") /\ Goto(u, "dtorJoin")
    /\ completed' = 1
    /\ UNCHANGED <<pipeVars, dataVars, exitFlag, io>>

\* BufferExtract and StreamBufTransfer.
BufferExtract(u) ==
    /\ From(u, "idle") /\ rx # <<>>
    /\ extracted' = extracted \o rx /\ rx' = <<>>
    /\ UNCHANGED <<pipeVars, chunk, exitFlag, io, completed, user>>

-----------------------------------------------------------------------------
(* The destructor, when no client is inside.                               *)

DtorCancel ==
    /\ From(Owner, "idle") /\ \A c \in Clients : user[c] = "idle"
    /\ RequestExit
    /\ user' = [u \in Users |-> IF u # Owner THEN "left" ELSE IF desc = "open" THEN "dtorClose" ELSE "dtorWait"]
    /\ UNCHANGED <<pipeVars, dataVars, completed>>

\* pclose closes the descriptor and waits for the process.
DtorClose ==
    /\ From(Owner, "dtorClose") /\ desc = "open"
    /\ desc' = "closed"
    /\ UNCHANGED <<dir, process, written, pipe, dataVars, exitFlag, io, completed, user>>

DtorClosed ==
    /\ From(Owner, "dtorClose") /\ desc = "closed" /\ process = "ended"
    /\ Goto(Owner, "dtorWait")
    /\ UNCHANGED <<pipeVars, dataVars, exitFlag, io, completed>>

\* The members are destroyed, m_IoThread last: its destructor waits for the thread.
DtorJoin ==
    /\ From(Owner, "dtorJoin") /\ io \in {"done", "skipped"}
    /\ Goto(Owner, "deleted")
    /\ UNCHANGED <<pipeVars, dataVars, exitFlag, io, completed>>

SubNext ==
    \/ Open \/ OpenFails \/ NoCommand
    \/ Write \/ End
    \/ ThreadPoll \/ ReadSome \/ ReadEnd \/ ReadFails \/ ReadForeign \/ Store \/ Complete
    \/ \E u \in Users : Cancel(u) \/ IsRunning(u) \/ WaitUntilDone(u) \/ GiveBack(u) \/ BufferExtract(u)
    \/ DtorCancel \/ DtorClose \/ DtorClosed \/ DtorJoin

SubSpec == SubInit /\ [][SubNext]_subVars

-----------------------------------------------------------------------------
Holders == {u \in Users : user[u] \in {"isRunning", "waited", "dtorWaited"}}

\* Until the descriptor is closed, what the process wrote is extracted, in the
\* buffer, with the thread or in the pipe, in this order; all of it has been
\* collected when the thread is done, unless somebody asked it to exit.
OutputKept ==
    /\ desc = "open" => extracted \o rx \o chunk \o pipe = [i \in 1 .. written |-> i]
    /\ io = "done" /\ exitFlag = "atEnd" => extracted \o rx = [i \in 1 .. written |-> i]

\* The thread's completion is one token, on offer or with somebody who gives it
\* back, so that nobody waits for ever for a thread that is done; and the members
\* are destroyed when it has stopped using them.  A thread whose function was
\* skipped gives no token, and the destructor waits for ever.
CompletionKept ==
    /\ completed + Cardinality(Holders) = IF io = "done" THEN 1 ELSE 0
    /\ user[Owner] \in {"dtorJoin", "deleted"} => io = "done"

\* Who finds the subprocess done finds all its output.
CompletedIsCollected == OutputKept /\ CompletionKept
=============================================================================
