------------------------------- MODULE IpcNode -------------------------------
(***************************************************************************)
(* What a cp::IpcNode does with the messages that nobody waits for: its    *)
(* accumulator thread hands a whole message to the Dispatch of its context *)
(* (IpcAccumMap, IpcContext), whose threads run the handlers.  Context 0   *)
(* has the node's ControlEventHandler, from the constructor on; a reply    *)
(* context has the handler that a client registers, and is removed when it *)
(* has been given a reply.  m_Mutex of IpcAccumMap covers each access to a *)
(* context, a removal included, which waits for the context's threads.     *)
(* How messages are put together and waited for is in IpcAccum.            *)
(***************************************************************************)
EXTENDS Naturals, Sequences, FiniteSets, SequencesExt

CONSTANTS
    MaxMsgs,        \* bound: messages that the accumulator thread completes
    Kinds,          \* control codes, and "Reply"
    Reply,          \* the id that replies are for
    Threads,        \* Threads[c]: the dispatch threads of context c, by name
    Depth,          \* the depth of a dispatch queue
    Stop,           \* the shutdown event of a Dispatch
    None

VARIABLES
    received,       \* what each message is that has been received, in order
    context,        \* m_ContextMap: dispatcher, its handlers and queue, m_PtrHead
    work,           \* what each dispatch thread is doing
    acc,            \* the accumulator thread
    removal,        \* ~IpcContext: whose context, how far
    ctl,            \* the node: semaphores, m_Flag1, the resolver's entry, its life
    freed,          \* history: how often each message was deleted
    hist            \* history: messages lost with a queue, acted on, not held
vars == <<received, context, work, acc, removal, ctl, freed, hist>>

Msgs == 1..MaxMsgs
Contexts == {0, Reply}
ContextOf(m) == IF received[m] = "Reply" THEN Reply ELSE 0
ThreadNames == UNION {Threads[c] : c \in Contexts}
Home(v) == CHOOSE c \in Contexts : v \in Threads[c]

\* Two contexts, each with threads of its own.
NodeConstants ==
    /\ MaxMsgs \in Nat /\ Depth \in Nat /\ Reply \in Nat \ {0}
    /\ Kinds \subseteq
           {"NoOp", "WatchDog", "Shutdown", "FlushAddr", "StartSync", "Reply"}
    /\ {Stop, None} \cap Msgs = {}
    /\ \A c \in Contexts : IsFiniteSet(Threads[c])
    /\ Threads[0] \cap Threads[Reply] = {}
    /\ {"idle", "signal", "delete"} \cap ThreadNames = {}

NoContext == [disp |-> FALSE, handlers |-> {}, queue |-> <<>>, head |-> None]
NoThread == [pc |-> "none", msg |-> None, exit |-> FALSE]
NewThread == [NoThread EXCEPT !.pc = "get"]
Exited == [NoThread EXCEPT !.pc = "exited", !.exit = TRUE]
NextMessage == [pc |-> "get", msg |-> None]
NoRemoval == [of |-> None, pc |-> "idle", signals |-> 0, left |-> {}]

\* The constructor registers the handler of control events.
NodeInit ==
    /\ context = [c \in Contexts |->
           IF c = 0 THEN [NoContext EXCEPT !.disp = TRUE, !.handlers = {"Control"}]
           ELSE NoContext]
    /\ work = [v \in ThreadNames |-> IF Home(v) = 0 THEN NewThread ELSE NoThread]
    /\ acc = NextMessage
    /\ removal = NoRemoval
    /\ ctl = [start |-> 0, exit |-> 0, flag |-> FALSE, entry |-> TRUE,
              waited |-> FALSE, life |-> "up"]
    /\ freed = [m \in Msgs |-> 0]
    /\ received = <<>>
    /\ hist = [lost |-> {}, acted |-> [m \in Msgs |-> 0], failed |-> {}]

Freeing(ms) == [m \in Msgs |-> freed[m] + IF m \in ms THEN 1 ELSE 0]

-----------------------------------------------------------------------------
(* AccumThread, once a message is complete.                                *)

Complete(k) ==
    /\ acc.pc = "get" /\ Len(received) < MaxMsgs
    /\ received' = Append(received, k)
    /\ acc' = [pc |-> "put", msg |-> Len(received')]
    /\ UNCHANGED <<context, work, removal, ctl, freed, hist>>

\* Without a dispatcher the message is stored, in place of an earlier one.
Store ==
    /\ acc.pc = "put"
    /\ LET c == ContextOf(acc.msg) IN
           /\ ~context[c].disp
           /\ context' = [context EXCEPT ![c].head = acc.msg]
           /\ freed' = Freeing({context[c].head})
    /\ acc' = NextMessage
    /\ UNCHANGED <<received, work, removal, ctl, hist>>

\* Context 0 is persistent.
Persistent(c) == c = 0

\* The dispatcher takes the message; if its queue stays full for a second, the
\* message is deleted.  The context is removed in either case.
Submit ==
    /\ acc.pc = "put"
    /\ LET c == ContextOf(acc.msg) IN
           /\ context[c].disp
           /\ IF Len(context[c].queue) < Depth
              THEN /\ context' = [context EXCEPT ![c].queue = Append(@, acc.msg)]
                   /\ UNCHANGED <<freed, hist>>
              ELSE /\ freed' = Freeing({acc.msg})
                   /\ hist' = [hist EXCEPT !.failed = @ \cup {acc.msg}]
                   /\ UNCHANGED context
           /\ acc' = IF Persistent(c) THEN NextMessage ELSE [acc EXCEPT !.pc = "remove"]
    /\ UNCHANGED <<received, work, removal, ctl>>

-----------------------------------------------------------------------------
(* The end of a context: ~IpcContext and ~Dispatch.                        *)

Removing(c) == [of |-> c, pc |-> "signal",
                signals |-> Cardinality(Threads[c]), left |-> Threads[c]]

\* RemoveContext, in a critical section of its own.
RemoveContext ==
    /\ acc.pc = "remove"
    /\ LET c == ContextOf(acc.msg) IN
           /\ ~Persistent(c)
           /\ removal' = Removing(c)
           /\ freed' = Freeing({context[c].head})
           /\ context' = [context EXCEPT ![c].head = None]
    /\ acc' = [pc |-> "removing", msg |-> None]
    /\ UNCHANGED <<received, work, ctl, hist>>

\* A shutdown event for each thread, which a full queue refuses; then
\* NumThreadsSet(0) locks the stack mutex ...
Shutdown ==
    /\ removal.pc = "signal"
    /\ IF removal.signals = 0
       THEN /\ removal' = [removal EXCEPT !.pc = "delete"]
            /\ UNCHANGED context
       ELSE /\ removal' = [removal EXCEPT !.signals = @ - 1]
            /\ context' = IF Len(context[removal.of].queue) < Depth
                          THEN [context EXCEPT ![removal.of].queue = Append(@, Stop)]
                          ELSE context
    /\ UNCHANGED <<received, work, acc, ctl, freed, hist>>

StackLocked(c) == removal.of = c /\ removal.pc \in {"delete"} \cup ThreadNames

\* ... and deletes one thread after the other: it requests its exit ...
ExitReq(v) ==
    /\ removal.pc = "delete" /\ v \in removal.left
    /\ removal' = [removal EXCEPT !.pc = v, !.left = @ \ {v}]
    /\ work' = [work EXCEPT ![v].exit = TRUE]
    /\ UNCHANGED <<received, context, acc, ctl, freed, hist>>

\* ... and waits for it.
Joined(v) ==
    /\ removal.pc = v /\ work[v].pc = "exited"
    /\ work' = [work EXCEPT ![v] = NoThread]
    /\ removal' = [removal EXCEPT !.pc = "delete"]
    /\ UNCHANGED <<received, context, acc, ctl, freed, hist>>

\* The queue goes with the events in it.
Removed ==
    /\ removal.pc = "delete" /\ removal.left = {}
    /\ hist' = [hist EXCEPT !.lost =
                   @ \cup {m \in Msgs : m \in ToSet(context[removal.of].queue)}]
    /\ context' = [context EXCEPT ![removal.of] = NoContext]
    /\ removal' = NoRemoval
    /\ acc' = IF acc.pc = "removing" THEN NextMessage ELSE acc
    /\ UNCHANGED <<received, work, ctl, freed>>

-----------------------------------------------------------------------------
(* Dispatch threads: ThreadFunction with the handlers of IpcContext.       *)

\* An event taken from the queue is shown to no one else: PreDispatch makes a
\* packet of its message, or deletes it for want of memory, and the handlers are
\* run in either case.
Get(v) ==
    /\ work[v].pc = "get" /\ context[Home(v)].queue # <<>>
    /\ LET e == Head(context[Home(v)].queue) IN
           \/ /\ e # Stop
              /\ work' = [work EXCEPT ![v].pc = "copy", ![v].msg = e]
              /\ UNCHANGED <<freed, hist>>
           \/ /\ e # Stop
              /\ work' = [work EXCEPT ![v].pc = "copy"]
              /\ freed' = Freeing({e})
              /\ hist' = [hist EXCEPT !.failed = @ \cup {e}]
           \/ /\ e = Stop
              /\ work' = [work EXCEPT ![v].pc = "exited", ![v].exit = TRUE]
              /\ UNCHANGED <<freed, hist>>
    /\ context' = [context EXCEPT ![Home(v)].queue = Tail(@)]
    /\ UNCHANGED <<received, acc, removal, ctl>>

\* Get times out, or has not begun, and ThreadPoll finds the exit requested.
ThreadPoll(v) ==
    /\ work[v].pc = "get" /\ work[v].exit
    /\ work' = [work EXCEPT ![v].pc = "exited"]
    /\ UNCHANGED <<received, context, acc, removal, ctl, freed, hist>>

\* The handlers are copied under the stack mutex, which a removal may hold.
CopyHandlers(v) ==
    /\ work[v].pc = "copy"
    /\ ~StackLocked(Home(v))
    /\ work' = [work EXCEPT ![v].pc =
                   IF context[Home(v)].handlers = {} THEN "post" ELSE "run"]
    /\ UNCHANGED <<received, context, acc, removal, ctl, freed, hist>>

\* What a handler is asked to do.  Without a packet it does nothing.
Code(v) == IF work[v].msg = None THEN "NoPacket" ELSE received[work[v].msg]

Controls(v, code) == work[v].pc = "run" /\ Code(v) = code

\* The handler returns; PostDispatch deletes the packet, with the message.
Finish(v, handled) ==
    /\ work' = [work EXCEPT ![v] = IF @.exit THEN Exited ELSE NewThread]
    /\ freed' = Freeing({work[v].msg})
    /\ hist' = [hist EXCEPT !.acted = [m \in Msgs |->
                   @[m] + IF handled /\ work[v].msg = m THEN 1 ELSE 0]]

\* No handler, no packet, a control code without effect on the node, or a client's
\* handler.
RunHandler(v) ==
    /\ \/ work[v].pc = "post"
       \/ work[v].pc = "run" /\ Code(v) \in {"NoPacket", "NoOp", "WatchDog", "Reply"}
    /\ Finish(v, work[v].pc = "run")
    /\ UNCHANGED <<received, context, acc, removal, ctl>>

StartSync(v) ==
    /\ Controls(v, "StartSync")
    /\ ctl' = [ctl EXCEPT !.start = 1]
    /\ Finish(v, TRUE)
    /\ UNCHANGED <<received, context, acc, removal>>

\* SignalExit gives the semaphore, whose limit is 1, ...
SignalExit(v) ==
    /\ Controls(v, "Shutdown")
    /\ ctl' = [ctl EXCEPT !.exit = 1]
    /\ work' = [work EXCEPT ![v].pc = IF ctl.exit = 0 THEN "given" ELSE "refused"]
    /\ UNCHANGED <<received, context, acc, removal, freed, hist>>

\* ... and keeps in m_Flag1 whether it could.
SignalExitFlag(v) ==
    /\ work[v].pc \in {"given", "refused"}
    /\ ctl' = [ctl EXCEPT !.flag = work[v].pc = "given"]
    /\ Finish(v, TRUE)
    /\ UNCHANGED <<received, context, acc, removal>>

\* FlushAddrCache clears the cache, ...  The resolver is destroyed before the
\* threads are stopped: a flush that comes then ends in "crashed".
FlushAddrCache(v) ==
    /\ Controls(v, "FlushAddr")
    /\ IF ctl.life = "up"
       THEN /\ ctl' = [ctl EXCEPT !.entry = FALSE]
            /\ work' = [work EXCEPT ![v].pc = "flushed"]
       ELSE /\ ctl' = [ctl EXCEPT !.life = "crashed"]
            /\ UNCHANGED work
    /\ UNCHANGED <<received, context, acc, removal, freed, hist>>

\* Mutant: the cache stays empty.
AddressAdd_Never(v) ==
    /\ work[v].pc = "flushed"
    /\ ctl' = IF ctl.life = "up" THEN ctl ELSE [ctl EXCEPT !.life = "crashed"]
    /\ Finish(v, TRUE)
    /\ UNCHANGED <<received, context, acc, removal>>

\* ... and enters the resolver node, in another critical section.
AddressAdd(v) ==
    /\ work[v].pc = "flushed"
    /\ ctl' = IF ctl.life = "up" THEN [ctl EXCEPT !.entry = TRUE]
              ELSE [ctl EXCEPT !.life = "crashed"]
    /\ Finish(v, TRUE)
    /\ UNCHANGED <<received, context, acc, removal>>

-----------------------------------------------------------------------------
(* Clients, and the end of the node.                                       *)

\* m_Mutex is free, but for the accesses that are one step.
MutexFree == removal.pc = "idle" /\ ctl.life = "up"

\* RegisterHandler for a reply.  A message that is stored already stays where it
\* is.
RegisterHandler ==
    /\ MutexFree
    /\ "Client" \notin context[Reply].handlers
    /\ context' = [context EXCEPT ![Reply].disp = TRUE,
                                  ![Reply].handlers = @ \cup {"Client"}]
    /\ work' = [v \in ThreadNames |->
           IF Home(v) = Reply /\ ~context[Reply].disp THEN NewThread ELSE work[v]]
    /\ UNCHANGED <<received, acc, removal, ctl, freed, hist>>

RemoveHandler ==
    /\ MutexFree
    /\ "Client" \in context[Reply].handlers
    /\ context' = [context EXCEPT ![Reply].handlers = @ \ {"Client"}]
    /\ UNCHANGED <<received, work, acc, removal, ctl, freed, hist>>

WaitForSync ==
    /\ ctl.life = "up" /\ ctl.start = 1
    /\ ctl' = [ctl EXCEPT !.start = 0]
    /\ UNCHANGED <<received, context, work, acc, removal, freed, hist>>

WaitForExit ==
    /\ ctl.life = "up" /\ ctl.exit = 1
    /\ ctl' = [ctl EXCEPT !.exit = 0, !.waited = TRUE]
    /\ UNCHANGED <<received, context, work, acc, removal, freed, hist>>

\* ~IpcNode: the resolver and the transmit queue are the first members to go.
DestroyResolver ==
    /\ ctl.life = "up"
    /\ ctl' = [ctl EXCEPT !.life = "members", !.entry = FALSE]
    /\ UNCHANGED <<received, context, work, acc, removal, freed, hist>>

\* ~IpcAccumMap waits for the accumulator thread,
StopAccum ==
    /\ ctl.life = "members" /\ acc.pc = "get"
    /\ acc' = [acc EXCEPT !.pc = "exited"]
    /\ UNCHANGED <<received, context, work, removal, ctl, freed, hist>>

\* and the map goes, context by context.
DestroyContext(c) ==
    /\ ctl.life = "members" /\ acc.pc = "exited" /\ removal.pc = "idle"
    /\ IF context[c].disp
       THEN removal' = Removing(c)
       ELSE /\ context[c].head # None
            /\ UNCHANGED removal
    /\ freed' = Freeing({context[c].head})
    /\ context' = [context EXCEPT ![c].head = None]
    /\ UNCHANGED <<received, work, acc, ctl, hist>>

Handle(v) ==
    \/ Get(v)
    \/ ThreadPoll(v)
    \/ CopyHandlers(v)
    \/ RunHandler(v)
    \/ StartSync(v)
    \/ SignalExit(v)
    \/ SignalExitFlag(v)
    \/ FlushAddrCache(v)
    \/ AddressAdd(v)

NodeNext ==
    /\ ctl.life # "crashed"
    /\ \/ \E k \in Kinds : Complete(k)
       \/ Store
       \/ Submit
       \/ RemoveContext
       \/ Shutdown
       \/ \E v \in ThreadNames : ExitReq(v) \/ Joined(v)
       \/ Removed
       \/ \E v \in ThreadNames : Handle(v)
       \/ RegisterHandler
       \/ RemoveHandler
       \/ WaitForSync
       \/ WaitForExit
       \/ DestroyResolver
       \/ StopAccum
       \/ \E c \in Contexts : DestroyContext(c)

NodeSpec == NodeInit /\ [][NodeNext]_vars

-----------------------------------------------------------------------------
Places(m) ==
    {<<"head", c>> : c \in {d \in Contexts : context[d].head = m}}
        \cup {<<"queue", c>> : c \in {d \in Contexts : m \in ToSet(context[d].queue)}}
        \cup {<<"thread", v>> : v \in {u \in ThreadNames : work[u].msg = m}}
        \cup (IF acc.pc = "put" /\ acc.msg = m THEN {<<"acc", 0>>} ELSE {})
        \cup (IF m \in hist.lost THEN {<<"lost", 0>>} ELSE {})

Shutdowns == {m \in DOMAIN received : received[m] = "Shutdown" /\ hist.acted[m] > 0}
Signalling == \E v \in ThreadNames : work[v].pc \in {"given", "refused"}
Flushing == \E v \in ThreadNames : work[v].pc = "flushed"

\* Every message has one owner until it is deleted, once, or lost with the queue
\* of a dispatcher.  A node that is up loses replies only, never a control event:
\* what came of one that is deleted is that the node acted on it, once, or could
\* not hold it.  The first shutdown shows in CheckForExit and in WaitForExit; no
\* order of flushes leaves the cache without the resolver node; and no handler
\* runs for a dispatcher that is gone.
ControlIsActedOn ==
    /\ \A m \in DOMAIN received : Cardinality(Places(m)) + freed[m] = 1
    /\ ctl.life = "up" =>
          /\ \A m \in hist.lost : ContextOf(m) = Reply
          /\ \A m \in DOMAIN received : ContextOf(m) = 0 /\ freed[m] = 1 =>
                hist.acted[m] = IF m \in hist.failed THEN 0 ELSE 1
          /\ ctl.entry \/ Flushing
    /\ Cardinality(Shutdowns) = 1 /\ ~Signalling =>
          /\ ctl.flag
          /\ ctl.exit = 1 \/ ctl.waited
    /\ \A v \in ThreadNames : work[v].pc # "none" => context[Home(v)].disp
=============================================================================
