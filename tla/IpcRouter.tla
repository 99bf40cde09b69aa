------------------------------ MODULE IpcRouter ------------------------------
(***************************************************************************)
(* IpcRouter and the IpcResolvers of the nodes that use it.  A node's name *)
(* is resolved to an address by its sender, perhaps long ago, from a cache *)
(* (IpcResolver); the address is resolved to a queue by the router's       *)
(* thread; and nodes come and go meanwhile.  Both maps of the router are   *)
(* under one mutex, which each access takes anew, so every access is a     *)
(* step: NodeCreate is two, and the thread uses the queue that QueueFind   *)
(* returned after the mutex is released.                                   *)
(*                                                                         *)
(* How a request reaches NodeCreate, NodeFind and NodeDel is the program's *)
(* matter (the library has none): servers and senders call them.           *)
(***************************************************************************)
EXTENDS Naturals, Sequences, FiniteSets, Functions

CONSTANTS
    Servers,        \* threads that create and delete nodes
    Senders,        \* threads that send, each with a resolver
    Names,          \* names of nodes
    Broadcast,      \* k_BroadcastNode
    Stale,          \* the name an old message was sent to, before this router began
    MaxAddr,        \* stands for ~0, an address that no node gets
    Depth           \* k_IpcCommsQueueDepth

VARIABLES
    nodes,          \* [next, queues, names]: m_NextNodeAddr, the domain of m_NodeQueues, m_NodeAddresses
    box,            \* box[a]: what the message queue of address a holds
    owner,          \* owner[a]: the name that address a was given to
    incoming,       \* what m_RecvDevice holds
    client,         \* client[c]: the call a server or a sender is in
    cache,          \* cache[c]: m_AddrMap of its resolver
    router          \* the router's thread: [pc, msg, left]

\* What is asked of the constants: the address that no node gets is a number, and an
\* old message has no name of today.
RouterConstants ==
    /\ MaxAddr \in Nat \ {0} /\ Depth \in Nat
    /\ Broadcast \notin Names /\ Stale \notin Names \cup {Broadcast}

vars == <<nodes, box, owner, incoming, client, cache, router>>

Addrs == 1..(MaxAddr - 1)
OldMessage(a) == [to |-> Stale, dst |-> a]

NoCall == [pc |-> "idle", name |-> Broadcast, addr |-> 0]
Waiting == [pc |-> "recv", msg |-> OldMessage(1), left |-> {}]

\* A map with one more entry, or with another value for one.
With(map, x, value) == [y \in DOMAIN map \cup {x} |-> IF y = x THEN value ELSE map[y]]

\* NodeFind: 0 if the name is unknown.
NodeFind(name) == IF name \in DOMAIN nodes.names THEN nodes.names[name] ELSE 0

RouterInit ==
    /\ nodes = [next |-> 1, queues |-> {}, names |-> <<>>]
    /\ box = [a \in Addrs |-> <<>>]
    /\ owner = [a \in Addrs |-> Stale]
    /\ incoming = <<>>
    /\ client = [c \in Servers \cup Senders |-> NoCall]
    /\ cache = [c \in Senders |-> <<>>]
    /\ router = [Waiting EXCEPT !.pc = "start"]

-----------------------------------------------------------------------------
(* The life of the router.  A message queue outlives the process that made *)
(* it: what an earlier one left in it is flushed before it is used.        *)

Flushed(queue) == <<>>

\* The constructor opens its device, which may hold a message that another
\* process sent.  The thread is still suspended.
OpenDevice ==
    /\ router.pc = "start" /\ incoming = <<>>
    /\ incoming' = <<OldMessage(1)>>
    /\ UNCHANGED <<nodes, box, owner, client, cache, router>>

Start ==
    /\ router.pc = "start"
    /\ incoming' = Flushed(incoming)
    /\ nodes' = [nodes EXCEPT !.names = With(@, Broadcast, MaxAddr)]
    /\ router' = Waiting
    /\ UNCHANGED <<box, owner, client, cache>>

-----------------------------------------------------------------------------
(* Nodes.                                                                  *)

\* NodeCreate asks whether the name is taken ...
NodeCreate(c, name) ==
    /\ router.pc # "start" /\ client[c].pc = "idle"
    /\ NodeFind(name) = 0
    /\ client' = [client EXCEPT ![c] = [pc |-> "add", name |-> name, addr |-> 0]]
    /\ UNCHANGED <<nodes, box, owner, incoming, cache, router>>

\* Mutant: the address after those in use.
NextAddr_ByCount == Cardinality(nodes.queues) + 1

\* ... and NodeAdd takes the next address, under the mutex, ...
NextAddr == nodes.next

TakeAddr(c) ==
    /\ client[c].pc = "add"
    /\ IF nodes.next < MaxAddr
       THEN /\ nodes' = [nodes EXCEPT !.next = NextAddr + 1]
            /\ client' = [client EXCEPT ![c].pc = "open", ![c].addr = NextAddr]
       ELSE /\ client' = [client EXCEPT ![c] = NoCall]
            /\ UNCHANGED nodes
    /\ UNCHANGED <<box, owner, incoming, cache, router>>

\* ... opens the queue of that address, which may hold an old message, flushes
\* it, and enters queue and name, under the mutex again, ...
NodeAdd(c) ==
    /\ client[c].pc = "open"
    /\ LET a == client[c].addr
           name == client[c].name
       IN /\ box' = [box EXCEPT ![a] = Flushed(<<OldMessage(a)>>)]
          /\ owner' = [owner EXCEPT ![a] = name]
          /\ nodes' = [nodes EXCEPT !.queues = @ \cup {a}, !.names = With(@, name, a)]
    /\ client' = [client EXCEPT ![c] = NoCall]
    /\ UNCHANGED <<incoming, cache, router>>

\* ... or cannot open it, and deletes the object.  The address is used up.
QueueInvalid(c) ==
    /\ client[c].pc = "open"
    /\ client' = [client EXCEPT ![c] = NoCall]
    /\ UNCHANGED <<nodes, box, owner, incoming, cache, router>>

\* The names of an address: more than one is possible for MaxAddr only, and
\* NodeDel removes one.
NameOf(a) == {n \in DOMAIN nodes.names : nodes.names[n] = a}

\* NodeDel, all of it under the mutex.  The address may be MaxAddr, which is no
\* node's: the broadcast name goes.
NodeDel(c, a) ==
    /\ router.pc # "start" /\ client[c].pc = "idle"
    /\ a \in nodes.queues \cup Range(nodes.names)
    /\ \E n \in NameOf(a) \cup {Stale} :
          /\ n = Stale => NameOf(a) = {}
          /\ nodes' = [nodes EXCEPT !.queues = @ \ {a},
                                    !.names = Restrict(@, DOMAIN @ \ {n})]
    /\ box' = IF a \in Addrs THEN [box EXCEPT ![a] = <<>>] ELSE box
    /\ UNCHANGED <<owner, incoming, client, cache, router>>

-----------------------------------------------------------------------------
(* Senders.                                                                *)

\* NodeAddrLookup finds the name in the cache, or asks the router ...
Lookup(c, name) ==
    /\ router.pc # "start" /\ client[c].pc = "idle"
    /\ IF name \in DOMAIN cache[c]
       THEN client' = [client EXCEPT ![c] = [pc |-> "send", name |-> name,
                                            addr |-> cache[c][name]]]
       ELSE /\ NodeFind(name) # 0
            /\ client' = [client EXCEPT ![c] = [pc |-> "cache", name |-> name,
                                               addr |-> NodeFind(name)]]
    /\ UNCHANGED <<nodes, box, owner, incoming, cache, router>>

\* ... whose answer it keeps: AddressAdd.
AddressAdd(c) ==
    /\ client[c].pc = "cache"
    /\ cache' = [cache EXCEPT ![c] = With(@, client[c].name, client[c].addr)]
    /\ client' = [client EXCEPT ![c].pc = "send"]
    /\ UNCHANGED <<nodes, box, owner, incoming, router>>

\* IpcResolver::Clear, for FlushAddrCache.
Clear(c) ==
    /\ client[c].pc = "idle" /\ cache[c] # <<>>
    /\ cache' = [cache EXCEPT ![c] = <<>>]
    /\ UNCHANGED <<nodes, box, owner, incoming, client, router>>

\* The node's transport puts the message into the router's device, or fails to.
ToRouter(c) ==
    /\ client[c].pc = "send"
    /\ \/ /\ Len(incoming) < Depth
          /\ incoming' = Append(incoming, [to |-> client[c].name, dst |-> client[c].addr])
       \/ UNCHANGED incoming
    /\ client' = [client EXCEPT ![c] = NoCall]
    /\ UNCHANGED <<nodes, box, owner, cache, router>>

-----------------------------------------------------------------------------
(* RtrThread.                                                              *)

Recv ==
    /\ router.pc = "recv" /\ incoming # <<>>
    /\ router' = [pc |-> "find", msg |-> Head(incoming), left |-> {}]
    /\ incoming' = Tail(incoming)
    /\ UNCHANGED <<nodes, box, owner, client, cache>>

\* Send looks for the queue of the address; without one it lists all queues
\* for the broadcast address and gives up for another.
QueueFind ==
    /\ router.pc = "find"
    /\ LET dst == router.msg.dst
           found == IF dst = MaxAddr THEN nodes.queues ELSE nodes.queues \cap {dst}
       IN router' = IF found = {} THEN Waiting
                    ELSE [router EXCEPT !.pc = "send", !.left = found]
    /\ UNCHANGED <<nodes, box, owner, incoming, client, cache>>

\* Send to the last of the queues found, which is that of the highest address, until
\* none is left.  One that has been deleted since is a freed object: the thread ends
\* in "crashed".  A full queue times out.
SendOne ==
    /\ router.pc = "send"
    /\ \E a \in router.left :
          /\ \A b \in router.left : b <= a
          /\ IF a \in nodes.queues
             THEN /\ router' = IF router.left = {a} THEN Waiting ELSE [router EXCEPT !.left = @ \ {a}]
                  /\ box' = IF Len(box[a]) < Depth
                            THEN [box EXCEPT ![a] = Append(@, router.msg)] ELSE box
             ELSE /\ router' = [router EXCEPT !.pc = "crashed"]
                  /\ UNCHANGED box
    /\ UNCHANGED <<nodes, owner, incoming, client, cache>>

\* A node takes a message from its queue.
NodeRecv(a) ==
    /\ a \in nodes.queues /\ box[a] # <<>>
    /\ box' = [box EXCEPT ![a] = Tail(@)]
    /\ UNCHANGED <<nodes, owner, incoming, client, cache, router>>

RouterNext ==
    \/ OpenDevice
    \/ Start
    \/ \E c \in Servers, name \in Names : NodeCreate(c, name)
    \/ \E c \in Servers : TakeAddr(c)
    \/ \E c \in Servers : NodeAdd(c)
    \/ \E c \in Servers : QueueInvalid(c)
    \/ \E c \in Servers, a \in 1..MaxAddr : NodeDel(c, a)
    \/ \E c \in Senders, name \in Names \cup {Broadcast} : Lookup(c, name)
    \/ \E c \in Senders : AddressAdd(c)
    \/ \E c \in Senders : Clear(c)
    \/ \E c \in Senders : ToRouter(c)
    \/ Recv
    \/ QueueFind
    \/ SendOne
    \/ \E a \in Addrs : NodeRecv(a)

RouterSpec == RouterInit /\ [][RouterNext]_vars

-----------------------------------------------------------------------------
\* A message in a node's queue was sent to that node's name, or to all: not to a
\* node deleted since whose address a cache has kept, not before the router began,
\* and not to the other of two nodes that were created under one name at once.  A
\* name in the router's map is that of a node there is.
NamesReachTheirNodes ==
    /\ \A a \in nodes.queues, i \in 1..Depth :
          i \in DOMAIN box[a] => box[a][i].to \in {owner[a], Broadcast}
    /\ \A n \in DOMAIN nodes.names :
          nodes.names[n] # MaxAddr =>
             nodes.names[n] \in nodes.queues /\ owner[nodes.names[n]] = n
=============================================================================
