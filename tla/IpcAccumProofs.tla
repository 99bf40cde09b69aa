--------------------------- MODULE IpcAccumProofs ---------------------------
(***************************************************************************)
(* Theorems about IpcAccum, for any messages, contexts, clients, depth of  *)
(* the queue and number of arrivals.                                       *)
(***************************************************************************)
EXTENDS IpcAccum, ListLemmas, FiniteSetTheorems, SequenceTheorems, TLAPS

-----------------------------------------------------------------------------
(* The invariant behind the types: who may hold which objects when.        *)

\* Arrivals are numbered one after the other.
InOrder == \E n \in 0 .. Arrivals : Arrived = 1 .. n

\* Which steps of the threads exclude each other.
Phases ==
    /\ handler \subseteq Handled
    /\ IF acc = "remove" THEN msgId \in handler ELSE msgId = 0
    /\ recv.at = "recv" <=> recv.seg = Null
    /\ dtor # "none" => /\ recv.at = "recv"
                        /\ \A w \in Clients : client[w] \in {"idle", "timedOut", "done"}
    /\ dtor = "destroyed" => acc = "exited"
    /\ Null \in Range(queue) => dtor = "waitExit"

\* Objects of one message only, and none that has not arrived.
OfMessage(list, m) == \A o \in Range(list) : o \in Arrived /\ MessageOf(o) = m

\* The same for any message of a context.
OfContext(list, c) == \A o \in Range(list) : o \in Arrived /\ Context[MessageOf(o)] = c

HeldBefore ==
    /\ recv.seg \in Arrived \cup {Null}
    /\ Range(queue) \subseteq Arrived \cup {Null}

HeldItem ==
    /\ acc = "handle" => \E o \in Arrived \cup {Null} : item = <<o>>
    /\ acc = "put" => /\ item \in Seq(Objects) /\ item # <<>>
                      /\ \E m \in Messages : OfMessage(item, m)
    /\ acc \notin {"handle", "put"} => item = <<>>

HeldAccum == \A m \in Messages : OfMessage(accum[m], m)
HeldHead == \A c \in Contexts : OfContext(head[c], c)
HeldResponse == \A w \in Clients : OfContext(response[w], Request[w])

HeldHistory ==
    /\ dispatched \subseteq Arrived
    /\ \A list \in delivered : list # <<>> /\ \E m \in Messages : OfMessage(list, m)

Held == HeldBefore /\ HeldItem /\ HeldAccum /\ HeldHead /\ HeldResponse /\ HeldHistory

TypeInv == TypeOK /\ InOrder /\ Phases /\ Held

-----------------------------------------------------------------------------
(* The operators.                                                          *)

\* What has arrived is a segment of a message.
LEMMA ArrivedProperties ==
    ASSUME TypeOK
    PROVE  /\ Arrived \subseteq Objects
           /\ \A o \in Arrived :
                 /\ content[o] \in Segments /\ MessageOf(o) \in Messages
                 /\ FragNum(o) \in 1 .. Length[MessageOf(o)]
                 /\ content[o] = <<MessageOf(o), FragNum(o)>>
                 /\ Context[MessageOf(o)] \in Contexts
<1>1. Arrived \subseteq Objects /\ \A o \in Arrived : content[o] \in Segments
  BY DEF Arrived, TypeOK
<1>2. \A s \in Segments : s[1] \in Messages /\ s[2] \in 1 .. Length[s[1]] /\ s = <<s[1], s[2]>>
  BY DEF Segments
<1>3. \A m \in Messages : Context[m] \in Contexts
  BY IpcAccumAssumption DEF Contexts, Range
<1> QED
  BY <1>1, <1>2, <1>3 DEF MessageOf, FragNum

\* The constants: clients wait in contexts of their own, which have no handler.
LEMMA ContextProperties ==
    /\ \A w \in Clients : Request[w] \in Contexts /\ Request[w] \notin Handled
    /\ Handled \subseteq Contexts /\ 0 \in Handled
BY IpcAccumAssumption DEF Contexts, Range

\* The list new is list with o put in front of the element at p.
PutAt(new, list, o, p) ==
    \A i \in 1 .. Len(list) + 1 :
        new[i] = IF i < p THEN list[i] ELSE IF i = p THEN o ELSE list[i - 1]

\* SubmitSegment adds the segment to the list, wherever it puts it.
LEMMA InsertedProperties ==
    ASSUME NEW list \in Seq(Objects), NEW o \in Objects
    PROVE  /\ Inserted(list, o) \in Seq(Objects)
           /\ Len(list) \in Nat /\ Len(Inserted(list, o)) = Len(list) + 1
           /\ \E p \in 1 .. Len(list) + 1 :
                /\ PutAt(Inserted(list, o), list, o, p)
                /\ \A i \in 1 .. Len(list) : i < p => ~ (FragNum(o) < FragNum(list[i]))
                /\ p <= Len(list) => FragNum(o) < FragNum(list[p])
<1> DEFINE higher == {i \in DOMAIN list : FragNum(o) < FragNum(list[i])}
<1>1. Len(list) \in Nat /\ DOMAIN list = 1 .. Len(list)
  BY LenProperties
<1>2. CASE higher = {}
  <2>1. Inserted(list, o) = Append(list, o)
    BY <1>2 DEF Inserted
  <2>2. /\ Append(list, o) \in Seq(Objects) /\ Len(Append(list, o)) = Len(list) + 1
        /\ \A i \in 1 .. Len(list) : Append(list, o)[i] = list[i]
        /\ Append(list, o)[Len(list) + 1] = o
    BY AppendProperties
  <2>3. \A i \in 1 .. Len(list) + 1 : i \in 1 .. Len(list) \/ i = Len(list) + 1
    BY <1>1
  <2>4. \A i \in 1 .. Len(list) : ~ (FragNum(o) < FragNum(list[i]))
    BY <1>1, <1>2
  <2>5. \A i \in 1 .. Len(list) : i < Len(list) + 1
    BY <1>1
  <2>6. Len(list) + 1 \in 1 .. Len(list) + 1 /\ ~ (Len(list) + 1 <= Len(list))
        /\ ~ (Len(list) + 1 < Len(list) + 1)
    BY <1>1
  <2>7. PutAt(Append(list, o), list, o, Len(list) + 1)
    BY <2>2, <2>3, <2>5, <2>6 DEF PutAt
  <2> HIDE DEF higher
  <2> QED
    BY <1>1, <2>1, <2>2, <2>4, <2>6, <2>7
<1>3. CASE higher # {}
  <2> DEFINE p == Min(higher)
  <2>1. higher \subseteq Nat
    BY <1>1
  <2>2. p \in higher /\ \A y \in higher : p <= y
    BY <1>3, <2>1, MinExists
  <2>3. Inserted(list, o) = InsertAt(list, p, o)
    BY <1>3 DEF Inserted
  <2>4. p \in 1 .. Len(list) /\ FragNum(o) < FragNum(list[p])
    BY <1>1, <2>2
  <2>5. \A i \in 1 .. Len(list) : i < p => ~ (FragNum(o) < FragNum(list[i]))
    <3>1. ASSUME NEW i \in 1 .. Len(list), i < p, i \in higher PROVE FALSE
      <4>1. p <= i
        BY <2>2, <3>1
      <4>2. p \in Nat /\ i \in Nat
        BY <1>1, <2>4
      <4> HIDE DEF p
      <4> QED
        BY <3>1, <4>1, <4>2
    <3> QED
      BY <1>1, <3>1
  <2>6. p \in 1 .. Len(list) + 1
    BY <1>1, <2>4
  <2> HIDE DEF higher, p
  <2>7. /\ InsertAt(list, p, o) \in Seq(Objects)
        /\ Len(InsertAt(list, p, o)) = Len(list) + 1
        /\ PutAt(InsertAt(list, p, o), list, o, p)
    BY <2>6, InsertAtProperties DEF PutAt
  <2> QED
    BY <1>1, <2>3, <2>4, <2>5, <2>6, <2>7
<1> QED
  BY <1>2, <1>3

\* Its elements.
LEMMA InsertedRange ==
    ASSUME NEW list \in Seq(Objects), NEW o \in Objects
    PROVE  Range(Inserted(list, o)) = Range(list) \cup {o}
<1> DEFINE new == Inserted(list, o)
<1>p. PICK p \in 1 .. Len(list) + 1 : PutAt(new, list, o, p)
  BY InsertedProperties
<1>1. \A i \in 1 .. Len(list) + 1 :
         new[i] = IF i < p THEN list[i] ELSE IF i = p THEN o ELSE list[i - 1]
  BY <1>p DEF PutAt
<1>2. new \in Seq(Objects) /\ Len(new) = Len(list) + 1 /\ Len(list) \in Nat
  BY InsertedProperties
<1> HIDE DEF new
<1>3. DOMAIN new = 1 .. Len(list) + 1 /\ DOMAIN list = 1 .. Len(list)
  BY <1>2, LenProperties
<1>4. \A i \in DOMAIN new : new[i] \in Range(list) \cup {o}
  <2>1. ASSUME NEW i \in DOMAIN new PROVE new[i] \in Range(list) \cup {o}
    <3>1. CASE i < p
      BY <1>1, <1>2, <1>3, <3>1 DEF Range
    <3>2. CASE i = p
      BY <1>1, <1>3, <3>2
    <3>3. CASE i > p
      <4>1. i - 1 \in DOMAIN list /\ new[i] = list[i - 1]
        BY <1>1, <1>2, <1>3, <3>3
      <4> QED
        BY <4>1 DEF Range
    <3> QED
      BY <1>2, <1>3, <3>1, <3>2, <3>3
  <2> QED
    BY <2>1
<1>5. \A i \in DOMAIN list : \E j \in DOMAIN new : new[j] = list[i]
  <2>1. ASSUME NEW i \in DOMAIN list PROVE \E j \in DOMAIN new : new[j] = list[i]
    <3>1. CASE i < p
      <4>1. i \in DOMAIN new /\ new[i] = list[i]
        BY <1>1, <1>2, <1>3, <3>1
      <4> QED
        BY <4>1
    <3>2. CASE ~ (i < p)
      <4>1. i + 1 \in DOMAIN new /\ ~ (i + 1 < p) /\ i + 1 # p /\ i + 1 - 1 = i
        BY <1>2, <1>3, <3>2
      <4>2. new[i + 1] = list[i]
        BY <1>1, <1>3, <4>1
      <4> QED
        BY <4>1, <4>2
    <3> QED
      BY <3>1, <3>2
  <2> QED
    BY <2>1
<1>6. p \in DOMAIN new /\ new[p] = o
  BY <1>1, <1>2, <1>3
<1>7. Range(new) = Range(list) \cup {o}
  <2>1. Range(new) \subseteq Range(list) \cup {o}
    BY <1>4 DEF Range
  <2>2. Range(list) \subseteq Range(new)
    BY <1>5 DEF Range
  <2>3. o \in Range(new)
    BY <1>6 DEF Range
  <2> QED
    BY <2>1, <2>2, <2>3
<1> QED
  BY <1>7 DEF new

\* A list of one element.
LEMMA SingleRange ==
    ASSUME NEW x PROVE Range(<<x>>) = {x}
<1>1. <<x>> \in Seq({x}) /\ Len(<<x>>) = 1 /\ <<x>>[1] = x
  OBVIOUS
<1>2. DOMAIN <<x>> = 1 .. 1
  BY <1>1, LenProperties
<1> QED
  BY <1>1, <1>2 DEF Range

\* The elements of a list that lost its first one, and of one with one more.
LEMMA QueueShape ==
    ASSUME NEW S, NEW q \in Seq(S)
    PROVE  /\ Len(q) \in Nat
           /\ q # <<>> => /\ Head(q) \in Range(q) /\ Head(q) \in S
                          /\ Tail(q) \in Seq(S) /\ Len(Tail(q)) = Len(q) - 1
                          /\ Range(Tail(q)) \subseteq Range(q)
           /\ \A x \in S : /\ Append(q, x) \in Seq(S) /\ Len(Append(q, x)) = Len(q) + 1
                           /\ Range(Append(q, x)) = Range(q) \cup {x}
<1>1. Len(q) \in Nat /\ DOMAIN q = 1 .. Len(q)
  BY LenProperties
<1>2. ASSUME q # <<>>
      PROVE  /\ Head(q) \in Range(q) /\ Head(q) \in S
             /\ Tail(q) \in Seq(S) /\ Len(Tail(q)) = Len(q) - 1
             /\ Range(Tail(q)) \subseteq Range(q)
  <2>1. Len(q) \in Nat \ {0} /\ Head(q) = q[1]
    BY <1>1, <1>2, EmptySeq, LenProperties
  <2>2. /\ Tail(q) \in Seq(S) /\ Len(Tail(q)) = Len(q) - 1 /\ Head(q) \in S
        /\ \A i \in 1 .. Len(Tail(q)) : Tail(q)[i] = q[i + 1]
    BY <1>2, HeadTailProperties
  <2>3. DOMAIN Tail(q) = 1 .. Len(q) - 1
    BY <2>2, LenProperties
  <2>4. \A i \in DOMAIN Tail(q) : i + 1 \in DOMAIN q /\ Tail(q)[i] = q[i + 1]
    BY <1>1, <2>2, <2>3
  <2>5. 1 \in DOMAIN q
    BY <1>1, <2>1
  <2> QED
    BY <2>1, <2>2, <2>4, <2>5 DEF Range
<1>3. ASSUME NEW x \in S
      PROVE  /\ Append(q, x) \in Seq(S) /\ Len(Append(q, x)) = Len(q) + 1
             /\ Range(Append(q, x)) = Range(q) \cup {x}
  BY AppendProperties, AppendShape
<1> QED
  BY <1>1, <1>2, <1>3

-----------------------------------------------------------------------------
(* What has arrived stays what it is.                                      *)

Kept == \A o \in Arrived : o \in Arrived' /\ content'[o] = content[o]

\* The receive thread writes a segment into the next object.
LEMMA ReceiveShape ==
    ASSUME TypeOK, InOrder, NEW s \in Segments, Receive(s)
    PROVE  \E o \in Objects :
              /\ o \notin Arrived
              /\ content' \in [Objects -> Segments \cup {Null}]
              /\ content'[o] = s /\ \A p \in Objects : p # o => content'[p] = content[p]
              /\ recv' = [at |-> "submit", seg |-> o]
              /\ Arrived' = Arrived \cup {o} /\ InOrder'
<1>1. PICK n \in 0 .. Arrivals : Arrived = 1 .. n
  BY DEF InOrder
<1>2. Arrivals \in Nat /\ n \in Nat /\ Objects = 1 .. Arrivals
  BY IpcAccumAssumption DEF Objects
<1>3. Cardinality(Arrived) = n
  <2>1. Cardinality(1 .. n) = IF 1 <= n THEN n - 1 + 1 ELSE 0
    BY <1>2, FS_Interval
  <2>2. n = 0 \/ 1 <= n
    BY <1>2
  <2> QED
    BY <1>1, <1>2, <2>1, <2>2
<1>4. n # Arrivals
  BY <1>1, <1>2 DEF Receive
<1>5. n + 1 \in Objects /\ n + 1 \notin 1 .. n /\ 1 .. n + 1 = (1 .. n) \cup {n + 1}
      /\ n + 1 \in 0 .. Arrivals
  BY <1>2, <1>4
<1>6. /\ content' = [content EXCEPT ![n + 1] = s]
      /\ recv' = [at |-> "submit", seg |-> n + 1]
  BY <1>3 DEF Receive
<1>7. s # Null
  BY IpcAccumAssumption
<1>8. /\ content' \in [Objects -> Segments \cup {Null}]
      /\ content'[n + 1] = s /\ \A p \in Objects : p # n + 1 => content'[p] = content[p]
  BY <1>5, <1>6 DEF TypeOK
<1>9. Arrived' = Arrived \cup {n + 1}
  BY <1>5, <1>7, <1>8 DEF Arrived
<1>10. InOrder'
  <2>1. Arrived' = 1 .. n + 1
    BY <1>1, <1>5, <1>9
  <2> QED
    BY <1>5, <2>1 DEF InOrder
<1> QED
  BY <1>1, <1>5, <1>6, <1>8, <1>9, <1>10

\* Only Receive writes segments.
LEMMA ContentStep ==
    ASSUME [Next]_vars
    PROVE  content' = content \/ \E s \in Segments : Receive(s)
BY DEF Next, vars, recvVars, Submit, SubmitRefused, RecvDelete, Accumulate, AccPoll,
       AccGet, AccGetTimeout, AccAccumulate, AccSingle, AccSweep, AccStore, AccDispatch,
       AccRemove, GetResponse, MessageGetTimeout, Respond, MessageGetTake,
       MessageGetRead, MessageGetClear, GetResponseRemove, DtorExitReq, DtorRelease,
       DtorEnd

\* An object that has arrived keeps its segment.
LEMMA KeptStep ==
    ASSUME TypeOK, InOrder, [Next]_vars
    PROVE  Kept /\ InOrder'
<1>1. CASE content' = content
  BY <1>1 DEF Kept, Arrived, InOrder
<1>2. CASE \E s \in Segments : Receive(s)
  BY <1>2, ReceiveShape, ArrivedProperties DEF Kept
<1> QED
  BY <1>1, <1>2, ContentStep

\* What holds only objects that have arrived and is left alone still does.
LEMMA Unmoved ==
    ASSUME Held, Kept
    PROVE  /\ UNCHANGED <<recv, queue>> => HeldBefore'
           /\ UNCHANGED <<acc, item>> => HeldItem'
           /\ UNCHANGED accum => HeldAccum'
           /\ UNCHANGED head => HeldHead'
           /\ UNCHANGED response => HeldResponse'
           /\ UNCHANGED <<dispatched, delivered>> => HeldHistory'
           /\ \A list, m : OfMessage(list, m) => OfMessage(list, m)'
           /\ \A list, c : OfContext(list, c) => OfContext(list, c)'
<1>1. \A o \in Arrived : o \in Arrived' /\ MessageOf(o)' = MessageOf(o)
  BY DEF Kept, MessageOf
<1>2. ASSUME NEW list, NEW m, OfMessage(list, m) PROVE OfMessage(list, m)'
  BY <1>1, <1>2 DEF OfMessage
<1>3. ASSUME NEW list, NEW c, OfContext(list, c) PROVE OfContext(list, c)'
  BY <1>1, <1>3 DEF OfContext
<1>4. UNCHANGED <<recv, queue>> => HeldBefore'
  BY <1>1 DEF Held, HeldBefore
<1>5. UNCHANGED <<acc, item>> => HeldItem'
  <2>1. SUFFICES ASSUME UNCHANGED <<acc, item>> PROVE HeldItem'
    OBVIOUS
  <2>2. acc = "handle" => \E o \in Arrived' \cup {Null} : item = <<o>>
    BY <1>1 DEF Held, HeldItem
  <2>3. acc = "put" => \E m \in Messages : OfMessage(item, m)'
    BY <2>1, <1>2 DEF Held, HeldItem
  <2> QED
    BY <2>1, <2>2, <2>3 DEF Held, HeldItem, OfMessage
<1>6. UNCHANGED accum => HeldAccum'
  BY <1>1 DEF Held, HeldAccum, OfMessage
<1>7. UNCHANGED head => HeldHead'
  BY <1>1 DEF Held, HeldHead, OfContext
<1>8. UNCHANGED response => HeldResponse'
  BY <1>1 DEF Held, HeldResponse, OfContext
<1>9. UNCHANGED <<dispatched, delivered>> => HeldHistory'
  BY <1>1 DEF Held, HeldHistory, OfMessage
<1> QED
  BY <1>2, <1>3, <1>4, <1>5, <1>6, <1>7, <1>8, <1>9

-----------------------------------------------------------------------------
(* The operations on contexts.                                             *)

\* Deleting counts one more deletion of the objects of a list.
LEMMA DeletingShape ==
    ASSUME TypeOK, NEW list
    PROVE  /\ Deleting(list) \in [Objects -> Nat]
           /\ \A o \in Objects :
                 Deleting(list)[o] = IF o \in Range(list) THEN deleted[o] + 1 ELSE deleted[o]
<1>1. deleted \in [Objects -> Nat]
  BY DEF TypeOK
<1>2. \A o \in Objects :
        /\ deleted[o] + (IF o \in Range(list) THEN 1 ELSE 0) \in Nat
        /\ deleted[o] + (IF o \in Range(list) THEN 1 ELSE 0)
               = IF o \in Range(list) THEN deleted[o] + 1 ELSE deleted[o]
  BY <1>1
<1> QED
  BY <1>2 DEF Deleting

\* A found or created context exists; the pool may lose its last semaphore.
LEMMA FindShape ==
    ASSUME TypeOK, NEW c \in Contexts, FindOrCreate(c)
    PROVE  /\ exists \subseteq exists' /\ exists' \subseteq Contexts
           /\ pool' \in Seq({0, 1}) /\ Range(pool') \subseteq Range(pool)
           /\ TokenOfNew \in {0, 1}
           /\ TokenOfNew # 0 => TokenOfNew \in Range(pool)
<1>1. pool \in Seq({0, 1}) /\ exists \subseteq Contexts
  BY DEF TypeOK
<1>2. ASSUME pool # <<>>
      PROVE  /\ Front(pool) \in Seq({0, 1}) /\ Range(Front(pool)) \subseteq Range(pool)
             /\ Last(pool) \in Range(pool) /\ Last(pool) \in {0, 1}
  <2>1. /\ Front(pool) \in Seq({0, 1}) /\ Len(pool) \in Nat \ {0}
        /\ Len(Front(pool)) = Len(pool) - 1
        /\ \A i \in 1 .. Len(pool) - 1 : Front(pool)[i] = pool[i]
    BY <1>1, <1>2, FrontProperties
  <2>2. DOMAIN pool = 1 .. Len(pool) /\ DOMAIN Front(pool) = 1 .. Len(pool) - 1
    BY <1>1, <2>1, LenProperties
  <2>3. \A i \in DOMAIN Front(pool) : i \in DOMAIN pool /\ Front(pool)[i] = pool[i]
    BY <2>1, <2>2
  <2>4. Len(pool) \in DOMAIN pool /\ pool[Len(pool)] \in {0, 1}
    BY <1>1, <2>1, <2>2, LenProperties
  <2> QED
    BY <2>1, <2>3, <2>4 DEF Range, Last
<1>3. TokenOfNew \in {0, 1} /\ (TokenOfNew # 0 => TokenOfNew \in Range(pool))
  BY <1>2 DEF TokenOfNew
<1> QED
  BY <1>1, <1>2, <1>3 DEF FindOrCreate

\* A removed context's messages are deleted and its semaphore emptied.
LEMMA RemoveShape ==
    ASSUME TypeOK, NEW c \in Contexts, RemoveContext(c)
    PROVE  /\ exists' = exists \ {c} /\ handler' = handler \ {c}
           /\ head' \in [Contexts -> ObjectLists]
           /\ \A d \in Contexts : head'[d] = IF d = c THEN <<>> ELSE head[d]
           /\ token' \in [Contexts -> {0, 1}]
           /\ \A d \in Contexts : token'[d] = IF d = c THEN 0 ELSE token[d]
           /\ pool' \in Seq({0, 1}) /\ Range(pool') = Range(pool) \cup {0}
           /\ deleted' \in [Objects -> Nat]
           /\ \A o \in Objects :
                 deleted'[o] = IF o \in Range(head[c]) THEN deleted[o] + 1 ELSE deleted[o]
<1>1. <<>> \in ObjectLists
  BY EmptySeq DEF ObjectLists
<1>2. /\ head' \in [Contexts -> ObjectLists]
      /\ \A d \in Contexts : head'[d] = IF d = c THEN <<>> ELSE head[d]
  BY <1>1 DEF RemoveContext, TypeOK
<1>3. /\ token' \in [Contexts -> {0, 1}]
      /\ \A d \in Contexts : token'[d] = IF d = c THEN 0 ELSE token[d]
  BY DEF RemoveContext, TypeOK
<1>4. pool' \in Seq({0, 1}) /\ Range(pool') = Range(pool) \cup {0}
  <2>1. pool \in Seq({0, 1}) /\ pool' = Append(pool, 0)
    BY DEF RemoveContext, Pooled, TypeOK
  <2> QED
    BY <2>1, QueueShape
<1>5. /\ deleted' \in [Objects -> Nat]
      /\ \A o \in Objects :
            deleted'[o] = IF o \in Range(head[c]) THEN deleted[o] + 1 ELSE deleted[o]
  BY DeletingShape DEF RemoveContext
<1> QED
  BY <1>2, <1>3, <1>4, <1>5 DEF RemoveContext

\* What the accumulator thread holds of a message to put, and for which context.
LEMMA TargetShape ==
    ASSUME TypeOK, HeldItem, acc = "put"
    PROVE  /\ item \in Seq(Objects) /\ item # <<>> /\ Target \in Contexts
           /\ OfContext(item, Target)
<1>1. PICK m \in Messages : OfMessage(item, m)
  BY DEF HeldItem
<1>2. item \in Seq(Objects) /\ item # <<>>
  BY DEF HeldItem
<1>3. item[1] \in Range(item)
  <2>1. Len(item) \in Nat \ {0} /\ DOMAIN item = 1 .. Len(item)
    BY <1>2, EmptySeq, LenProperties
  <2>2. 1 \in DOMAIN item
    BY <2>1
  <2> QED
    BY <2>2 DEF Range
<1>4. item[1] \in Arrived /\ MessageOf(item[1]) = m
  BY <1>1, <1>3 DEF OfMessage
<1>5. Target = Context[m]
  BY <1>4 DEF Target
<1> QED
  BY <1>1, <1>2, <1>4, <1>5, ArrivedProperties DEF OfMessage, OfContext, Target

\* What the accumulator thread holds of a segment to handle.
LEMMA HandledShape ==
    ASSUME TypeOK, HeldItem, acc = "handle", ~ Sweeping
    PROVE  /\ item[1] \in Arrived /\ item = <<item[1]>> /\ dtor = "none"
           /\ MessageOf(item[1]) \in Messages
<1>1. PICK o \in Arrived \cup {Null} : item = <<o>>
  BY DEF HeldItem
<1>2. o # Null /\ dtor = "none" /\ item[1] = o
  BY <1>1 DEF Sweeping
<1> QED
  BY <1>1, <1>2, ArrivedProperties

-----------------------------------------------------------------------------
(* Types, action by action.                                                *)

\* The receive thread.
LEMMA ReceiverTypes ==
    ASSUME TypeInv,
           (\E s \in Segments : Receive(s)) \/ Submit \/ SubmitRefused \/ RecvDelete
    PROVE  TypeOK'
<1> USE DEF TypeInv
<1>1. ASSUME NEW s \in Segments, Receive(s) PROVE TypeOK'
  <2>1. PICK o \in Objects : /\ content' \in [Objects -> Segments \cup {Null}]
                             /\ recv' = [at |-> "submit", seg |-> o]
    BY <1>1, ReceiveShape
  <2> QED
    BY <1>1, <2>1 DEF Receive, TypeOK, accVars, contextVars, clientVars, historyVars
<1>2. CASE Submit
  <2>1. recv.seg \in Objects \cup {Null}
    BY DEF TypeOK
  <2>2. queue' \in Seq(Objects \cup {Null}) /\ Len(queue') = Len(queue) + 1 /\ Len(queue) \in Nat
    BY <1>2, <2>1, QueueShape DEF Submit, TypeOK
  <2>3. Len(queue') <= Depth
    BY <1>2, <2>2, IpcAccumAssumption DEF Submit
  <2> QED
    BY <1>2, <2>2, <2>3 DEF Submit, TypeOK, accVars, contextVars, clientVars, historyVars
<1>3. CASE SubmitRefused
  <2>1. deleted' \in [Objects -> Nat]
    BY <1>3, DeletingShape DEF SubmitRefused
  <2>2. refused' \subseteq Objects
    BY <1>3, IpcAccumAssumption DEF SubmitRefused, TypeOK, InOrder, Phases
  <2> QED
    BY <1>3, <2>1, <2>2 DEF SubmitRefused, TypeOK, accVars, contextVars, clientVars
<1>4. CASE RecvDelete
  <2>1. deleted' \in [Objects -> Nat]
    BY <1>4, DeletingShape DEF RecvDelete
  <2> QED
    BY <1>4, <2>1 DEF RecvDelete, TypeOK, accVars, contextVars, clientVars, historyVars
<1> QED
  BY <1>1, <1>2, <1>3, <1>4

\* The accumulator thread, on its own variables.
LEMMA AccumulatorTypes ==
    ASSUME TypeInv,
           AccPoll \/ AccGet \/ AccGetTimeout \/ AccAccumulate \/ AccSingle \/ AccSweep
    PROVE  TypeOK'
<1> USE DEF TypeInv
<1>0. <<>> \in Seq(Objects \cup {Null}) /\ <<>> \in ObjectLists
  BY EmptySeq DEF ObjectLists
<1>1. CASE AccPoll
  BY <1>1 DEF AccPoll, TypeOK, recvVars, contextVars, clientVars, historyVars
<1>2. CASE AccGet
  <2>1. /\ queue # <<>> /\ queue \in Seq(Objects \cup {Null})
        /\ item' = <<Head(queue)>> /\ queue' = Tail(queue)
    BY <1>2 DEF AccGet, TypeOK
  <2>2. /\ Head(queue) \in Objects \cup {Null} /\ Len(queue) \in Nat
        /\ Tail(queue) \in Seq(Objects \cup {Null}) /\ Len(Tail(queue)) = Len(queue) - 1
    BY <2>1, QueueShape
  <2>3. item' \in Seq(Objects \cup {Null})
    BY <2>1, <2>2
  <2>4. Len(queue') <= Depth
    BY <2>1, <2>2, IpcAccumAssumption DEF TypeOK
  <2> QED
    BY <1>2, <2>1, <2>2, <2>3, <2>4
    DEF AccGet, TypeOK, recvVars, contextVars, clientVars, historyVars
<1>3. CASE AccGetTimeout
  BY <1>3 DEF AccGetTimeout, TypeOK, recvVars, contextVars, clientVars, historyVars
<1>4. CASE AccAccumulate
  <2> DEFINE o == item[1]
             m == MessageOf(o)
             list == Inserted(accum[m], o)
  <2>1. o \in Objects /\ m \in Messages
    BY <1>4, HandledShape, ArrivedProperties DEF AccAccumulate, Held
  <2>2. accum[m] \in Seq(Objects)
    BY <2>1 DEF TypeOK, ObjectLists
  <2>3. list \in Seq(Objects)
    BY <2>1, <2>2, InsertedProperties
  <2>4. list \in Seq(Objects \cup {Null})
    BY <2>3, SeqMonotonic
  <2>5. /\ acc' \in {"put", "poll"}
        /\ item' \in {list, <<>>}
        /\ accum' \in {[accum EXCEPT ![m] = <<>>], [accum EXCEPT ![m] = list]}
    BY <1>4 DEF AccAccumulate
  <2> HIDE DEF list, m, o
  <2>6. accum' \in [Messages -> ObjectLists]
    BY <1>0, <2>3, <2>5 DEF TypeOK, ObjectLists
  <2> QED
    BY <1>0, <1>4, <2>4, <2>5, <2>6
    DEF AccAccumulate, TypeOK, recvVars, contextVars, clientVars, historyVars
<1>5. CASE AccSingle
  BY <1>5 DEF AccSingle, TypeOK, recvVars, contextVars, clientVars, historyVars
<1>6. CASE AccSweep
  <2>1. accum' \in [Messages -> ObjectLists] /\ deleted' \in [Objects -> Nat]
    <3>1. CASE UNCHANGED <<accum, deleted>>
      BY <3>1 DEF TypeOK
    <3>2. CASE ~ UNCHANGED <<accum, deleted>>
      <4>1. PICK gone \in SUBSET Partial :
              /\ accum' = [m \in Messages |-> IF m \in gone THEN <<>> ELSE accum[m]]
              /\ deleted' = [o \in Objects |->
                     deleted[o] + IF \/ o \in Range(item)
                                     \/ \E m \in gone : o \in Range(accum[m])
                                  THEN 1 ELSE 0]
        BY <1>6, <3>2 DEF AccSweep
      <4>2. accum' \in [Messages -> ObjectLists]
        BY <1>0, <4>1 DEF TypeOK
      <4>3. ASSUME NEW o \in Objects
            PROVE  deleted[o] + (IF \/ o \in Range(item)
                                    \/ \E m \in gone : o \in Range(accum[m])
                                 THEN 1 ELSE 0) \in Nat
        BY DEF TypeOK
      <4> QED
        BY <4>1, <4>2, <4>3
    <3> QED
      BY <3>1, <3>2
  <2>2. acc' \in {"poll", "crashed"}
    BY <1>6 DEF AccSweep
  <2> QED
    BY <1>0, <1>6, <2>1, <2>2
    DEF AccSweep, TypeOK, recvVars, contextVars, clientVars, historyVars
<1> QED
  BY <1>1, <1>2, <1>3, <1>4, <1>5, <1>6

\* The accumulator thread, where it reaches the contexts.
LEMMA DeliveryTypes ==
    ASSUME TypeInv, AccStore \/ AccDispatch \/ AccRemove
    PROVE  TypeOK'
<1> USE DEF TypeInv
<1>0. <<>> \in Seq(Objects \cup {Null}) /\ <<>> \in ObjectLists
  BY EmptySeq DEF ObjectLists
<1>1. CASE AccStore
  <2>1. Target \in Contexts /\ item \in ObjectLists
    BY <1>1, TargetShape DEF AccStore, Held, ObjectLists
  <2>2. exists \subseteq exists' /\ exists' \subseteq Contexts /\ pool' \in Seq({0, 1})
    BY <1>1, <2>1, FindShape DEF AccStore
  <2>3. deleted' \in [Objects -> Nat]
    BY <1>1, DeletingShape DEF AccStore
  <2>4. /\ head' \in [Contexts -> ObjectLists] /\ token' \in [Contexts -> {0, 1}]
        /\ delivered' \subseteq ObjectLists
    BY <1>1, <2>1 DEF AccStore, TypeOK
  <2>5. puts' \in [Contexts -> Nat]
    BY <1>1, <2>1 DEF AccStore, Given, TypeOK
  <2> QED
    BY <1>0, <1>1, <2>2, <2>3, <2>4, <2>5 DEF AccStore, TypeOK, recvVars, clientVars
<1>2. CASE AccDispatch
  <2>1. Target \in Contexts /\ item \in Seq(Objects) /\ OfContext(item, Target)
    BY <1>2, TargetShape DEF AccDispatch, Held
  <2>2. deleted' \in [Objects -> Nat]
    BY <1>2, DeletingShape DEF AccDispatch, TypeOK
  <2>3. dispatched' \subseteq Objects /\ delivered' \subseteq ObjectLists
    BY <1>2, <2>1, ArrivedProperties DEF AccDispatch, TypeOK, OfContext, ObjectLists
  <2>4. puts' \in [Contexts -> Nat]
    BY <1>2, <2>1 DEF AccDispatch, Given, TypeOK
  <2>5. msgId' \in handler' \cup {0} /\ acc' \in {"poll", "remove"}
    BY <1>2 DEF AccDispatch, contextVars
  <2> QED
    BY <1>0, <1>2, <2>2, <2>3, <2>4, <2>5
    DEF AccDispatch, TypeOK, recvVars, contextVars, clientVars
<1>3. CASE AccRemove
  <2>1. msgId \in handler /\ msgId \in Contexts
    BY <1>3, ContextProperties DEF AccRemove, Phases
  <2>2. RemoveContext(msgId)
    BY <1>3 DEF AccRemove
  <2>3. /\ exists' = exists \ {msgId} /\ handler' = handler \ {msgId}
        /\ head' \in [Contexts -> ObjectLists] /\ token' \in [Contexts -> {0, 1}]
        /\ pool' \in Seq({0, 1}) /\ deleted' \in [Objects -> Nat]
    BY <2>1, <2>2, RemoveShape
  <2> QED
    BY <1>3, <2>3 DEF AccRemove, TypeOK, recvVars, clientVars, historyVars
<1> QED
  BY <1>1, <1>2, <1>3

\* A client in GetResponse.
LEMMA ClientTypes ==
    ASSUME TypeInv, NEW w \in Clients,
           GetResponse(w) \/ MessageGetTimeout(w) \/ Respond(w)
    PROVE  TypeOK'
<1> USE DEF TypeInv
<1>0. /\ Request[w] \in Contexts /\ Request[w] \notin handler
      /\ client \in [Clients -> {"idle", "take", "timedOut", "read", "clear", "remove", "done"}]
  BY ContextProperties DEF Phases, TypeOK
<1>1. CASE GetResponse(w)
  <2>1. /\ exists \subseteq exists' /\ exists' \subseteq Contexts /\ pool' \in Seq({0, 1})
        /\ TokenOfNew \in {0, 1}
    BY <1>0, <1>1, FindShape DEF GetResponse
  <2>2. token' \in [Contexts -> {0, 1}]
    BY <1>1, <2>1 DEF GetResponse, TypeOK
  <2>3. /\ client' \in [Clients -> {"idle", "take", "timedOut", "read", "clear", "remove", "done"}]
        /\ timed' \in [Clients -> BOOLEAN]
    BY <1>0, <1>1 DEF GetResponse, TypeOK
  <2> QED
    BY <1>1, <2>1, <2>2, <2>3 DEF GetResponse, TypeOK, recvVars, accVars, historyVars
<1>2. CASE MessageGetTimeout(w)
  <2>1. client' \in [Clients -> {"idle", "take", "timedOut", "read", "clear", "remove", "done"}]
    BY <1>0, <1>2 DEF MessageGetTimeout
  <2> QED
    BY <1>2, <2>1 DEF MessageGetTimeout, TypeOK, recvVars, accVars, contextVars, historyVars
<1>3. CASE MessageGetTake(w)
  <2>1. client' \in [Clients -> {"idle", "take", "timedOut", "read", "clear", "remove", "done"}]
    BY <1>0, <1>3 DEF MessageGetTake
  <2>2. token' \in [Contexts -> {0, 1}]
    BY <1>3 DEF MessageGetTake, TypeOK
  <2> QED
    BY <1>3, <2>1, <2>2 DEF MessageGetTake, TypeOK, recvVars, accVars, historyVars
<1>4. CASE MessageGetRead(w)
  <2>1. client' \in [Clients -> {"idle", "take", "timedOut", "read", "clear", "remove", "done"}]
    BY <1>0, <1>4 DEF MessageGetRead
  <2>2. response' \in [Clients -> ObjectLists]
    BY <1>0, <1>4 DEF MessageGetRead, TypeOK
  <2> QED
    BY <1>4, <2>1, <2>2 DEF MessageGetRead, TypeOK, recvVars, accVars, contextVars, historyVars
<1>5. CASE MessageGetClear(w)
  <2>1. client' \in [Clients -> {"idle", "take", "timedOut", "read", "clear", "remove", "done"}]
    BY <1>0, <1>5 DEF MessageGetClear
  <2>2. head' \in [Contexts -> ObjectLists]
    BY <1>5, EmptySeq DEF MessageGetClear, TypeOK, ObjectLists
  <2> QED
    BY <1>5, <2>1, <2>2 DEF MessageGetClear, TypeOK, recvVars, accVars, historyVars
<1>6. CASE GetResponseRemove(w)
  <2>1. client' \in [Clients -> {"idle", "take", "timedOut", "read", "clear", "remove", "done"}]
    BY <1>0, <1>6 DEF GetResponseRemove
  <2>2. RemoveContext(Request[w])
    BY <1>6 DEF GetResponseRemove
  <2>3. /\ exists' = exists \ {Request[w]} /\ handler' = handler \ {Request[w]}
        /\ head' \in [Contexts -> ObjectLists] /\ token' \in [Contexts -> {0, 1}]
        /\ pool' \in Seq({0, 1}) /\ deleted' \in [Objects -> Nat]
    BY <1>0, <2>2, RemoveShape
  <2>4. msgId \in handler' \cup {0} /\ handler' \subseteq exists'
    BY <1>0, <2>3 DEF TypeOK
  <2> QED
    BY <1>6, <2>1, <2>3, <2>4 DEF GetResponseRemove, TypeOK, recvVars, accVars, historyVars
<1> QED
  BY <1>1, <1>2, <1>3, <1>4, <1>5, <1>6 DEF Respond

\* The destructor.
LEMMA DestructorTypes ==
    ASSUME TypeInv, DtorExitReq \/ DtorRelease \/ DtorEnd
    PROVE  TypeOK'
<1> USE DEF TypeInv
<1>0. /\ <<>> \in ObjectLists /\ <<>> \in Seq(Objects \cup {Null})
      /\ Len(<<>>) = 0 /\ 0 <= Depth
  BY EmptySeq, IpcAccumAssumption DEF ObjectLists
<1>1. CASE DtorExitReq
  BY <1>1 DEF DtorExitReq, TypeOK, recvVars, accVars, contextVars, clientVars, historyVars
<1>2. CASE DtorRelease
  <2>1. queue \in Seq(Objects \cup {Null}) /\ Len(queue) <= Depth
    BY DEF TypeOK
  <2>2. /\ Append(queue, Null) \in Seq(Objects \cup {Null})
        /\ Len(Append(queue, Null)) = Len(queue) + 1 /\ Len(queue) \in Nat
    BY <2>1, QueueShape
  <2>3. queue' \in Seq(Objects \cup {Null}) /\ Len(queue') <= Depth
    BY <1>2, <2>1, <2>2, IpcAccumAssumption DEF DtorRelease
  <2> QED
    BY <1>2, <2>3 DEF DtorRelease, TypeOK, recvVars, accVars, contextVars, clientVars, historyVars
<1>3. CASE DtorEnd
  <2>1. acc = "exited" /\ msgId = 0
    BY <1>3 DEF DtorEnd, Phases
  <2>2. deleted' \in [Objects -> Nat]
    <3>1. ASSUME NEW o \in Objects
          PROVE  deleted[o] + (IF \/ o \in Range(queue)
                                  \/ \E m \in Messages : o \in Range(accum[m])
                                  \/ \E c \in Contexts : o \in Range(head[c])
                               THEN 1 ELSE 0) \in Nat
      BY DEF TypeOK
    <3> QED
      BY <1>3, <3>1 DEF DtorEnd
  <2>3. accum' \in [Messages -> ObjectLists] /\ head' \in [Contexts -> ObjectLists]
    BY <1>0, <1>3 DEF DtorEnd
  <2>4. handler' \subseteq exists' /\ exists' \subseteq Contexts /\ msgId' \in handler' \cup {0}
    BY <1>3, <2>1 DEF DtorEnd
  <2> QED
    BY <1>0, <1>3, <2>2, <2>3, <2>4 DEF DtorEnd, TypeOK, recvVars, clientVars, historyVars
<1> QED
  BY <1>1, <1>2, <1>3

\* Every step keeps the types.
LEMMA TypeOKStep ==
    ASSUME TypeInv, [Next]_vars PROVE TypeOK'
<1>1. CASE Next
  <2>1. CASE Accumulate
    BY <2>1, AccumulatorTypes, DeliveryTypes DEF Accumulate
  <2> QED
    BY <1>1, <2>1, ReceiverTypes, ClientTypes, DestructorTypes DEF Next
<1>2. CASE UNCHANGED vars
  BY <1>2 DEF TypeInv, TypeOK, vars, recvVars, accVars, contextVars, clientVars, historyVars
<1> QED
  BY <1>1, <1>2

-----------------------------------------------------------------------------
(* Phases.                                                                 *)

\* Every step keeps the threads in their phases.
LEMMA PhasesStep ==
    ASSUME TypeInv, [Next]_vars PROVE Phases'
<1> USE DEF TypeInv
<1>0. /\ \A w \in Clients : Request[w] \in Contexts /\ Request[w] \notin Handled
      /\ queue \in Seq(Objects \cup {Null}) /\ Null \notin Objects
      /\ client \in [Clients -> {"idle", "take", "timedOut", "read", "clear", "remove", "done"}]
      /\ recv.at \in {"recv", "submit", "refused"} /\ recv.seg \in Objects \cup {Null}
  BY ContextProperties, IpcAccumAssumption DEF TypeOK
<1>1. ASSUME NEW s \in Segments, Receive(s) PROVE Phases'
  <2>1. PICK o \in Objects : recv' = [at |-> "submit", seg |-> o]
    BY <1>1, ReceiveShape
  <2> QED
    BY <1>0, <1>1, <2>1 DEF Receive, Phases, accVars, contextVars, clientVars
<1>2. CASE Submit
  <2>1. recv.seg # Null /\ Range(queue') = Range(queue) \cup {recv.seg}
    BY <1>0, <1>2, QueueShape DEF Submit, Phases
  <2> QED
    BY <1>2, <2>1 DEF Submit, Phases, accVars, contextVars, clientVars
<1>3. CASE SubmitRefused
  <2>1. recv'.at = "refused" /\ recv'.seg = recv.seg
    BY <1>3 DEF SubmitRefused, TypeOK
  <2> QED
    BY <1>3, <2>1 DEF SubmitRefused, Phases, accVars, contextVars, clientVars
<1>4. CASE RecvDelete
  BY <1>4 DEF RecvDelete, Phases, accVars, contextVars, clientVars
<1>5. CASE AccPoll
  BY <1>5 DEF AccPoll, Phases, recvVars, contextVars, clientVars
<1>6. CASE AccGet
  <2>1. Range(queue') \subseteq Range(queue)
    BY <1>0, <1>6, QueueShape DEF AccGet
  <2> QED
    BY <1>6, <2>1 DEF AccGet, Phases, recvVars, contextVars, clientVars
<1>7. CASE AccGetTimeout
  BY <1>7 DEF AccGetTimeout, Phases, recvVars, contextVars, clientVars
<1>8. CASE AccAccumulate
  <2>1. acc' \in {"put", "poll"}
    BY <1>8 DEF AccAccumulate
  <2> QED
    BY <1>8, <2>1 DEF AccAccumulate, Phases, recvVars, contextVars, clientVars
<1>9. CASE AccSingle
  BY <1>9 DEF AccSingle, Phases, recvVars, contextVars, clientVars
<1>10. CASE AccSweep
  <2>1. acc' \in {"poll", "crashed"}
    BY <1>10 DEF AccSweep
  <2> QED
    BY <1>10, <2>1 DEF AccSweep, Phases, recvVars, contextVars, clientVars
<1>11. CASE AccStore
  BY <1>11 DEF AccStore, Phases, recvVars, clientVars
<1>12. CASE AccDispatch
  BY <1>12 DEF AccDispatch, Phases, recvVars, contextVars, clientVars
<1>13. CASE AccRemove
  BY <1>13 DEF AccRemove, RemoveContext, Phases, recvVars, clientVars
<1>14. ASSUME NEW w \in Clients, GetResponse(w) PROVE Phases'
  BY <1>14 DEF GetResponse, Phases, recvVars, accVars
<1>15. ASSUME NEW w \in Clients, MessageGetTimeout(w) PROVE Phases'
  BY <1>15 DEF MessageGetTimeout, Phases, recvVars, accVars, contextVars
<1>16. ASSUME NEW w \in Clients, MessageGetTake(w) PROVE Phases'
  BY <1>16 DEF MessageGetTake, Phases, recvVars, accVars
<1>17. ASSUME NEW w \in Clients, MessageGetRead(w) PROVE Phases'
  BY <1>17 DEF MessageGetRead, Phases, recvVars, accVars, contextVars
<1>18. ASSUME NEW w \in Clients, MessageGetClear(w) PROVE Phases'
  BY <1>18 DEF MessageGetClear, Phases, recvVars, accVars
<1>19. ASSUME NEW w \in Clients, GetResponseRemove(w) PROVE Phases'
  BY <1>0, <1>19 DEF GetResponseRemove, RemoveContext, Phases, recvVars, accVars
<1>20. CASE DtorExitReq
  BY <1>20 DEF DtorExitReq, Phases, recvVars, accVars, contextVars, clientVars
<1>21. CASE DtorRelease
  BY <1>21 DEF DtorRelease, Phases, recvVars, accVars, contextVars, clientVars
<1>22. CASE DtorEnd
  <2>1. Range(queue') = {}
    BY <1>22 DEF DtorEnd, Range
  <2> QED
    BY <1>22, <2>1 DEF DtorEnd, Phases, recvVars, clientVars
<1>23. CASE UNCHANGED vars
  BY <1>23 DEF Phases, vars, recvVars, accVars, contextVars, clientVars
<1> QED
  BY <1>1, <1>2, <1>3, <1>4, <1>5, <1>6, <1>7, <1>8, <1>9, <1>10, <1>11, <1>12, <1>13,
     <1>14, <1>15, <1>16, <1>17, <1>18, <1>19, <1>20, <1>21, <1>22, <1>23
  DEF Next, Accumulate, Respond

-----------------------------------------------------------------------------
(* What is held has arrived.                                               *)

\* The receive thread and the queue.
LEMMA HeldBeforeStep ==
    ASSUME TypeInv, [Next]_vars PROVE HeldBefore'
<1> USE DEF TypeInv
<1>0. Kept /\ queue \in Seq(Objects \cup {Null}) /\ Arrived \subseteq Objects
  BY KeptStep, ArrivedProperties DEF TypeOK
<1>1. Arrived \subseteq Arrived'
  BY <1>0 DEF Kept
<1>2. ASSUME NEW s \in Segments, Receive(s) PROVE HeldBefore'
  <2>1. PICK o \in Objects : /\ recv' = [at |-> "submit", seg |-> o]
                             /\ Arrived' = Arrived \cup {o}
    BY <1>2, ReceiveShape
  <2> QED
    BY <1>2, <2>1 DEF Receive, Held, HeldBefore
<1>3. CASE Submit
  <2>a. recv.seg \in Objects \cup {Null}
    BY DEF TypeOK
  <2>1. Range(queue') = Range(queue) \cup {recv.seg}
    BY <1>0, <1>3, <2>a, QueueShape DEF Submit
  <2> QED
    BY <1>1, <1>3, <2>1 DEF Submit, Held, HeldBefore
<1>4. CASE SubmitRefused
  <2>1. recv'.seg = recv.seg
    BY <1>4 DEF SubmitRefused, TypeOK
  <2> QED
    BY <1>1, <1>4, <2>1 DEF SubmitRefused, Held, HeldBefore
<1>5. CASE RecvDelete
  BY <1>1, <1>5 DEF RecvDelete, Held, HeldBefore
<1>6. CASE AccGet
  <2>1. Range(queue') \subseteq Range(queue)
    BY <1>0, <1>6, QueueShape DEF AccGet
  <2> QED
    BY <1>1, <1>6, <2>1 DEF AccGet, Held, HeldBefore, recvVars
<1>7. CASE DtorRelease
  <2>1. Range(queue') \subseteq Range(queue) \cup {Null}
    BY <1>0, <1>7, QueueShape DEF DtorRelease
  <2> QED
    BY <1>1, <1>7, <2>1 DEF DtorRelease, Held, HeldBefore, recvVars
<1>8. CASE DtorEnd
  <2>1. Range(queue') = {}
    BY <1>8 DEF DtorEnd, Range
  <2> QED
    BY <1>1, <1>8, <2>1 DEF DtorEnd, Held, HeldBefore, recvVars
<1>9. CASE UNCHANGED <<recv, queue>>
  BY <1>0, <1>9, Unmoved
<1>10. \/ \E s \in Segments : Receive(s)
       \/ Submit \/ SubmitRefused \/ RecvDelete \/ AccGet \/ DtorRelease \/ DtorEnd
       \/ UNCHANGED <<recv, queue>>
  BY DEF Next, Accumulate, Respond, vars, recvVars, AccPoll, AccGetTimeout, AccAccumulate,
         AccSingle, AccSweep, AccStore, AccDispatch, AccRemove, GetResponse,
         MessageGetTimeout, MessageGetTake, MessageGetRead, MessageGetClear,
         GetResponseRemove, DtorExitReq
<1> QED
  BY <1>2, <1>3, <1>4, <1>5, <1>6, <1>7, <1>8, <1>9, <1>10

\* What AccAccumulate does with the segment o of the message m.
Accumulated(o, m, list) ==
    /\ o \in Objects /\ item = <<o>> /\ MessageOf(o) = m /\ dtor = "none"
    /\ accum[m] \in Seq(Objects) /\ list = Inserted(accum[m], o)
    /\ Range(list) = Range(accum[m]) \cup {o}
    /\ OfMessage(accum[m], m) /\ OfMessage(list, m) /\ list # <<>>
    /\ content' = content
    /\ \/ /\ Complete(list) /\ item' = list /\ acc' = "put"
          /\ \A n \in Messages : accum'[n] = IF n = m THEN <<>> ELSE accum[n]
       \/ /\ ~ Complete(list) /\ item' = <<>> /\ acc' = "poll"
          /\ \A n \in Messages : accum'[n] = IF n = m THEN list ELSE accum[n]

\* A segment goes to its message's list: the list is taken away, or kept.
LEMMA AccumulateShape ==
    ASSUME TypeInv, AccAccumulate
    PROVE  \E o \in Arrived, m \in Messages, list \in Seq(Objects) : Accumulated(o, m, list)
<1> DEFINE o == item[1]
           m == MessageOf(o)
           list == Inserted(accum[m], o)
<1>1. /\ o \in Arrived /\ o \in Objects /\ m \in Messages /\ item = <<o>>
      /\ dtor = "none"
  BY HandledShape, ArrivedProperties DEF AccAccumulate, TypeInv, Held
<1>2. accum[m] \in Seq(Objects) /\ OfMessage(accum[m], m)
  BY <1>1 DEF TypeInv, TypeOK, ObjectLists, Held, HeldAccum
<1>3. list \in Seq(Objects) /\ Range(list) = Range(accum[m]) \cup {o}
  BY <1>1, <1>2, InsertedProperties, InsertedRange
<1>4. OfMessage(list, m)
  BY <1>1, <1>2, <1>3 DEF OfMessage
<1>5. list # <<>>
  <2>1. Range(<<>>) = {}
    BY DEF Range
  <2> QED
    BY <1>3, <2>1
<1>6. /\ content' = content
      /\ \/ /\ Complete(list) /\ item' = list /\ acc' = "put"
            /\ accum' = [accum EXCEPT ![m] = <<>>]
         \/ /\ ~ Complete(list) /\ item' = <<>> /\ acc' = "poll"
            /\ accum' = [accum EXCEPT ![m] = list]
  BY DEF AccAccumulate, recvVars
<1>7. accum \in [Messages -> ObjectLists] /\ MessageOf(o) = m
  BY DEF TypeInv, TypeOK
<1>a. list = Inserted(accum[m], o)
  OBVIOUS
<1> HIDE DEF list, m, o
<1>8. \/ /\ Complete(list) /\ item' = list /\ acc' = "put"
         /\ \A n \in Messages : accum'[n] = IF n = m THEN <<>> ELSE accum[n]
      \/ /\ ~ Complete(list) /\ item' = <<>> /\ acc' = "poll"
         /\ \A n \in Messages : accum'[n] = IF n = m THEN list ELSE accum[n]
  BY <1>1, <1>6, <1>7
<1> QED
  BY <1>1, <1>2, <1>3, <1>4, <1>5, <1>6, <1>7, <1>8, <1>a DEF Accumulated

\* The accumulator thread.
LEMMA HeldItemStep ==
    ASSUME TypeInv, [Next]_vars PROVE HeldItem'
<1> USE DEF TypeInv
<1>0. Kept /\ Arrived \subseteq Objects
  BY KeptStep, ArrivedProperties
<1>1. /\ Arrived \subseteq Arrived'
      /\ \A list, m : OfMessage(list, m) => OfMessage(list, m)'
  BY <1>0, Unmoved DEF Kept
<1>2. CASE AccPoll
  <2>1. acc' \in {"get", "exited"} /\ item' = <<>>
    BY <1>2 DEF AccPoll, Held, HeldItem
  <2> QED
    BY <2>1 DEF HeldItem
<1>3. CASE AccGet
  <2>1. queue # <<>> /\ queue \in Seq(Objects \cup {Null})
    BY <1>3 DEF AccGet, TypeOK
  <2>2. Head(queue) \in Arrived \cup {Null}
    BY <2>1, QueueShape DEF Held, HeldBefore
  <2>3. acc' = "handle" /\ item' = <<Head(queue)>>
    BY <1>3 DEF AccGet
  <2> QED
    BY <1>1, <2>2, <2>3 DEF HeldItem
<1>4. CASE AccGetTimeout
  <2>1. acc' = "poll" /\ item' = <<>>
    BY <1>4 DEF AccGetTimeout, Held, HeldItem
  <2> QED
    BY <2>1 DEF HeldItem
<1>5. CASE AccAccumulate
  <2>a. PICK o \in Arrived, m \in Messages, list \in Seq(Objects) : Accumulated(o, m, list)
    BY <1>5, AccumulateShape
  <2>1. /\ OfMessage(list, m) /\ list # <<>> /\ content' = content
        /\ \/ item' = list /\ acc' = "put"
           \/ item' = <<>> /\ acc' = "poll"
    BY <2>a DEF Accumulated
  <2>2. CASE item' = list /\ acc' = "put"
    <3>1. OfMessage(item, m)'
      BY <2>1, <2>2 DEF OfMessage, Arrived, MessageOf
    <3> QED
      BY <2>1, <2>2, <3>1 DEF HeldItem
  <2>3. CASE item' = <<>> /\ acc' = "poll"
    BY <2>3 DEF HeldItem
  <2> QED
    BY <2>1, <2>2, <2>3
<1>6. CASE AccSingle
  <2>1. /\ item[1] \in Arrived /\ item = <<item[1]>> /\ MessageOf(item[1]) \in Messages
        /\ content' = content /\ item' = item /\ acc' = "put"
    BY <1>6, HandledShape DEF AccSingle, Held, recvVars
  <2>2. Range(item) = {item[1]}
    BY <2>1, SingleRange
  <2>3. OfMessage(item, MessageOf(item[1]))
    BY <2>1, <2>2 DEF OfMessage
  <2>4. OfMessage(item, MessageOf(item[1]))'
    BY <2>1, <2>3 DEF OfMessage, Arrived, MessageOf
  <2>5. item \in Seq(Objects) /\ item # <<>>
    <3>1. item[1] \in Objects
      BY <1>0, <2>1
    <3> HIDE DEF TypeInv
    <3>2. <<item[1]>> \in Seq(Objects) /\ <<item[1]>> # <<>>
      BY <3>1
    <3> QED
      BY <2>1, <3>2
  <2>6. MessageOf(item[1])' \in Messages
    BY <2>1 DEF MessageOf
  <2> QED
    BY <2>1, <2>4, <2>5, <2>6 DEF HeldItem
<1>7. CASE AccSweep
  <2>1. acc' \in {"poll", "crashed"} /\ item' = <<>>
    BY <1>7 DEF AccSweep
  <2> QED
    BY <2>1 DEF HeldItem
<1>8. CASE AccStore
  <2>1. acc' = "poll" /\ item' = <<>>
    BY <1>8 DEF AccStore
  <2> QED
    BY <2>1 DEF HeldItem
<1>9. CASE AccDispatch
  <2>1. acc' \in {"poll", "remove"} /\ item' = <<>>
    BY <1>9 DEF AccDispatch
  <2> QED
    BY <2>1 DEF HeldItem
<1>10. CASE AccRemove
  <2>1. acc' = "poll" /\ item' = <<>>
    BY <1>10 DEF AccRemove, Held, HeldItem
  <2> QED
    BY <2>1 DEF HeldItem
<1>11. CASE UNCHANGED <<acc, item>>
  BY <1>0, <1>11, Unmoved
<1>12. \/ AccPoll \/ AccGet \/ AccGetTimeout \/ AccAccumulate \/ AccSingle \/ AccSweep
       \/ AccStore \/ AccDispatch \/ AccRemove \/ UNCHANGED <<acc, item>>
  BY DEF Next, Accumulate, Respond, vars, accVars, Receive, Submit, SubmitRefused,
         RecvDelete, GetResponse, MessageGetTimeout, MessageGetTake, MessageGetRead,
         MessageGetClear, GetResponseRemove, DtorExitReq, DtorRelease, DtorEnd
<1> QED
  BY <1>2, <1>3, <1>4, <1>5, <1>6, <1>7, <1>8, <1>9, <1>10, <1>11, <1>12

\* The accumulators.
LEMMA HeldAccumStep ==
    ASSUME TypeInv, [Next]_vars PROVE HeldAccum'
<1> USE DEF TypeInv
<1>0. Kept
  BY KeptStep
<1>1. Range(<<>>) = {}
  BY DEF Range
<1>2. CASE AccAccumulate
  <2>a. PICK o \in Arrived, m \in Messages, list \in Seq(Objects) : Accumulated(o, m, list)
    BY <1>2, AccumulateShape
  <2>1. /\ OfMessage(list, m) /\ content' = content
        /\ \A n \in Messages : \/ accum'[n] = accum[n]
                               \/ accum'[n] = <<>>
                               \/ n = m /\ accum'[n] = list
    BY <2>a DEF Accumulated
  <2>2. \A n \in Messages : OfMessage(accum[n], n)
    BY DEF Held, HeldAccum
  <2>3. \A n \in Messages : OfMessage(accum'[n], n)
    BY <1>1, <2>1, <2>2 DEF OfMessage
  <2> QED
    BY <2>1, <2>3 DEF HeldAccum, OfMessage, Arrived, MessageOf
<1>3. CASE AccSweep
  <2>1. content' = content
    BY <1>3 DEF AccSweep, recvVars
  <2>2. \A n \in Messages : accum'[n] = accum[n] \/ accum'[n] = <<>>
    BY <1>3 DEF AccSweep, TypeOK
  <2>3. \A n \in Messages : OfMessage(accum'[n], n)
    BY <1>1, <2>2 DEF OfMessage, Held, HeldAccum
  <2> QED
    BY <2>1, <2>3 DEF HeldAccum, OfMessage, Arrived, MessageOf
<1>4. CASE DtorEnd
  BY <1>1, <1>4 DEF DtorEnd, HeldAccum, OfMessage
<1>5. CASE UNCHANGED accum
  BY <1>0, <1>5, Unmoved
<1>6. AccAccumulate \/ AccSweep \/ DtorEnd \/ UNCHANGED accum
  BY DEF Next, Accumulate, Respond, vars, accVars, Receive, Submit, SubmitRefused,
         RecvDelete, AccPoll, AccGet, AccGetTimeout, AccSingle, AccStore, AccDispatch,
         AccRemove, GetResponse, MessageGetTimeout, MessageGetTake, MessageGetRead,
         MessageGetClear, GetResponseRemove, DtorExitReq, DtorRelease
<1> QED
  BY <1>2, <1>3, <1>4, <1>5, <1>6

\* The contexts.
LEMMA HeldHeadStep ==
    ASSUME TypeInv, [Next]_vars PROVE HeldHead'
<1> USE DEF TypeInv
<1>0. /\ Kept /\ \A w \in Clients : Request[w] \in Contexts
      /\ head \in [Contexts -> ObjectLists]
  BY KeptStep, ContextProperties DEF TypeOK
<1>1. \A c : OfContext(<<>>, c)
  BY DEF OfContext, Range
<1>2. \A c \in Contexts : OfContext(head[c], c)
  BY DEF Held, HeldHead
<1>3. ASSUME content' = content, \A c \in Contexts : OfContext(head'[c], c)
      PROVE  HeldHead'
  BY <1>3 DEF HeldHead, OfContext, Arrived, MessageOf
<1> HIDE DEF TypeInv
<1>4. CASE AccStore
  <2>1. OfContext(item, Target) /\ Target \in Contexts
    BY <1>4, TargetShape DEF AccStore, TypeInv, Held
  <2>2. \A c \in Contexts : head'[c] = IF c = Target THEN item ELSE head[c]
    BY <1>0, <1>4, <2>1 DEF AccStore
  <2>3. \A c \in Contexts : OfContext(head'[c], c)
    BY <1>2, <2>1, <2>2 DEF OfContext
  <2> QED
    BY <1>3, <1>4, <2>3 DEF AccStore, recvVars
<1>5. CASE AccRemove
  <2>1. msgId \in Contexts /\ RemoveContext(msgId) /\ TypeOK
    BY <1>5, ContextProperties DEF AccRemove, TypeInv, Phases
  <2>2. \A d \in Contexts : head'[d] = IF d = msgId THEN <<>> ELSE head[d]
    BY <2>1, RemoveShape
  <2>3. \A c \in Contexts : OfContext(head'[c], c)
    BY <1>1, <1>2, <2>2 DEF OfContext
  <2> QED
    BY <1>3, <1>5, <2>3 DEF AccRemove, recvVars
<1>6. ASSUME NEW w \in Clients, MessageGetClear(w) PROVE HeldHead'
  <2>1. \A d \in Contexts : head'[d] = IF d = Request[w] THEN <<>> ELSE head[d]
    BY <1>0, <1>6 DEF MessageGetClear
  <2>2. \A c \in Contexts : OfContext(head'[c], c)
    BY <1>1, <1>2, <2>1 DEF OfContext
  <2> QED
    BY <1>3, <1>6, <2>2 DEF MessageGetClear, recvVars
<1>7. ASSUME NEW w \in Clients, GetResponseRemove(w) PROVE HeldHead'
  <2>1. Request[w] \in Contexts /\ RemoveContext(Request[w]) /\ TypeOK
    BY <1>0, <1>7 DEF GetResponseRemove, TypeInv
  <2>2. \A d \in Contexts : head'[d] = IF d = Request[w] THEN <<>> ELSE head[d]
    BY <2>1, RemoveShape
  <2>3. \A c \in Contexts : OfContext(head'[c], c)
    BY <1>1, <1>2, <2>2 DEF OfContext
  <2> QED
    BY <1>3, <1>7, <2>3 DEF GetResponseRemove, recvVars
<1>8. CASE DtorEnd
  <2>1. \A c \in Contexts : OfContext(head'[c], c)
    BY <1>1, <1>8 DEF DtorEnd, OfContext
  <2> QED
    BY <1>3, <1>8, <2>1 DEF DtorEnd, recvVars
<1>9. CASE UNCHANGED head
  BY <1>0, <1>9, Unmoved DEF TypeInv
<1>10. \/ AccStore \/ AccRemove \/ DtorEnd \/ UNCHANGED head
       \/ \E w \in Clients : MessageGetClear(w) \/ GetResponseRemove(w)
  BY DEF Next, Accumulate, Respond, vars, contextVars, Receive, Submit, SubmitRefused,
         RecvDelete, AccPoll, AccGet, AccGetTimeout, AccAccumulate, AccSingle, AccSweep,
         AccDispatch, GetResponse, MessageGetTimeout, MessageGetTake, MessageGetRead,
         DtorExitReq, DtorRelease
<1> QED
  BY <1>4, <1>5, <1>6, <1>7, <1>8, <1>9, <1>10

\* The clients.
LEMMA HeldResponseStep ==
    ASSUME TypeInv, [Next]_vars PROVE HeldResponse'
<1>0. Kept
  BY KeptStep DEF TypeInv
<1>1. ASSUME NEW w \in Clients, MessageGetRead(w) PROVE HeldResponse'
  <2>1. /\ content' = content /\ Request[w] \in Contexts
        /\ \A v \in Clients : response'[v] = IF v = w THEN head[Request[w]] ELSE response[v]
    BY <1>1, ContextProperties DEF MessageGetRead, recvVars, TypeInv, TypeOK
  <2>2. /\ OfContext(head[Request[w]], Request[w])
        /\ \A v \in Clients : OfContext(response[v], Request[v])
    BY <2>1 DEF TypeInv, Held, HeldHead, HeldResponse
  <2>3. \A v \in Clients : OfContext(response'[v], Request[v])
    BY <2>1, <2>2 DEF OfContext
  <2> QED
    BY <2>1, <2>3 DEF HeldResponse, OfContext, Arrived, MessageOf
<1>2. CASE UNCHANGED response
  BY <1>0, <1>2, Unmoved DEF TypeInv
<1>3. UNCHANGED response \/ \E w \in Clients : MessageGetRead(w)
  BY DEF Next, Accumulate, Respond, vars, clientVars, Receive, Submit, SubmitRefused,
         RecvDelete, AccPoll, AccGet, AccGetTimeout, AccAccumulate, AccSingle, AccSweep,
         AccStore, AccDispatch, AccRemove, GetResponse, MessageGetTimeout, MessageGetTake,
         MessageGetClear, GetResponseRemove, DtorExitReq, DtorRelease, DtorEnd
<1> QED
  BY <1>1, <1>2, <1>3

\* What was dispatched and delivered.
LEMMA HeldHistoryStep ==
    ASSUME TypeInv, [Next]_vars PROVE HeldHistory'
<1>0. Kept
  BY KeptStep DEF TypeInv
<1>1. CASE AccStore \/ AccDispatch
  <2>1. /\ content' = content /\ acc = "put" /\ delivered' = delivered \cup {item}
        /\ dispatched' \subseteq dispatched \cup Range(item)
    BY <1>1 DEF AccStore, AccDispatch, recvVars
  <2>2. PICK m \in Messages : OfMessage(item, m)
    BY <2>1 DEF TypeInv, Held, HeldItem
  <2>3. item # <<>> /\ HeldHistory
    BY <2>1 DEF TypeInv, Held, HeldItem
  <2>4. dispatched' \subseteq Arrived
    BY <2>1, <2>2, <2>3 DEF HeldHistory, OfMessage
  <2>5. \A list \in delivered' : list # <<>> /\ \E n \in Messages : OfMessage(list, n)
    BY <2>1, <2>2, <2>3 DEF HeldHistory
  <2> QED
    BY <2>1, <2>4, <2>5 DEF HeldHistory, OfMessage, Arrived, MessageOf
<1>2. CASE UNCHANGED <<dispatched, delivered>>
  BY <1>0, <1>2, Unmoved DEF TypeInv
<1>3. AccStore \/ AccDispatch \/ UNCHANGED <<dispatched, delivered>>
  BY DEF Next, Accumulate, Respond, vars, historyVars, Receive, Submit, SubmitRefused,
         RecvDelete, AccPoll, AccGet, AccGetTimeout, AccAccumulate, AccSingle, AccSweep,
         AccRemove, GetResponse, MessageGetTimeout, MessageGetTake, MessageGetRead,
         MessageGetClear, GetResponseRemove, DtorExitReq, DtorRelease, DtorEnd
<1> QED
  BY <1>1, <1>2, <1>3

-----------------------------------------------------------------------------
\* The first states satisfy the invariant.
LEMMA TypeInit ==
    ASSUME Init PROVE TypeInv
<1>1. <<>> \in ObjectLists /\ <<>> \in Seq(Objects \cup {Null}) /\ <<>> \in Seq({0, 1})
      /\ Len(<<>>) = 0 /\ 0 <= Depth /\ Range(<<>>) = {}
  BY EmptySeq, IpcAccumAssumption DEF ObjectLists, Range
<1>2. Handled \subseteq Contexts
  BY ContextProperties
<1>3. TypeOK
  BY <1>1, <1>2 DEF Init, TypeOK
<1>4. Arrived = {}
  BY DEF Init, Arrived
<1>5. InOrder
  <2>1. 0 \in 0 .. Arrivals /\ 1 .. 0 = {}
    BY IpcAccumAssumption
  <2> QED
    BY <1>4, <2>1 DEF InOrder
<1>6. Phases
  BY <1>1 DEF Init, Phases
<1>7. Held
  BY <1>1, <1>4 DEF Init, Held, HeldBefore, HeldItem, HeldAccum, HeldHead, HeldResponse,
                     HeldHistory, OfMessage, OfContext
<1> QED
  BY <1>3, <1>5, <1>6, <1>7 DEF TypeInv

\* Every step keeps it.
LEMMA TypeStep ==
    ASSUME TypeInv, [Next]_vars PROVE TypeInv'
<1>1. InOrder'
  BY KeptStep DEF TypeInv
<1> QED
  BY <1>1, TypeOKStep, PhasesStep, HeldBeforeStep, HeldItemStep, HeldAccumStep, HeldHeadStep,
     HeldResponseStep, HeldHistoryStep DEF TypeInv, Held

\* Objects, lists, contexts, threads and counts have their types in every reachable
\* state; the queue never holds more than k_IpcAccumQueueDepth.
THEOREM TypeCorrect == Spec => []TypeOK
<1>1. TypeInv /\ [Next]_vars => TypeInv'
  BY TypeStep
<1>2. TypeInv => TypeOK
  BY DEF TypeInv
<1> QED
  BY <1>1, <1>2, TypeInit, PTL DEF Spec

-----------------------------------------------------------------------------
(* A token stands for a message.                                           *)

\* Semaphores in the pool are empty, and one in a context that has a token has a
\* message too, but for the moment between the clearing and the removal; a client
\* that took a token finds the message.
TokenInv ==
    /\ TypeInv
    /\ Range(pool) \subseteq {0}
    /\ \A w \in Clients :
          /\ token[Request[w]] = 1 /\ dtor # "destroyed" =>
                 head[Request[w]] # <<>> \/ client[w] = "remove"
          /\ client[w] = "read" => head[Request[w]] # <<>>
          /\ client[w] \in {"clear", "remove", "done"} => response[w] # <<>>

\* The first states satisfy it.
LEMMA TokenInit ==
    ASSUME Init PROVE TokenInv
<1>1. Range(<<>>) = {}
  BY DEF Range
<1>2. \A w \in Clients : Request[w] \in Contexts
  BY ContextProperties
<1> QED
  BY <1>1, <1>2, TypeInit DEF TokenInv, Init

\* Every step keeps the pooled semaphores empty.
LEMMA PoolStep ==
    ASSUME TokenInv, [Next]_vars PROVE Range(pool') \subseteq {0}
<1> USE DEF TokenInv
<1>0. TypeOK /\ HeldItem /\ Phases
  BY DEF TypeInv, Held
<1>1. CASE AccStore
  BY <1>0, <1>1, FindShape, TargetShape DEF AccStore
<1>2. CASE AccRemove
  <2>1. msgId \in Contexts
    BY <1>0, <1>2, ContextProperties DEF AccRemove, Phases
  <2> QED
    BY <1>0, <1>2, <2>1, RemoveShape DEF AccRemove
<1>3. ASSUME NEW w \in Clients, GetResponse(w) PROVE Range(pool') \subseteq {0}
  <2>1. Request[w] \in Contexts /\ FindOrCreate(Request[w])
    BY <1>3, ContextProperties DEF GetResponse
  <2> QED
    BY <1>0, <2>1, FindShape
<1>4. ASSUME NEW w \in Clients, GetResponseRemove(w) PROVE Range(pool') \subseteq {0}
  <2>1. Request[w] \in Contexts /\ RemoveContext(Request[w])
    BY <1>4, ContextProperties DEF GetResponseRemove
  <2> QED
    BY <1>0, <2>1, RemoveShape
<1>5. \/ AccStore \/ AccRemove \/ UNCHANGED pool
      \/ \E w \in Clients : GetResponse(w) \/ GetResponseRemove(w)
  BY DEF Next, Accumulate, Respond, vars, contextVars, Receive, Submit, SubmitRefused,
         RecvDelete, AccPoll, AccGet, AccGetTimeout, AccAccumulate, AccSingle, AccSweep,
         AccDispatch, MessageGetTimeout, MessageGetTake, MessageGetRead,
         MessageGetClear, DtorExitReq, DtorRelease, DtorEnd
<1> QED
  BY <1>1, <1>2, <1>3, <1>4, <1>5

\* What a step can do to the context of a client: nothing; a message is stored,
\* with a token; the client's own step; or the end.
ContextKept(w) ==
    /\ token'[Request[w]] = token[Request[w]] /\ head'[Request[w]] = head[Request[w]]
    /\ client'[w] = client[w] /\ response'[w] = response[w]
    /\ puts'[Request[w]] = puts[Request[w]]

ContextStored(w) ==
    /\ head'[Request[w]] # <<>> /\ client'[w] = client[w] /\ response'[w] = response[w]
    /\ puts'[Request[w]] = puts[Request[w]] + 1

OwnStep(w) ==
    /\ puts'[Request[w]] = puts[Request[w]]
    /\ \/ /\ client[w] \in {"idle", "timedOut"} /\ client'[w] = "take"
          /\ token'[Request[w]] \in {token[Request[w]], 0}
          /\ head'[Request[w]] = head[Request[w]] /\ response'[w] = response[w]
       \/ /\ client[w] = "take" /\ client'[w] = "timedOut"
          /\ token'[Request[w]] = token[Request[w]] /\ head'[Request[w]] = head[Request[w]]
          /\ response'[w] = response[w]
       \/ /\ client[w] = "take" /\ client'[w] = "read" /\ token[Request[w]] = 1
          /\ token'[Request[w]] = 0 /\ head'[Request[w]] = head[Request[w]]
          /\ response'[w] = response[w]
       \/ /\ client[w] = "read" /\ client'[w] = "clear" /\ response'[w] = head[Request[w]]
          /\ token'[Request[w]] = token[Request[w]] /\ head'[Request[w]] = head[Request[w]]
       \/ /\ client[w] = "clear" /\ client'[w] = "remove" /\ head'[Request[w]] = <<>>
          /\ response'[w] = response[w]
       \/ /\ client[w] = "remove" /\ client'[w] = "done" /\ head'[Request[w]] = <<>>
          /\ token'[Request[w]] = 0 /\ response'[w] = response[w]

ContextEnds(w) ==
    /\ dtor' = "destroyed" /\ client[w] \in {"idle", "timedOut", "done"}
    /\ client'[w] = client[w] /\ response'[w] = response[w]
    /\ head'[Request[w]] = <<>> /\ puts'[Request[w]] = puts[Request[w]]

\* Every step does one of these to every client.
LEMMA ContextStep ==
    ASSUME TokenInv, [Next]_vars, NEW w \in Clients
    PROVE  ContextKept(w) \/ ContextStored(w) \/ OwnStep(w) \/ ContextEnds(w)
<1> USE DEF TokenInv
<1>0. /\ TypeOK /\ HeldItem /\ Phases
      /\ \A v \in Clients : Request[v] \in Contexts /\ Request[v] \notin Handled
      /\ \A v \in Clients : v # w => Request[v] # Request[w]
      /\ token \in [Contexts -> {0, 1}]
      /\ head \in [Contexts -> ObjectLists] /\ response \in [Clients -> ObjectLists]
      /\ client \in [Clients -> {"idle", "take", "timedOut", "read", "clear", "remove", "done"}]
      /\ puts \in [Contexts -> Nat]
  BY ContextProperties, IpcAccumAssumption DEF TypeInv, TypeOK, Held
<1> HIDE DEF TokenInv
<1>1. CASE AccStore
  <2>1. Target \in Contexts /\ item # <<>>
    BY <1>0, <1>1, TargetShape DEF AccStore
  <2>2. /\ \A c \in Contexts : head'[c] = IF c = Target THEN item ELSE head[c]
        /\ \A c \in Contexts : token'[c] = IF c = Target THEN 1 ELSE token[c]
        /\ \A c \in Contexts : puts'[c] = IF c = Target THEN puts[c] + 1 ELSE puts[c]
    BY <1>0, <1>1, <2>1 DEF AccStore, Given
  <2> QED
    BY <1>0, <1>1, <2>1, <2>2 DEF AccStore, clientVars, ContextKept, ContextStored
<1>2. CASE AccRemove
  <2>1. msgId \in Contexts /\ msgId # Request[w] /\ RemoveContext(msgId)
    BY <1>0, <1>2, ContextProperties DEF AccRemove, Phases
  <2>2. /\ \A d \in Contexts : head'[d] = IF d = msgId THEN <<>> ELSE head[d]
        /\ \A d \in Contexts : token'[d] = IF d = msgId THEN 0 ELSE token[d]
    BY <1>0, <2>1, RemoveShape
  <2> QED
    BY <1>0, <1>2, <2>1, <2>2 DEF AccRemove, clientVars, historyVars, ContextKept
<1>3. ASSUME NEW v \in Clients, GetResponse(v) PROVE ContextKept(w) \/ OwnStep(w)
  <2>1. /\ client[v] \in {"idle", "timedOut"} /\ FindOrCreate(Request[v])
        /\ \A x \in Clients : client'[x] = IF x = v THEN "take" ELSE client[x]
        /\ head' = head /\ response' = response /\ puts' = puts
    BY <1>0, <1>3 DEF GetResponse, historyVars
  <2>2. TokenOfNew = 0
    BY <1>0, <2>1, FindShape DEF TokenInv
  <2>3. \A c \in Contexts : (c = Request[v] /\ token'[c] \in {token[c], 0}) \/ token'[c] = token[c]
    BY <1>0, <1>3, <2>2 DEF GetResponse
  <2>4. \A c \in Contexts : c # Request[v] => token'[c] = token[c]
    BY <1>0, <1>3 DEF GetResponse
  <2> QED
    BY <1>0, <2>1, <2>3, <2>4 DEF ContextKept, OwnStep
<1>4. ASSUME NEW v \in Clients, MessageGetTimeout(v) PROVE ContextKept(w) \/ OwnStep(w)
  BY <1>0, <1>4 DEF MessageGetTimeout, contextVars, historyVars, ContextKept, OwnStep
<1>5. ASSUME NEW v \in Clients, MessageGetTake(v) PROVE ContextKept(w) \/ OwnStep(w)
  BY <1>0, <1>5 DEF MessageGetTake, historyVars, ContextKept, OwnStep
<1>6. ASSUME NEW v \in Clients, MessageGetRead(v) PROVE ContextKept(w) \/ OwnStep(w)
  BY <1>0, <1>6 DEF MessageGetRead, contextVars, historyVars, ContextKept, OwnStep
<1>7. ASSUME NEW v \in Clients, MessageGetClear(v) PROVE ContextKept(w) \/ OwnStep(w)
  BY <1>0, <1>7 DEF MessageGetClear, historyVars, ContextKept, OwnStep
<1>8. ASSUME NEW v \in Clients, GetResponseRemove(v) PROVE ContextKept(w) \/ OwnStep(w)
  <2>1. Request[v] \in Contexts /\ RemoveContext(Request[v])
    BY <1>0, <1>8 DEF GetResponseRemove
  <2>2. /\ \A d \in Contexts : head'[d] = IF d = Request[v] THEN <<>> ELSE head[d]
        /\ \A d \in Contexts : token'[d] = IF d = Request[v] THEN 0 ELSE token[d]
    BY <1>0, <2>1, RemoveShape
  <2> QED
    BY <1>0, <1>8, <2>2 DEF GetResponseRemove, historyVars, ContextKept, OwnStep
<1>9. CASE DtorEnd
  BY <1>0, <1>9 DEF DtorEnd, Phases, clientVars, historyVars, ContextEnds
<1>10. CASE AccDispatch
  <2>1. Target \in Contexts /\ Target # Request[w]
    BY <1>0, <1>10, TargetShape DEF AccDispatch, Phases
  <2>2. \A c \in Contexts : puts'[c] = IF c = Target THEN puts[c] + 1 ELSE puts[c]
    BY <1>0, <1>10, <2>1 DEF AccDispatch, Given
  <2> QED
    BY <1>0, <1>10, <2>1, <2>2 DEF AccDispatch, contextVars, clientVars, ContextKept
<1>11. CASE UNCHANGED <<token, head, client, response, puts>>
  BY <1>11 DEF ContextKept
<1>12. \/ AccStore \/ AccDispatch \/ AccRemove \/ DtorEnd
       \/ UNCHANGED <<token, head, client, response, puts>>
       \/ \E v \in Clients :
             \/ GetResponse(v) \/ MessageGetTimeout(v) \/ MessageGetTake(v)
             \/ MessageGetRead(v) \/ MessageGetClear(v) \/ GetResponseRemove(v)
  BY DEF Next, Accumulate, Respond, vars, contextVars, clientVars, historyVars, Receive, Submit,
         SubmitRefused, RecvDelete, AccPoll, AccGet, AccGetTimeout, AccAccumulate,
         AccSingle, AccSweep, DtorExitReq, DtorRelease
<1> QED
  BY <1>1, <1>2, <1>3, <1>4, <1>5, <1>6, <1>7, <1>8, <1>9, <1>10, <1>11, <1>12

\* Nothing comes back from the end.
LEMMA EndedStep ==
    ASSUME TypeInv, [Next]_vars PROVE dtor = "destroyed" => dtor' = "destroyed"
BY DEF Next, Accumulate, Respond, vars, Receive, Submit, SubmitRefused, RecvDelete,
       AccPoll, AccGet, AccGetTimeout, AccAccumulate, AccSingle, AccSweep, AccStore,
       AccDispatch, AccRemove, GetResponse, MessageGetTimeout, MessageGetTake,
       MessageGetRead, MessageGetClear, GetResponseRemove, DtorExitReq, DtorRelease,
       DtorEnd, TypeInv, Phases

\* Every step keeps tokens and messages together.
LEMMA TokenStep ==
    ASSUME TokenInv, [Next]_vars PROVE TokenInv'
<1>1. TypeInv' /\ Range(pool') \subseteq {0}
  BY TypeStep, PoolStep DEF TokenInv
<1>2. dtor = "destroyed" => dtor' = "destroyed"
  BY EndedStep DEF TokenInv
<1>3. ASSUME NEW w \in Clients
      PROVE  /\ token'[Request[w]] = 1 /\ dtor' # "destroyed" =>
                    head'[Request[w]] # <<>> \/ client'[w] = "remove"
             /\ client'[w] = "read" => head'[Request[w]] # <<>>
             /\ client'[w] \in {"clear", "remove", "done"} => response'[w] # <<>>
  <2>0. /\ token[Request[w]] = 1 /\ dtor # "destroyed" =>
               head[Request[w]] # <<>> \/ client[w] = "remove"
        /\ client[w] = "read" => head[Request[w]] # <<>>
        /\ client[w] \in {"clear", "remove", "done"} => response[w] # <<>>
    BY DEF TokenInv
  <2>1. dtor = "destroyed" => client[w] \in {"idle", "timedOut", "done"}
    BY DEF TokenInv, TypeInv, Phases
  <2>2. CASE ContextKept(w)
    BY <1>2, <2>0, <2>2 DEF ContextKept
  <2>3. CASE ContextStored(w)
    BY <1>2, <2>0, <2>3 DEF ContextStored
  <2>4. CASE OwnStep(w)
    BY <1>2, <2>0, <2>1, <2>4 DEF OwnStep
  <2>5. CASE ContextEnds(w)
    BY <2>0, <2>5 DEF ContextEnds
  <2> QED
    BY <2>2, <2>3, <2>4, <2>5, ContextStep
<1> QED
  BY <1>1, <1>3 DEF TokenInv

\* A GetResponse that returns true has a message, and it answers this client's request.
THEOREM AnswersAreMine == Spec => []ResponseIsMine
<1>1. TokenInv /\ [Next]_vars => TokenInv'
  BY TokenStep
<1>2. ASSUME TokenInv PROVE ResponseIsMine
  <2>1. ASSUME NEW w \in Clients, client[w] \in {"clear", "remove", "done"}
        PROVE  response[w] # <<>> /\ Context[MessageOf(response[w][1])] = Request[w]
    <3>1. response[w] # <<>> /\ OfContext(response[w], Request[w]) /\ response[w] \in Seq(Objects)
      BY <1>2, <2>1 DEF TokenInv, TypeInv, TypeOK, ObjectLists, Held, HeldResponse
    <3>2. 1 \in DOMAIN response[w]
      <4>1. Len(response[w]) \in Nat \ {0} /\ DOMAIN response[w] = 1 .. Len(response[w])
        BY <3>1, EmptySeq, LenProperties
      <4> QED
        BY <4>1
    <3> QED
      BY <3>1, <3>2 DEF OfContext, Range
  <2> QED
    BY <2>1 DEF ResponseIsMine
<1> QED
  BY <1>1, <1>2, TokenInit, PTL DEF Spec

\* What came in before a time-out is still there for the next GetResponse: no step
\* but the destructor's takes a message from a client that waits or has timed out.
THEOREM LateRepliesStay == Spec => LateReplyKept
<1>1. TokenInv /\ [Next]_vars => TokenInv'
  BY TokenStep
<1>2. ASSUME TokenInv, [Next]_vars
      PROVE  \A w \in Clients :
                client[w] \in {"take", "timedOut"} /\ head[Request[w]] # <<>>
                    /\ dtor' # "destroyed" => head'[Request[w]] # <<>>
  <2>1. ASSUME NEW w \in Clients, client[w] \in {"take", "timedOut"},
               head[Request[w]] # <<>>, dtor' # "destroyed"
        PROVE  head'[Request[w]] # <<>>
    <3>1. ContextKept(w) \/ ContextStored(w) \/ OwnStep(w) \/ ContextEnds(w)
      BY <1>2, ContextStep
    <3> QED
      BY <2>1, <3>1 DEF ContextKept, ContextStored, OwnStep, ContextEnds
  <2> QED
    BY <2>1
<1> QED
  BY <1>1, <1>2, TokenInit, PTL DEF Spec, LateReplyKept

-----------------------------------------------------------------------------
(* The accumulated lists: sorted by fragment number, no object twice.      *)

Sorted(list) == \A i, j \in DOMAIN list : i < j => FragNum(list[i]) <= FragNum(list[j])

\* A list without an object gets it once.
LEMMA InsertedDistinct ==
    ASSUME NEW list \in Seq(Objects), NEW o \in Objects, IsInjective(list), o \notin Range(list)
    PROVE  IsInjective(Inserted(list, o))
<1> DEFINE new == Inserted(list, o)
<1>p. PICK p \in 1 .. Len(list) + 1 : PutAt(new, list, o, p)
  BY InsertedProperties
<1>1. \A i \in 1 .. Len(list) + 1 :
         new[i] = IF i < p THEN list[i] ELSE IF i = p THEN o ELSE list[i - 1]
  BY <1>p DEF PutAt
<1>2. /\ new \in Seq(Objects) /\ Len(new) = Len(list) + 1 /\ Len(list) \in Nat
      /\ DOMAIN new = 1 .. Len(list) + 1 /\ DOMAIN list = 1 .. Len(list)
  BY InsertedProperties, LenProperties
<1>3. \A i \in DOMAIN list : list[i] # o
  BY DEF Range
<1> HIDE DEF new
<1> DEFINE old(i) == IF i < p THEN i ELSE i - 1
<1>4. \A i \in DOMAIN new : i # p => old(i) \in DOMAIN list /\ new[i] = list[old(i)]
  BY <1>1, <1>2
<1>5. \A i, j \in DOMAIN new : i # p /\ j # p /\ old(i) = old(j) => i = j
  BY <1>1, <1>2
<1>6. p \in DOMAIN new /\ new[p] = o
  BY <1>1, <1>2
<1> HIDE DEF old
<1>7. ASSUME NEW i \in DOMAIN new, NEW j \in DOMAIN new, new[i] = new[j] PROVE i = j
  <2>1. CASE i = p \/ j = p
    BY <1>3, <1>4, <1>6, <1>7, <2>1
  <2>2. CASE i # p /\ j # p
    <3>1. old(i) \in DOMAIN list /\ old(j) \in DOMAIN list /\ list[old(i)] = list[old(j)]
      BY <1>4, <1>7, <2>2
    <3>2. old(i) = old(j)
      BY <3>1 DEF IsInjective
    <3> QED
      BY <1>5, <2>2, <3>2
  <2> QED
    BY <2>1, <2>2
<1> QED
  BY <1>7 DEF IsInjective, new

\* A sorted list stays sorted.
LEMMA InsertedSorted ==
    ASSUME NEW list \in Seq(Objects), NEW o \in Objects, Sorted(list),
           \A p \in Range(list) \cup {o} : FragNum(p) \in Nat
    PROVE  Sorted(Inserted(list, o))
<1> DEFINE new == Inserted(list, o)
<1>p. PICK p \in 1 .. Len(list) + 1 :
        /\ PutAt(new, list, o, p)
        /\ \A i \in 1 .. Len(list) : i < p => ~ (FragNum(o) < FragNum(list[i]))
        /\ p <= Len(list) => FragNum(o) < FragNum(list[p])
  BY InsertedProperties
<1>1. /\ \A i \in 1 .. Len(list) + 1 :
            new[i] = IF i < p THEN list[i] ELSE IF i = p THEN o ELSE list[i - 1]
      /\ \A i \in 1 .. Len(list) : i < p => ~ (FragNum(o) < FragNum(list[i]))
      /\ p <= Len(list) => FragNum(o) < FragNum(list[p])
  BY <1>p DEF PutAt
<1>2. /\ new \in Seq(Objects) /\ Len(new) = Len(list) + 1 /\ Len(list) \in Nat
      /\ DOMAIN new = 1 .. Len(list) + 1 /\ DOMAIN list = 1 .. Len(list)
  BY InsertedProperties, LenProperties
<1> HIDE DEF new
<1> DEFINE f(i) == FragNum(list[i])
<1>3. FragNum(o) \in Nat /\ \A i \in DOMAIN list : f(i) \in Nat
  BY DEF Range
<1>4. \A i, j \in DOMAIN list : i < j => f(i) <= f(j)
  BY DEF Sorted
<1>5. /\ \A i \in DOMAIN list : i < p => ~ (FragNum(o) < f(i))
      /\ p <= Len(list) => FragNum(o) < f(p)
  BY <1>1, <1>2
<1> HIDE DEF f
<1>6. \A i \in DOMAIN list : i < p => f(i) <= FragNum(o)
  BY <1>3, <1>5
<1>7. \A i \in DOMAIN list : ~ (i < p) => FragNum(o) <= f(i)
  <2>1. ASSUME NEW i \in DOMAIN list, ~ (i < p) PROVE FragNum(o) <= f(i)
    <3>1. p <= i /\ p \in DOMAIN list /\ p <= Len(list)
      BY <1>2, <2>1
    <3>2. f(p) <= f(i) /\ FragNum(o) < f(p) /\ f(p) \in Nat /\ f(i) \in Nat
      <4>1. p = i \/ p < i
        BY <1>2, <3>1
      <4> QED
        BY <1>3, <1>4, <1>5, <2>1, <3>1, <4>1
    <3> QED
      BY <1>3, <3>2
  <2> QED
    BY <2>1
<1>8. \A i \in DOMAIN new :
        /\ i < p => i \in DOMAIN list /\ FragNum(new[i]) = f(i)
        /\ i = p => FragNum(new[i]) = FragNum(o)
        /\ i > p => /\ i - 1 \in DOMAIN list /\ ~ (i - 1 < p)
                    /\ FragNum(new[i]) = f(i - 1)
  BY <1>1, <1>2 DEF f
<1>9. ASSUME NEW i \in DOMAIN new, NEW j \in DOMAIN new, i < j
      PROVE  FragNum(new[i]) <= FragNum(new[j])
  <2>0. i \in Nat /\ j \in Nat /\ p \in Nat
    BY <1>2
  <2>1. CASE i < p /\ j < p
    BY <1>4, <1>8, <1>9, <2>1
  <2>2. CASE i < p /\ j = p
    BY <1>6, <1>8, <2>2
  <2>3. CASE i < p /\ j > p
    <3>1. i \in DOMAIN list /\ j - 1 \in DOMAIN list /\ i < j - 1
      BY <1>8, <2>0, <2>3
    <3> QED
      BY <1>4, <1>8, <2>3, <3>1
  <2>4. CASE i = p /\ j > p
    BY <1>7, <1>8, <2>4
  <2>5. CASE i > p /\ j > p
    <3>1. i - 1 \in DOMAIN list /\ j - 1 \in DOMAIN list /\ i - 1 < j - 1
      BY <1>8, <1>9, <2>0, <2>5
    <3> QED
      BY <1>4, <1>8, <2>5, <3>1
  <2> QED
    BY <1>9, <2>0, <2>1, <2>2, <2>3, <2>4, <2>5
<1> QED
  BY <1>9 DEF Sorted, new

\* Numbers in 1 .. n that strictly increase over 1 .. n are 1, 2, ... n.
LEMMA IncreasingIsIdentity ==
    ASSUME NEW n \in Nat, NEW f \in [1 .. n -> 1 .. n],
           \A i, j \in 1 .. n : i < j => f[i] < f[j]
    PROVE  \A i \in 1 .. n : f[i] = i
<1>1. \A i \in 1 .. n : i <= f[i]
  <2> DEFINE below == {i \in 1 .. n : f[i] < i}
  <2>1. SUFFICES ASSUME below # {} PROVE FALSE
    BY <2>1
  <2>2. below \subseteq Nat
    OBVIOUS
  <2>3. PICK i \in below : \A j \in below : i <= j
    BY <2>1, <2>2, MinExists
  <2>4. i \in 1 .. n /\ f[i] < i /\ f[i] \in 1 .. n
    BY <2>3
  <2>5. i - 1 \in 1 .. n /\ i - 1 < i
    BY <2>4
  <2>6. f[i - 1] < f[i] /\ f[i - 1] \in 1 .. n
    BY <2>4, <2>5
  <2>7. i - 1 \in below
    <3>1. f[i - 1] < i - 1
      BY <2>4, <2>6
    <3> QED
      BY <2>5, <3>1
  <2> QED
    BY <2>3, <2>4, <2>5, <2>7
<1>2. \A i \in 1 .. n : f[i] <= i
  <2> DEFINE above == {k \in 0 .. n - 1 : f[n - k] > n - k}
  <2>1. ASSUME above # {} PROVE FALSE
    <3>1. above \subseteq Nat
      OBVIOUS
    <3>2. PICK k \in above : \A j \in above : k <= j
      BY <2>1, <3>1, MinExists
    <3>3. k \in 0 .. n - 1 /\ n - k \in 1 .. n /\ f[n - k] > n - k /\ f[n - k] \in 1 .. n
      BY <3>2
    <3>4. k # 0
      BY <3>3
    <3>5. k - 1 \in 0 .. n - 1 /\ n - (k - 1) \in 1 .. n /\ n - k < n - (k - 1)
      BY <3>3, <3>4
    <3>6. f[n - k] < f[n - (k - 1)] /\ f[n - (k - 1)] \in 1 .. n
      BY <3>3, <3>5
    <3>7. k - 1 \in above
      <4>1. f[n - (k - 1)] > n - (k - 1)
        BY <3>3, <3>5, <3>6
      <4> QED
        BY <3>5, <4>1
    <3>8. k <= k - 1
      BY <3>2, <3>7
    <3> QED
      BY <3>3, <3>8
  <2>2. ASSUME NEW i \in 1 .. n PROVE f[i] <= i
    <3>1. n - i \in 0 .. n - 1 /\ n - (n - i) = i
      OBVIOUS
    <3>2. ~ (f[n - (n - i)] > n - (n - i))
      BY <2>1, <3>1
    <3>3. f[i] \in 1 .. n
      OBVIOUS
    <3> QED
      BY <3>1, <3>2, <3>3
  <2> QED
    BY <2>2
<1>3. \A i \in 1 .. n : f[i] \in 1 .. n
  OBVIOUS
<1> QED
  BY <1>1, <1>2, <1>3

\* The first object of a list.
LEMMA FirstShape ==
    ASSUME NEW list \in Seq(Objects), list # <<>>
    PROVE  /\ Len(list) \in Nat \ {0} /\ DOMAIN list = 1 .. Len(list)
           /\ 1 \in DOMAIN list /\ list[1] \in Range(list)
<1>1. Len(list) \in Nat \ {0} /\ DOMAIN list = 1 .. Len(list)
  BY EmptySeq, LenProperties
<1>2. 1 \in DOMAIN list
  BY <1>1
<1> QED
  BY <1>1, <1>2 DEF Range

\* What Complete lets through, which only counts, is whole.
LEMMA CompleteIsWhole ==
    ASSUME TypeOK, NEW list \in Seq(Objects), NEW m \in Messages, list # <<>>,
           OfMessage(list, m), IsInjective(list), Sorted(list), Complete(list)
    PROVE  Whole(list)
<1> DEFINE n == Len(list)
<1>1. /\ n \in Nat \ {0} /\ DOMAIN list = 1 .. n /\ list[1] \in Range(list)
  BY FirstShape
<1>2. \A i \in 1 .. n : /\ list[i] \in Arrived /\ MessageOf(list[i]) = m
                        /\ FragNum(list[i]) \in 1 .. Length[m]
                        /\ content[list[i]] = <<m, FragNum(list[i])>>
  <2>1. \A i \in 1 .. n : list[i] \in Range(list)
    BY <1>1 DEF Range
  <2> QED
    BY <2>1, ArrivedProperties DEF OfMessage
<1>3. MessageOf(list[1]) = m
  BY <1>1 DEF OfMessage
<1>4. Length[m] = n
  BY DEF Complete, OfMessage
<1>a. \E i \in DOMAIN list : FragNum(list[i]) = Length[m]
  BY DEF Complete, OfMessage, Range
<1>b. \A i \in DOMAIN list : MessageOf(list[i]) = m
  BY <1>1, <1>2
<1>5. SUFFICES ASSUME ~ Copies(list)
               PROVE  [i \in DOMAIN list |-> content[list[i]]] = [i \in 1 .. Length[m] |-> <<m, i>>]
  BY <1>3, <1>4, <1>a, <1>b DEF Whole, Sorted
<1> DEFINE f == [i \in 1 .. n |-> FragNum(list[i])]
<1> HIDE DEF n
<1>6. f \in [1 .. n -> 1 .. n]
  BY <1>2, <1>4
<1>7. ASSUME NEW i \in 1 .. n, NEW j \in 1 .. n, i < j PROVE f[i] < f[j]
  <2>1. FragNum(list[i]) <= FragNum(list[j])
    BY <1>1, <1>7 DEF Sorted
  <2>2. list[i] # list[j]
    BY <1>1, <1>7 DEF IsInjective
  <2>3. content[list[i]] # content[list[j]]
    BY <1>1, <1>5, <2>2 DEF Copies
  <2>4. FragNum(list[i]) # FragNum(list[j])
    BY <1>2, <2>3
  <2> QED
    BY <1>2, <1>4, <2>1, <2>4
<1>8. \A i \in 1 .. n : f[i] = i
  <2>1. n \in Nat
    BY <1>1
  <2> HIDE DEF f
  <2> QED
    BY <2>1, <1>6, <1>7, IncreasingIsIdentity
<1>9. \A i \in 1 .. n : content[list[i]] = <<m, i>>
  BY <1>2, <1>8
<1> QED
  BY <1>1, <1>4, <1>9

\* A single segment of a message of one is whole.
LEMMA SingleIsWhole ==
    ASSUME TypeOK, NEW o \in Arrived, Length[MessageOf(o)] = 1
    PROVE  Whole(<<o>>)
<1>1. /\ content[o] = <<MessageOf(o), FragNum(o)>> /\ FragNum(o) \in 1 .. 1
  BY ArrivedProperties
<1>2. FragNum(o) = 1
  BY <1>1
<1>3. <<o>>[1] = o /\ <<o>> \in Seq({o}) /\ Len(<<o>>) = 1
  OBVIOUS
<1>4. DOMAIN <<o>> = 1 .. 1 /\ \A i \in 1 .. 1 : i = 1
  BY <1>3, LenProperties
<1>5. IsInjective(<<o>>)
  BY <1>4 DEF IsInjective
<1> QED
  BY <1>1, <1>2, <1>3, <1>4, <1>5 DEF Whole

\* Whole stays whole: the objects of a list keep their segments.
LEMMA WholeKept ==
    ASSUME TypeOK, Kept, NEW list \in Seq(Objects), list # <<>>, NEW m, OfMessage(list, m),
           Whole(list)
    PROVE  Whole(list)'
<1>1. /\ Len(list) \in Nat \ {0} /\ DOMAIN list = 1 .. Len(list)
      /\ 1 \in DOMAIN list /\ list[1] \in Range(list)
  BY FirstShape
<1>2. \A i \in DOMAIN list : list[i] \in Arrived /\ content'[list[i]] = content[list[i]]
  BY DEF OfMessage, Kept, Range
<1>3. \A i \in DOMAIN list : /\ MessageOf(list[i])' = MessageOf(list[i])
                              /\ FragNum(list[i])' = FragNum(list[i])
  BY <1>2 DEF MessageOf, FragNum
<1>4. Copies(list)' <=> Copies(list)
  BY <1>2 DEF Copies
<1> QED
  BY <1>1, <1>2, <1>3, <1>4 DEF Whole

-----------------------------------------------------------------------------
(* On its way to its context, an object is in one place.                   *)

Once ==
    /\ IsInjective(queue) /\ IsInjective(item)
    /\ \A m \in Messages : IsInjective(accum[m])
    /\ recv.seg # Null => recv.seg \notin Range(queue) /\ recv.seg \notin Range(item)
    /\ Range(queue) \cap Range(item) \subseteq {Null}
    /\ \A m \in Messages :
          \A o \in Range(accum[m]) : o \notin Range(queue) /\ o \notin Range(item) /\ o # recv.seg

\* What the accumulator thread holds has arrived; it holds nothing between segments.
LEMMA ItemShape ==
    ASSUME TypeInv
    PROVE  /\ Range(item) \subseteq Arrived \cup {Null}
           /\ acc \notin {"handle", "put"} => item = <<>>
<1>1. CASE acc = "handle"
  BY <1>1, SingleRange DEF TypeInv, Held, HeldItem
<1>2. CASE acc = "put"
  BY <1>2 DEF TypeInv, Held, HeldItem, OfMessage
<1>3. CASE acc \notin {"handle", "put"}
  BY <1>3 DEF TypeInv, Held, HeldItem, Range
<1> QED
  BY <1>1, <1>2, <1>3

\* Lists of no and of one object have no object twice.
LEMMA ShortDistinct ==
    IsInjective(<<>>) /\ Range(<<>>) = {} /\ \A x : IsInjective(<<x>>)
<1>1. IsInjective(<<>>) /\ Range(<<>>) = {}
  BY DEF IsInjective, Range
<1>2. ASSUME NEW x PROVE IsInjective(<<x>>)
  <2>1. <<x>> \in Seq({x}) /\ Len(<<x>>) = 1
    OBVIOUS
  <2>2. DOMAIN <<x>> = 1 .. 1 /\ \A i \in 1 .. 1 : i = 1
    BY <2>1, LenProperties
  <2> QED
    BY <2>2 DEF IsInjective
<1> QED
  BY <1>1, <1>2

\* Every step keeps it so.
LEMMA OnceStep ==
    ASSUME TypeInv, Once, [Next]_vars PROVE Once'
<1>0. /\ queue \in Seq(Objects \cup {Null}) /\ Arrived \subseteq Objects /\ Null \notin Objects
      /\ Range(queue) \subseteq Arrived \cup {Null}
      /\ Range(item) \subseteq Arrived \cup {Null}
      /\ \A m \in Messages : \A o \in Range(accum[m]) : o \in Arrived /\ MessageOf(o) = m
      /\ recv.seg \in Objects \cup {Null} /\ accum \in [Messages -> ObjectLists]
  BY ArrivedProperties, IpcAccumAssumption, ItemShape
  DEF TypeInv, TypeOK, Held, HeldBefore, HeldAccum, OfMessage
<1>1. ASSUME NEW s \in Segments, Receive(s) PROVE Once'
  <2>1. PICK o \in Objects : recv' = [at |-> "submit", seg |-> o] /\ o \notin Arrived
    BY <1>1, ReceiveShape DEF TypeInv
  <2>2. recv'.seg = o /\ o # Null /\ queue' = queue /\ item' = item /\ accum' = accum
    BY <1>0, <1>1, <2>1 DEF Receive, accVars
  <2> QED
    BY <1>0, <2>1, <2>2 DEF Once
<1>2. CASE Submit
  <2>1. recv.seg # Null /\ recv.seg \in Objects \cup {Null} /\ recv.seg \notin Range(queue)
    BY <1>0, <1>2 DEF Submit, TypeInv, Phases, Once
  <2>2. IsInjective(queue) /\ ToSet(queue) = Range(queue)
    BY DEF Once, ToSet, Range
  <2>3. IsInjective(Append(queue, recv.seg))
    BY <1>0, <2>1, <2>2, AppendDistinct
  <2>4. Range(Append(queue, recv.seg)) = Range(queue) \cup {recv.seg}
    BY <1>0, <2>1, QueueShape
  <2>5. /\ recv'.seg = Null /\ queue' = Append(queue, recv.seg)
        /\ item' = item /\ accum' = accum
    BY <1>2 DEF Submit, accVars
  <2> QED
    BY <1>0, <2>1, <2>3, <2>4, <2>5 DEF Once
<1>3. CASE SubmitRefused
  <2>1. recv'.seg = recv.seg /\ queue' = queue /\ item' = item /\ accum' = accum
    BY <1>3 DEF SubmitRefused, accVars, TypeInv, TypeOK
  <2> QED
    BY <2>1 DEF Once
<1>4. CASE RecvDelete
  <2>1. recv'.seg = Null /\ queue' = queue /\ item' = item /\ accum' = accum
    BY <1>4 DEF RecvDelete, accVars
  <2> QED
    BY <1>0, <2>1 DEF Once
<1>5. CASE AccGet
  <2>1. queue # <<>> /\ IsInjective(queue) /\ ToSet(queue) = Range(queue)
        /\ ToSet(Tail(queue)) = Range(Tail(queue))
    BY <1>5 DEF AccGet, Once, ToSet, Range
  <2>2. /\ Head(queue) \in Range(queue) /\ IsInjective(Tail(queue))
        /\ Range(Tail(queue)) = Range(queue) \ {Head(queue)}
    BY <1>0, <2>1, TailDistinct
  <2>3. /\ recv' = recv /\ queue' = Tail(queue) /\ item' = <<Head(queue)>> /\ accum' = accum
    BY <1>5 DEF AccGet, recvVars
  <2>4. Range(<<Head(queue)>>) = {Head(queue)} /\ IsInjective(<<Head(queue)>>)
    BY SingleRange, ShortDistinct
  <2> QED
    BY <1>0, <2>2, <2>3, <2>4 DEF Once
<1>6. CASE AccAccumulate
  <2>1. PICK o \in Arrived, m \in Messages, list \in Seq(Objects) : Accumulated(o, m, list)
    BY <1>6, AccumulateShape
  <2>2. Range(item) = {o} /\ o \notin Range(accum[m])
    <3>1. Range(item) = {o}
      BY <2>1, SingleRange DEF Accumulated
    <3> QED
      BY <3>1 DEF Once
  <2>3. IsInjective(list)
    BY <2>1, <2>2, InsertedDistinct DEF Accumulated, Once
  <2>4. recv' = recv /\ queue' = queue
    BY <1>6 DEF AccAccumulate, recvVars
  <2>5. Range(list) = Range(accum[m]) \cup {o} /\ MessageOf(o) = m
    BY <2>1 DEF Accumulated
  <2>6. CASE /\ item' = list
             /\ \A n \in Messages : accum'[n] = IF n = m THEN <<>> ELSE accum[n]
    <3>1. \A n \in Messages : /\ IsInjective(accum'[n])
                              /\ Range(accum'[n]) = IF n = m THEN {} ELSE Range(accum[n])
      BY <2>6, ShortDistinct DEF Once
    <3> QED
      BY <1>0, <2>2, <2>3, <2>4, <2>5, <2>6, <3>1 DEF Once
  <2>7. CASE /\ item' = <<>>
             /\ \A n \in Messages : accum'[n] = IF n = m THEN list ELSE accum[n]
    <3>1. \A n \in Messages :
            /\ IsInjective(accum'[n])
            /\ Range(accum'[n]) = IF n = m THEN Range(accum[m]) \cup {o} ELSE Range(accum[n])
      BY <2>3, <2>5, <2>7 DEF Once
    <3> QED
      BY <1>0, <2>2, <2>4, <2>7, <3>1, ShortDistinct DEF Once
  <2> QED
    BY <2>1, <2>6, <2>7 DEF Accumulated
<1>7. CASE AccSweep
  <2>1. /\ recv' = recv /\ queue' = queue /\ item' = <<>>
        /\ \A n \in Messages : accum'[n] = accum[n] \/ accum'[n] = <<>>
    BY <1>7 DEF AccSweep, recvVars, TypeInv, TypeOK
  <2>2. \A n \in Messages : IsInjective(accum'[n]) /\ Range(accum'[n]) \subseteq Range(accum[n])
    BY <2>1, ShortDistinct DEF Once
  <2> QED
    BY <2>1, <2>2, ShortDistinct DEF Once
<1>8. CASE AccStore \/ AccDispatch
  <2>1. recv' = recv /\ queue' = queue /\ item' = <<>> /\ accum' = accum
    BY <1>8 DEF AccStore, AccDispatch, recvVars
  <2> QED
    BY <2>1, ShortDistinct DEF Once
<1>9. CASE DtorRelease
  <2>1. Null \notin Range(queue) /\ IsInjective(queue) /\ ToSet(queue) = Range(queue)
    BY <1>9 DEF DtorRelease, TypeInv, Phases, Once, ToSet, Range
  <2>2. IsInjective(Append(queue, Null)) /\ Range(Append(queue, Null)) = Range(queue) \cup {Null}
    BY <1>0, <2>1, AppendDistinct, QueueShape
  <2>3. /\ recv' = recv /\ queue' \in {queue, Append(queue, Null)}
        /\ item' = item /\ accum' = accum
    BY <1>9 DEF DtorRelease, recvVars, accVars
  <2>4. recv.seg = Null
    BY <1>9 DEF DtorRelease, TypeInv, Phases
  <2> QED
    BY <1>0, <2>2, <2>3, <2>4 DEF Once
<1>10. CASE DtorEnd
  <2>1. /\ recv' = recv /\ queue' = <<>> /\ item' = item
        /\ \A n \in Messages : accum'[n] = <<>>
    BY <1>10 DEF DtorEnd, recvVars
  <2> QED
    BY <2>1, ShortDistinct DEF Once
<1>11. CASE UNCHANGED <<recv, queue, item, accum>>
  BY <1>11 DEF Once
<1>12. \/ \E s \in Segments : Receive(s)
       \/ Submit \/ SubmitRefused \/ RecvDelete \/ AccGet \/ AccAccumulate \/ AccSweep
       \/ AccStore \/ AccDispatch \/ DtorRelease \/ DtorEnd
       \/ UNCHANGED <<recv, queue, item, accum>>
  BY DEF Next, Accumulate, Respond, vars, recvVars, accVars, AccPoll, AccGetTimeout,
         AccSingle, AccRemove, GetResponse, MessageGetTimeout, MessageGetTake,
         MessageGetRead, MessageGetClear, GetResponseRemove, DtorExitReq
<1> QED
  BY <1>1, <1>2, <1>3, <1>4, <1>5, <1>6, <1>7, <1>8, <1>9, <1>10, <1>11, <1>12

-----------------------------------------------------------------------------
(* Whole messages.                                                         *)

\* Accumulators are sorted, and what leaves them is whole and stays so.
WholeInv ==
    /\ TypeInv /\ Once
    /\ \A m \in Messages : Sorted(accum[m])
    /\ acc = "put" => Whole(item)
    /\ \A list \in delivered : Whole(list)

\* The first states satisfy it.
LEMMA WholeInit ==
    ASSUME Init PROVE WholeInv
<1>1. Once
  BY ShortDistinct DEF Init, Once
<1>2. Sorted(<<>>)
  BY DEF Sorted
<1> QED
  BY <1>1, <1>2, TypeInit DEF Init, WholeInv

\* Every step keeps the accumulators sorted.
LEMMA SortedStep ==
    ASSUME WholeInv, [Next]_vars PROVE \A m \in Messages : Sorted(accum[m])'
<1>0. /\ TypeInv /\ TypeOK /\ Kept
      /\ \A m \in Messages : Sorted(accum[m])
      /\ \A m \in Messages : \A o \in Range(accum[m]) : o \in Arrived
  BY KeptStep DEF WholeInv, TypeInv, Held, HeldAccum, OfMessage
<1>1. Sorted(<<>>)
  BY DEF Sorted
<1>2. ASSUME content' = content, \A m \in Messages : Sorted(accum'[m])
      PROVE  \A m \in Messages : Sorted(accum[m])'
  BY <1>2 DEF Sorted, FragNum
<1>3. CASE AccAccumulate
  <2>1. PICK o \in Arrived, m \in Messages, list \in Seq(Objects) : Accumulated(o, m, list)
    BY <1>0, <1>3, AccumulateShape
  <2>2. \A p \in Range(accum[m]) \cup {o} : FragNum(p) \in Nat
    <3>1. \A p \in Arrived : MessageOf(p) \in Messages /\ FragNum(p) \in 1 .. Length[MessageOf(p)]
      BY <1>0, ArrivedProperties
    <3>2. \A n \in Messages : 1 .. Length[n] \subseteq Nat
      BY IpcAccumAssumption
    <3>3. Range(accum[m]) \cup {o} \subseteq Arrived
      BY <1>0
    <3> QED
      BY <3>1, <3>2, <3>3
  <2>3. Sorted(list)
    <3>1. Sorted(accum[m])
      BY <1>0
    <3>2. accum[m] \in Seq(Objects) /\ o \in Objects /\ list = Inserted(accum[m], o)
      BY <2>1 DEF Accumulated
    <3>3. Sorted(Inserted(accum[m], o))
      BY <2>2, <3>1, <3>2, InsertedSorted
    <3> QED
      BY <3>2, <3>3
  <2>4. \A n \in Messages : \/ accum'[n] = accum[n]
                            \/ accum'[n] = <<>>
                            \/ accum'[n] = list
    BY <2>1 DEF Accumulated
  <2>5. \A n \in Messages : Sorted(accum'[n])
    BY <1>0, <1>1, <2>3, <2>4 DEF Sorted
  <2> QED
    BY <1>2, <2>1, <2>5 DEF Accumulated
<1>4. CASE AccSweep \/ DtorEnd
  <2>1. \A n \in Messages : accum'[n] = accum[n] \/ accum'[n] = <<>>
    BY <1>0, <1>4 DEF AccSweep, DtorEnd, TypeOK
  <2>2. \A n \in Messages : Sorted(accum'[n])
    BY <1>0, <1>1, <2>1 DEF Sorted
  <2> QED
    BY <1>2, <1>4, <2>2 DEF AccSweep, DtorEnd, recvVars
<1>5. CASE UNCHANGED accum
  <2>1. ASSUME NEW m \in Messages PROVE Sorted(accum[m])'
    <3>1. \A i \in DOMAIN accum[m] : accum[m][i] \in Arrived
      BY <1>0 DEF Range
    <3>2. \A i \in DOMAIN accum[m] : FragNum(accum[m][i])' = FragNum(accum[m][i])
      BY <1>0, <1>5, <3>1 DEF Kept, FragNum
    <3> QED
      BY <1>0, <1>5, <3>2 DEF Sorted
  <2> QED
    BY <2>1
<1>6. AccAccumulate \/ AccSweep \/ DtorEnd \/ UNCHANGED accum
  BY DEF Next, Accumulate, Respond, vars, accVars, Receive, Submit, SubmitRefused,
         RecvDelete, AccPoll, AccGet, AccGetTimeout, AccSingle, AccStore, AccDispatch,
         AccRemove, GetResponse, MessageGetTimeout, MessageGetTake, MessageGetRead,
         MessageGetClear, GetResponseRemove, DtorExitReq, DtorRelease
<1> QED
  BY <1>3, <1>4, <1>5, <1>6

\* What is about to be put is whole.
LEMMA PutWholeStep ==
    ASSUME WholeInv, [Next]_vars PROVE acc' = "put" => Whole(item)'
<1>0. TypeInv /\ TypeOK /\ HeldItem /\ Kept
  BY KeptStep DEF WholeInv, TypeInv, Held
<1>1. ASSUME content' = content, Whole(item') PROVE Whole(item)'
  BY <1>1 DEF Whole, Copies, MessageOf, FragNum
<1>2. CASE AccAccumulate
  <2>1. PICK o \in Arrived, m \in Messages, list \in Seq(Objects) : Accumulated(o, m, list)
    BY <1>0, <1>2, AccumulateShape
  <2>2. /\ accum[m] \in Seq(Objects) /\ o \in Objects /\ list = Inserted(accum[m], o)
        /\ Range(item) = {o} /\ OfMessage(accum[m], m)
        /\ OfMessage(list, m) /\ list # <<>> /\ content' = content
    BY <2>1, SingleRange DEF Accumulated
  <2>3. IsInjective(accum[m]) /\ Sorted(accum[m]) /\ o \notin Range(accum[m])
    BY <2>2 DEF WholeInv, Once
  <2>4. \A p \in Range(accum[m]) \cup {o} : FragNum(p) \in Nat
    <3>1. \A p \in Arrived : MessageOf(p) \in Messages /\ FragNum(p) \in 1 .. Length[MessageOf(p)]
      BY <1>0, ArrivedProperties
    <3>2. \A n \in Messages : 1 .. Length[n] \subseteq Nat
      BY IpcAccumAssumption
    <3>3. Range(accum[m]) \cup {o} \subseteq Arrived
      BY <2>2 DEF OfMessage
    <3> QED
      BY <3>1, <3>2, <3>3
  <2>5. IsInjective(list) /\ Sorted(list)
    <3>1. IsInjective(Inserted(accum[m], o)) /\ Sorted(Inserted(accum[m], o))
      BY <2>2, <2>3, <2>4, InsertedDistinct, InsertedSorted
    <3> QED
      BY <2>2, <3>1
  <2>6. CASE acc' = "put"
    <3>1. Complete(list) /\ item' = list
      BY <2>1, <2>6 DEF Accumulated
    <3>2. Whole(list)
      BY <1>0, <2>2, <2>5, <3>1, CompleteIsWhole
    <3>3. Whole(item')
      BY <3>1, <3>2
    <3> QED
      BY <1>1, <2>2, <3>3
  <2> QED
    BY <2>6
<1>3. CASE AccSingle
  <2>1. /\ item[1] \in Arrived /\ item = <<item[1]>> /\ Length[MessageOf(item[1])] = 1
        /\ content' = content /\ item' = item
    BY <1>0, <1>3, HandledShape DEF AccSingle, recvVars
  <2>2. Whole(<<item[1]>>)
    BY <1>0, <2>1, SingleIsWhole
  <2>3. Whole(item')
    BY <2>1, <2>2
  <2> QED
    BY <1>1, <2>1, <2>3
<1>4. CASE UNCHANGED <<acc, item>>
  <2>1. ASSUME acc = "put" PROVE Whole(item)'
    <3>1. item \in Seq(Objects) /\ item # <<>> /\ \E m \in Messages : OfMessage(item, m)
      BY <1>0, <2>1 DEF HeldItem
    <3>2. Whole(item)
      BY <2>1 DEF WholeInv
    <3>3. ASSUME NEW list, list = item PROVE Whole(list)'
      BY <1>0, <3>1, <3>2, <3>3, WholeKept
    <3>4. item' = item
      BY <1>4
    <3> QED
      BY <3>3, <3>4 DEF Whole, Copies, MessageOf, FragNum
  <2> QED
    BY <1>4, <2>1
<1>5. \/ AccAccumulate \/ AccSingle \/ UNCHANGED <<acc, item>> \/ acc' # "put"
  BY DEF Next, Accumulate, Respond, vars, accVars, Receive, Submit, SubmitRefused,
         RecvDelete, AccPoll, AccGet, AccGetTimeout, AccSweep, AccStore, AccDispatch,
         AccRemove, GetResponse, MessageGetTimeout, MessageGetTake, MessageGetRead,
         MessageGetClear, GetResponseRemove, DtorExitReq, DtorRelease, DtorEnd
<1> QED
  BY <1>2, <1>3, <1>4, <1>5

\* Every step keeps the invariant.
LEMMA WholeStep ==
    ASSUME WholeInv, [Next]_vars PROVE WholeInv'
<1>0. TypeInv /\ TypeOK /\ HeldItem /\ HeldHistory /\ Kept
  BY KeptStep DEF WholeInv, TypeInv, Held
<1>a. delivered' = delivered \/ AccStore \/ AccDispatch
  BY DEF Next, Accumulate, Respond, vars, historyVars, Receive, Submit, SubmitRefused,
         RecvDelete, AccPoll, AccGet, AccGetTimeout, AccAccumulate, AccSingle, AccSweep,
         AccRemove, GetResponse, MessageGetTimeout, MessageGetTake, MessageGetRead,
         MessageGetClear, GetResponseRemove, DtorExitReq, DtorRelease, DtorEnd
<1>b. AccStore \/ AccDispatch => acc = "put" /\ delivered' = delivered \cup {item}
  BY DEF AccStore, AccDispatch
<1>1. \A list \in delivered' : list \in delivered \/ (acc = "put" /\ list = item)
  BY <1>a, <1>b
<1>2. ASSUME NEW list \in delivered' PROVE Whole(list)'
  <2>1. list \in Seq(Objects) /\ list # <<>> /\ \E m \in Messages : OfMessage(list, m)
    BY <1>0, <1>1 DEF TypeOK, ObjectLists, HeldItem, HeldHistory
  <2>2. Whole(list)
    BY <1>1 DEF WholeInv
  <2> QED
    BY <1>0, <2>1, <2>2, WholeKept
<1>3. \A list \in delivered' : Whole(list)'
  BY <1>2
<1> QED
  BY <1>0, <1>3, TypeStep, OnceStep, SortedStep, PutWholeStep DEF WholeInv

\* What reaches a context, in whatever order it came and whatever was lost, is as
\* many objects of one message as it has segments, in the order of their numbers
\* and with the last of them: each segment once, unless two of them are copies of
\* one segment.
THEOREM MessagesAreWhole == Spec => []DeliveredWhole
<1>1. WholeInv /\ [Next]_vars => WholeInv'
  BY WholeStep
<1>2. WholeInv => DeliveredWhole
  BY DEF WholeInv, DeliveredWhole
<1> QED
  BY <1>1, <1>2, WholeInit, PTL DEF Spec

-----------------------------------------------------------------------------
(* Owners.                                                                 *)

\* While one message at most came for a client's context, the client clears what
\* it has read.
Readers(w) ==
    /\ head[Request[w]] # <<>> => puts[Request[w]] > 0
    /\ client[w] \in {"read", "clear", "remove", "done"} => puts[Request[w]] > 0
    /\ client[w] = "clear" /\ puts[Request[w]] <= 1 => head[Request[w]] = response[w]
    /\ client[w] \notin {"clear", "remove", "done"} => response[w] = <<>>

\* Every step keeps it so.
LEMMA ReadersStep ==
    ASSUME TokenInv, [Next]_vars, NEW w \in Clients, Readers(w)
    PROVE  Readers(w)' /\ puts'[Request[w]] \in Nat /\ puts'[Request[w]] >= puts[Request[w]]
<1>1. puts[Request[w]] \in Nat
  BY ContextProperties DEF TokenInv, TypeInv, TypeOK
<1>2. client[w] = "read" => head[Request[w]] # <<>>
  BY DEF TokenInv
<1>3. token[Request[w]] = 1 /\ client[w] = "take" => head[Request[w]] # <<>>
  BY DEF TokenInv, TypeInv, Phases
<1>4. CASE ContextKept(w)
  BY <1>1, <1>4 DEF ContextKept, Readers
<1>5. CASE ContextStored(w)
  <2>1. puts'[Request[w]] = puts[Request[w]] + 1 /\ puts'[Request[w]] > 0
    BY <1>1, <1>5 DEF ContextStored
  <2>2. client[w] = "clear" => ~ (puts'[Request[w]] <= 1)
    BY <1>1, <2>1 DEF Readers
  <2> QED
    BY <1>1, <1>5, <2>1, <2>2 DEF ContextStored, Readers
<1>6. CASE OwnStep(w)
  BY <1>1, <1>2, <1>3, <1>6 DEF OwnStep, Readers
<1>7. CASE ContextEnds(w)
  BY <1>1, <1>7 DEF ContextEnds, Readers
<1> QED
  BY <1>4, <1>5, <1>6, <1>7, ContextStep

\* Who owns an object, as Places, without telling apart the places of one owner.
Owners == {"queue", "accum", "head", "response", "recv", "item", "dispatched"}

Owns(who, o) ==
    CASE who = "queue" -> o \in Range(queue)
      [] who = "accum" -> \E m \in Messages : o \in Range(accum[m])
      [] who = "head" -> \E c \in Contexts : o \in Range(head[c])
      [] who = "response" -> \E w \in Clients : o \in Range(response[w]) /\ client[w] # "clear"
      [] who = "recv" -> o = recv.seg
      [] who = "item" -> o \in Range(item)
      [] who = "dispatched" -> o \in dispatched

Where(o) == {who \in Owners : Owns(who, o)}

\* Two messages for a context in which a client waits: the store of the second may
\* race with the reader of the first.
Exempt(o) ==
    /\ o \in Arrived /\ Context[MessageOf(o)] \in Range(Request)
    /\ puts[Context[MessageOf(o)]] > 1

\* Not there yet, in one place, deleted, or refused and about to be deleted again.
Settled(o) ==
    \/ o \notin Arrived /\ Where(o) = {} /\ deleted[o] = 0 /\ o \notin refused
    \/ /\ o \in Arrived /\ (\E who \in Owners : Where(o) = {who})
       /\ deleted[o] = 0 /\ o \notin refused
    \/ o \in Arrived /\ Where(o) = {} /\ deleted[o] = IF o \in refused THEN 2 ELSE 1
    \/ /\ o \in Arrived /\ Where(o) = {"recv"} /\ recv.at = "refused"
       /\ deleted[o] = 1 /\ o \in refused

OwnInv ==
    /\ TokenInv /\ Once
    /\ \A w \in Clients : Readers(w)
    /\ acc # "crashed" => \A o \in Objects : Exempt(o) \/ Settled(o)

\* Where, owner by owner.
LEMMA WhereIs ==
    ASSUME NEW o
    PROVE  /\ Where(o) \subseteq Owners
           /\ "queue" \in Where(o) <=> o \in Range(queue)
           /\ "accum" \in Where(o) <=> \E m \in Messages : o \in Range(accum[m])
           /\ "head" \in Where(o) <=> \E c \in Contexts : o \in Range(head[c])
           /\ "response" \in Where(o) <=>
                 \E w \in Clients : o \in Range(response[w]) /\ client[w] # "clear"
           /\ "recv" \in Where(o) <=> o = recv.seg
           /\ "item" \in Where(o) <=> o \in Range(item)
           /\ "dispatched" \in Where(o) <=> o \in dispatched
BY DEF Where, Owns, Owners

\* The same after a step.
LEMMA WhereIsNext ==
    ASSUME NEW o
    PROVE  /\ Where(o)' \subseteq Owners
           /\ "queue" \in Where(o)' <=> o \in Range(queue')
           /\ "accum" \in Where(o)' <=> \E m \in Messages : o \in Range(accum'[m])
           /\ "head" \in Where(o)' <=> \E c \in Contexts : o \in Range(head'[c])
           /\ "response" \in Where(o)' <=>
                 \E w \in Clients : o \in Range(response'[w]) /\ client'[w] # "clear"
           /\ "recv" \in Where(o)' <=> o = recv'.seg
           /\ "item" \in Where(o)' <=> o \in Range(item')
           /\ "dispatched" \in Where(o)' <=> o \in dispatched'
BY DEF Where, Owns, Owners

\* What a step can do to an object.
Stays(o) ==
    /\ Where(o)' = Where(o) /\ deleted'[o] = deleted[o]
    /\ recv'.at = recv.at \/ "recv" \notin Where(o)
    /\ o \in Arrived' <=> o \in Arrived

Moves(o) ==
    /\ \E s \in Where(o), t \in Owners : Where(o)' = (Where(o) \ {s}) \cup {t}
    /\ deleted'[o] = deleted[o]
    /\ "recv" \in Where(o) => recv.at # "refused"

Goes(o) ==
    /\ \E s \in Where(o) : Where(o)' = Where(o) \ {s}
    /\ deleted'[o] = deleted[o] + 1

Comes(o) ==
    /\ o \notin Arrived /\ o \in Arrived'
    /\ Where(o)' = {"recv"} /\ deleted'[o] = deleted[o]

IsRefused(o) ==
    /\ "recv" \in Where(o) /\ Where(o)' = Where(o)
    /\ recv.at # "refused" /\ recv'.at = "refused"
    /\ deleted'[o] = deleted[o] + 1 /\ o \in refused'

\* Each of them leaves it settled.
LEMMA SettledKept ==
    ASSUME TypeInv, Kept, NEW o \in Objects, Settled(o),
           Stays(o) \/ Moves(o) \/ Goes(o) \/ Comes(o) \/ IsRefused(o),
           (o \in refused' <=> o \in refused) \/ IsRefused(o)
    PROVE  Settled(o)'
<1>1. CASE IsRefused(o)
  <2>1. Where(o) = {"recv"} /\ deleted[o] = 0 /\ o \in Arrived
    BY <1>1 DEF Settled, IsRefused
  <2>2. o \in Arrived' /\ Where(o)' = {"recv"} /\ deleted'[o] = 1
    BY <1>1, <2>1 DEF IsRefused, Kept
  <2> QED
    BY <1>1, <2>2 DEF Settled, IsRefused
<1>2. SUFFICES ASSUME ~ IsRefused(o), o \in refused' <=> o \in refused
               PROVE  Settled(o)'
  BY <1>1
<1>3. /\ deleted[o] \in Nat /\ (o \in Arrived => o \in Arrived')
      /\ "recv" \in Owners
  BY DEF TypeInv, TypeOK, Kept, Owners
<1>4. Where(o) # {} => o \in Arrived
  BY DEF Settled
<1>5. CASE Stays(o)
  BY <1>3, <1>5, <1>2 DEF Settled, Stays
<1>6. CASE Moves(o)
  <2>1. PICK s \in Where(o), t \in Owners : Where(o)' = (Where(o) \ {s}) \cup {t}
    BY <1>6 DEF Moves
  <2>2. Where(o) = {s} /\ deleted[o] = 0 /\ o \notin refused
    BY <1>6, <2>1 DEF Settled, Moves
  <2>3. Where(o)' = {t}
    BY <2>1, <2>2
  <2> QED
    BY <1>3, <1>4, <1>6, <1>2, <2>2, <2>3 DEF Settled, Moves
<1>7. CASE Goes(o)
  <2>1. PICK s \in Where(o) : Where(o)' = Where(o) \ {s}
    BY <1>7 DEF Goes
  <2>2. Where(o) = {s}
    BY <2>1 DEF Settled
  <2>3. Where(o)' = {} /\ deleted'[o] = deleted[o] + 1
    BY <1>7, <2>1, <2>2 DEF Goes
  <2>4. deleted[o] = IF o \in refused THEN 1 ELSE 0
    BY <2>1 DEF Settled
  <2> QED
    BY <1>3, <1>4, <1>2, <2>1, <2>3, <2>4 DEF Settled
<1>8. CASE Comes(o)
  BY <1>3, <1>8, <1>2 DEF Settled, Comes
<1> QED
  BY <1>5, <1>6, <1>7, <1>8, <1>2

\* An owner whose variables a step leaves alone keeps what it has.
LEMMA OwnerFrame ==
    ASSUME NEW o
    PROVE  /\ UNCHANGED queue => ("queue" \in Where(o)' <=> "queue" \in Where(o))
           /\ UNCHANGED accum => ("accum" \in Where(o)' <=> "accum" \in Where(o))
           /\ UNCHANGED head => ("head" \in Where(o)' <=> "head" \in Where(o))
           /\ UNCHANGED <<response, client>> =>
                  ("response" \in Where(o)' <=> "response" \in Where(o))
           /\ UNCHANGED recv => ("recv" \in Where(o)' <=> "recv" \in Where(o))
           /\ UNCHANGED item => ("item" \in Where(o)' <=> "item" \in Where(o))
           /\ UNCHANGED dispatched => ("dispatched" \in Where(o)' <=> "dispatched" \in Where(o))
BY WhereIs, WhereIsNext

\* Two sets of owners with the same members are the same.
LEMMA SameOwners ==
    ASSUME NEW S \in SUBSET Owners, NEW T \in SUBSET Owners,
           \A who \in Owners : who \in S <=> who \in T
    PROVE  S = T
OBVIOUS

\* A settled object has one owner at most.
LEMMA OneAtMost ==
    ASSUME NEW o, Settled(o) PROVE \A s, t \in Where(o) : s = t
BY DEF Settled

\* An object that nobody has counted again stays.
LEMMA Staying ==
    ASSUME NEW o \in Objects, content' = content, deleted'[o] = deleted[o],
           recv'.at = recv.at \/ "recv" \notin Where(o),
           \A who \in Owners : who \in Where(o)' <=> who \in Where(o)
    PROVE  Stays(o)
<1>1. Where(o) \in SUBSET Owners /\ Where(o)' \in SUBSET Owners
  BY WhereIs, WhereIsNext
<1>2. Where(o)' = Where(o)
  BY <1>1, SameOwners
<1> QED
  BY <1>2 DEF Stays, Arrived

\* What one owner gives and another takes moves.
LEMMA Moving ==
    ASSUME NEW o \in Objects, deleted'[o] = deleted[o],
           NEW s \in Where(o), NEW t \in Owners, t \in Where(o)',
           s = "recv" \/ "recv" \notin Where(o), s = "recv" => recv.at # "refused",
           \A who \in Owners : who # t => (who \in Where(o)' <=> who \in Where(o) /\ who # s)
    PROVE  Moves(o)
<1>1. Where(o) \in SUBSET Owners /\ Where(o)' \in SUBSET Owners
  BY WhereIs, WhereIsNext
<1>2. Where(o)' = (Where(o) \ {s}) \cup {t}
  <2> DEFINE T == (Where(o) \ {s}) \cup {t}
  <2>1. T \in SUBSET Owners /\ \A who \in Owners : who \in Where(o)' <=> who \in T
    BY <1>1
  <2> HIDE DEF T
  <2>2. Where(o)' = T
    BY <1>1, <2>1, SameOwners
  <2> QED
    BY <2>2 DEF T
<1> QED
  BY <1>2 DEF Moves

\* What its owner deletes goes.
LEMMA Going ==
    ASSUME NEW o \in Objects, deleted'[o] = deleted[o] + 1, NEW s \in Where(o),
           \A who \in Owners : who \in Where(o)' <=> who \in Where(o) /\ who # s
    PROVE  Goes(o)
<1>1. Where(o) \in SUBSET Owners /\ Where(o)' \in SUBSET Owners
  BY WhereIs, WhereIsNext
<1>2. Where(o)' = Where(o) \ {s}
  <2> DEFINE T == Where(o) \ {s}
  <2>1. T \in SUBSET Owners /\ \A who \in Owners : who \in Where(o)' <=> who \in T
    BY <1>1
  <2> HIDE DEF T
  <2>2. Where(o)' = T
    BY <1>1, <2>1, SameOwners
  <2> QED
    BY <2>2 DEF T
<1> QED
  BY <1>2 DEF Goes

-----------------------------------------------------------------------------
(* Owners, action by action.                                               *)

Handed(o) == Stays(o) \/ Moves(o) \/ Goes(o) \/ Comes(o) \/ IsRefused(o)

\* SubmitSegment deletes what the queue refuses, and the receive thread keeps it.
LEMMA RefusalHands ==
    ASSUME OwnInv, NEW o \in Objects, SubmitRefused, o = recv.seg
    PROVE  IsRefused(o)
<1>1. /\ recv.at = "submit" /\ recv'.at = "refused" /\ recv'.seg = recv.seg
      /\ o \in refused'
      /\ UNCHANGED <<queue, accum, head, response, client, item, dispatched>>
  BY DEF SubmitRefused, accVars, contextVars, clientVars, OwnInv, TokenInv, TypeInv, TypeOK
<1>2. TypeOK
  BY DEF OwnInv, TokenInv, TypeInv
<1>3. deleted'[o] = deleted[o] + 1
  BY <1>2, DeletingShape, SingleRange DEF SubmitRefused
<1>4. "recv" \in Where(o)
  BY WhereIs
<1>5. \A who \in Owners : who \in Where(o)' <=> who \in Where(o)
  BY <1>1, OwnerFrame, WhereIs, WhereIsNext DEF Owners
<1>6. Where(o)' = Where(o)
  <2>1. Where(o)' \in SUBSET Owners /\ Where(o) \in SUBSET Owners
    BY WhereIs, WhereIsNext
  <2> QED
    BY <1>5, <2>1, SameOwners
<1> QED
  BY <1>1, <1>3, <1>4, <1>6 DEF IsRefused

\* The receive thread: a new object, into the queue, or deleted twice.
LEMMA ReceiverHands ==
    ASSUME OwnInv, NEW o \in Objects, Settled(o),
           (\E s \in Segments : Receive(s)) \/ Submit \/ SubmitRefused \/ RecvDelete
    PROVE  Handed(o)
<1>0. /\ TypeOK /\ InOrder /\ Null \notin Objects
      /\ recv.seg \in Objects \cup {Null} /\ queue \in Seq(Objects \cup {Null})
      /\ recv.at = "recv" <=> recv.seg = Null
      /\ \A s, t \in Where(o) : s = t
  BY OneAtMost, IpcAccumAssumption DEF OwnInv, TokenInv, TypeInv, TypeOK, Phases
<1>1. ASSUME NEW s \in Segments, Receive(s) PROVE Handed(o)
  <2>1. PICK p \in Objects :
           /\ recv' = [at |-> "submit", seg |-> p] /\ p \notin Arrived
           /\ Arrived' = Arrived \cup {p}
    BY <1>0, <1>1, ReceiveShape
  <2>2. /\ recv.seg = Null /\ deleted' = deleted
        /\ UNCHANGED <<queue, accum, head, response, client, item, dispatched>>
    BY <1>0, <1>1 DEF Receive, accVars, contextVars, clientVars, historyVars
  <2>3. /\ \A who \in Owners \ {"recv"} : who \in Where(o)' <=> who \in Where(o)
        /\ "recv" \notin Where(o) /\ ("recv" \in Where(o)' <=> o = p)
    BY <1>0, <2>1, <2>2, OwnerFrame, WhereIs, WhereIsNext DEF Owners
  <2>4. CASE o = p
    <3>1. Where(o) = {}
      BY <2>1, <2>4 DEF Settled
    <3>2. Where(o)' = {"recv"}
      <4>1. Where(o)' \in SUBSET Owners /\ {"recv"} \in SUBSET Owners
        BY WhereIsNext DEF Owners
      <4>2. \A who \in Owners : who \in Where(o)' <=> who \in {"recv"}
        BY <2>3, <2>4, <3>1
      <4> QED
        BY <4>1, <4>2, SameOwners
    <3> QED
      BY <2>1, <2>2, <2>4, <3>2 DEF Comes, Handed
  <2>5. CASE o # p
    <3>1. \A who \in Owners : who \in Where(o)' <=> who \in Where(o)
      BY <2>3, <2>5
    <3>2. Where(o)' = Where(o)
      <4>1. Where(o)' \in SUBSET Owners /\ Where(o) \in SUBSET Owners
        BY WhereIs, WhereIsNext
      <4> QED
        BY <3>1, <4>1, SameOwners
    <3> QED
      BY <2>1, <2>2, <2>3, <2>5, <3>2 DEF Stays, Handed
  <2> QED
    BY <2>4, <2>5
<1>2. CASE Submit
  <2>1. /\ recv.at = "submit" /\ recv'.seg = Null /\ recv' = [at |-> "recv", seg |-> Null]
        /\ Range(queue') = Range(queue) \cup {recv.seg}
        /\ UNCHANGED <<content, deleted, accum, head, response, client, item, dispatched>>
    BY <1>0, <1>2, QueueShape DEF Submit, accVars, contextVars, clientVars, historyVars
  <2>2. /\ \A who \in Owners \ {"recv", "queue"} : who \in Where(o)' <=> who \in Where(o)
        /\ "recv" \notin Where(o)' /\ ("recv" \in Where(o) <=> o = recv.seg)
        /\ "queue" \in Where(o)' <=> "queue" \in Where(o) \/ o = recv.seg
    BY <1>0, <2>1, OwnerFrame, WhereIs, WhereIsNext DEF Owners
  <2>3. CASE o = recv.seg
    <3>1. /\ "recv" \in Where(o) /\ "queue" \in Where(o)' /\ "queue" \in Owners
          /\ \A who \in Owners : who # "queue" =>
                (who \in Where(o)' <=> who \in Where(o) /\ who # "recv")
      BY <2>2, <2>3 DEF Owners
    <3> QED
      BY <2>1, <3>1, Moving DEF Handed
  <2>4. CASE o # recv.seg
    <3>1. \A who \in Owners : who \in Where(o)' <=> who \in Where(o)
      BY <2>2, <2>4 DEF Owners
    <3> QED
      BY <2>1, <2>2, <2>4, <3>1, Staying DEF Handed
  <2> QED
    BY <2>3, <2>4
<1>3. CASE SubmitRefused
  <2>1. /\ recv'.at = "refused" /\ recv'.seg = recv.seg
        /\ UNCHANGED <<content, queue, accum, head, response, client, item, dispatched>>
    BY <1>0, <1>3 DEF SubmitRefused, accVars, contextVars, clientVars, TypeOK
  <2>2. deleted'[o] = IF o = recv.seg THEN deleted[o] + 1 ELSE deleted[o]
    BY <1>0, <1>3, DeletingShape, SingleRange DEF SubmitRefused
  <2>3. \A who \in Owners : who \in Where(o)' <=> who \in Where(o)
    BY <2>1, OwnerFrame, WhereIs, WhereIsNext DEF Owners
  <2>4. CASE o = recv.seg
    BY <1>3, <2>4, RefusalHands DEF Handed
  <2>5. CASE o # recv.seg
    <3>1. "recv" \notin Where(o)
      BY <2>5, WhereIs
    <3> QED
      BY <2>1, <2>2, <2>3, <2>5, <3>1, Staying DEF Handed
  <2> QED
    BY <2>4, <2>5
<1>4. CASE RecvDelete
  <2>1. /\ recv' = [at |-> "recv", seg |-> Null]
        /\ UNCHANGED <<content, queue, accum, head, response, client, item, dispatched>>
    BY <1>4 DEF RecvDelete, accVars, contextVars, clientVars, historyVars
  <2>2. deleted'[o] = IF o = recv.seg THEN deleted[o] + 1 ELSE deleted[o]
    BY <1>0, <1>4, DeletingShape, SingleRange DEF RecvDelete
  <2>3. /\ \A who \in Owners \ {"recv"} : who \in Where(o)' <=> who \in Where(o)
        /\ "recv" \notin Where(o)' /\ ("recv" \in Where(o) <=> o = recv.seg)
    BY <1>0, <2>1, OwnerFrame, WhereIs, WhereIsNext DEF Owners
  <2>4. CASE o = recv.seg
    <3>1. /\ "recv" \in Where(o)
          /\ \A who \in Owners : who \in Where(o)' <=> who \in Where(o) /\ who # "recv"
      BY <2>3, <2>4
    <3> QED
      BY <2>2, <2>4, <3>1, Going DEF Handed
  <2>5. CASE o # recv.seg
    <3>1. \A who \in Owners : who \in Where(o)' <=> who \in Where(o)
      BY <2>3, <2>5
    <3> QED
      BY <2>1, <2>2, <2>3, <2>5, <3>1, Staying DEF Handed
  <2> QED
    BY <2>4, <2>5
<1> QED
  BY <1>1, <1>2, <1>3, <1>4

\* The accumulator thread: from the queue, into an accumulator and out of it, swept.
LEMMA AccumulatorHands ==
    ASSUME OwnInv, NEW o \in Objects, Settled(o),
           AccGet \/ AccAccumulate \/ (AccSweep /\ acc' # "crashed")
    PROVE  Handed(o)
<1>0. /\ TypeInv /\ TypeOK /\ queue \in Seq(Objects \cup {Null})
      /\ \A s, t \in Where(o) : s = t
      /\ \A m \in Messages : \A p \in Range(accum[m]) : p \in Arrived /\ MessageOf(p) = m
      /\ accum \in [Messages -> ObjectLists] /\ deleted \in [Objects -> Nat]
  BY OneAtMost
  DEF OwnInv, TokenInv, TypeInv, TypeOK, Held, HeldAccum, OfMessage
<1>1. CASE AccGet
  <2>1. /\ acc = "get" /\ queue # <<>> /\ item' = <<Head(queue)>> /\ queue' = Tail(queue)
        /\ UNCHANGED <<content, recv, deleted, accum, head, response, client, dispatched>>
    BY <1>1 DEF AccGet, recvVars, contextVars, clientVars, historyVars
  <2>2. IsInjective(queue) /\ ToSet(queue) = Range(queue)
        /\ ToSet(Tail(queue)) = Range(Tail(queue))
    BY DEF OwnInv, Once, ToSet, Range
  <2>3. /\ Head(queue) \in Range(queue) /\ Range(queue') = Range(queue) \ {Head(queue)}
        /\ Range(item') = {Head(queue)} /\ Range(item) = {}
    <3>1. item = <<>>
      BY <1>0, <2>1, ItemShape
    <3> QED
      BY <1>0, <2>1, <2>2, <3>1, TailDistinct, SingleRange, ShortDistinct
  <2>4. /\ \A who \in Owners \ {"queue", "item"} : who \in Where(o)' <=> who \in Where(o)
        /\ "queue" \in Where(o)' <=> "queue" \in Where(o) /\ o # Head(queue)
        /\ "item" \in Where(o)' <=> o = Head(queue)
        /\ "item" \notin Where(o)
        /\ o = Head(queue) => "queue" \in Where(o)
    BY <2>1, <2>3, OwnerFrame, WhereIs, WhereIsNext DEF Owners
  <2>5. CASE o = Head(queue)
    <3>1. /\ "queue" \in Where(o) /\ "item" \in Where(o)' /\ "item" \in Owners
          /\ "recv" \notin Where(o)
          /\ \A who \in Owners : who # "item" =>
                (who \in Where(o)' <=> who \in Where(o) /\ who # "queue")
      BY <1>0, <2>4, <2>5 DEF Owners
    <3> QED
      BY <2>1, <3>1, Moving DEF Handed
  <2>6. CASE o # Head(queue)
    <3>1. \A who \in Owners : who \in Where(o)' <=> who \in Where(o)
      BY <2>4, <2>6
    <3> QED
      BY <2>1, <3>1, Staying DEF Handed
  <2> QED
    BY <2>5, <2>6
<1>2. CASE AccAccumulate
  <2>1. PICK p \in Arrived, m \in Messages, list \in Seq(Objects) : Accumulated(p, m, list)
    BY <1>0, <1>2, AccumulateShape
  <2>2. UNCHANGED <<content, recv, queue, deleted, head, response, client, dispatched>>
    BY <1>2 DEF AccAccumulate, recvVars, contextVars, clientVars, historyVars
  <2>3. Range(item) = {p} /\ Range(list) = Range(accum[m]) \cup {p} /\ MessageOf(p) = m
    BY <2>1, SingleRange DEF Accumulated
  <2>4. \A who \in Owners \ {"accum", "item"} : who \in Where(o)' <=> who \in Where(o)
    BY <2>2, OwnerFrame DEF Owners
  <2>5. /\ "item" \in Where(o) <=> o = p
        /\ "accum" \in Where(o) <=> \E n \in Messages : o \in Range(accum[n])
        /\ o \in Range(accum[m]) => "accum" \in Where(o)
    BY <2>3, WhereIs
  <2>6. CASE item' = list /\ \A n \in Messages : accum'[n] = IF n = m THEN <<>> ELSE accum[n]
    <3>1. /\ "item" \in Where(o)' <=> o = p \/ o \in Range(accum[m])
          /\ "accum" \in Where(o)' <=> "accum" \in Where(o) /\ o \notin Range(accum[m])
      <4>1. "item" \in Where(o)' <=> o = p \/ o \in Range(accum[m])
        BY <2>3, <2>6, WhereIsNext
      <4>2. "accum" \in Where(o)' <=> \E n \in Messages : n # m /\ o \in Range(accum[n])
        BY <2>6, WhereIsNext, ShortDistinct
      <4>3. (\E n \in Messages : n # m /\ o \in Range(accum[n]))
                <=> "accum" \in Where(o) /\ o \notin Range(accum[m])
        BY <1>0, <2>5
      <4> QED
        BY <4>1, <4>2, <4>3
    <3>2. CASE o \in Range(accum[m])
      <4>1. /\ "accum" \in Where(o) /\ "item" \in Where(o)' /\ "item" \in Owners
            /\ "recv" \notin Where(o)
            /\ \A who \in Owners : who # "item" =>
                  (who \in Where(o)' <=> who \in Where(o) /\ who # "accum")
        BY <1>0, <2>4, <2>5, <3>1, <3>2 DEF Owners
      <4> QED
        BY <2>2, <4>1, Moving DEF Handed
    <3>3. CASE o \notin Range(accum[m])
      <4>1. \A who \in Owners : who \in Where(o)' <=> who \in Where(o)
        BY <2>4, <2>5, <3>1, <3>3
      <4> QED
        BY <2>2, <4>1, Staying DEF Handed
    <3> QED
      BY <3>2, <3>3
  <2>7. CASE item' = <<>> /\ \A n \in Messages : accum'[n] = IF n = m THEN list ELSE accum[n]
    <3>1. /\ "item" \notin Where(o)'
          /\ "accum" \in Where(o)' <=> "accum" \in Where(o) \/ o = p
      <4>1. "item" \notin Where(o)'
        BY <2>7, WhereIsNext, ShortDistinct
      <4>2. "accum" \in Where(o)' <=> \E n \in Messages : o \in Range(accum'[n])
        BY WhereIsNext
      <4>3. \A n \in Messages : o \in Range(accum'[n]) <=> o \in Range(accum[n]) \/ (n = m /\ o = p)
        BY <2>3, <2>7
      <4> QED
        BY <2>1, <2>5, <4>1, <4>2, <4>3
    <3>2. CASE o = p
      <4>1. /\ "item" \in Where(o) /\ "accum" \in Where(o)' /\ "accum" \in Owners
            /\ "recv" \notin Where(o)
            /\ \A who \in Owners : who # "accum" =>
                  (who \in Where(o)' <=> who \in Where(o) /\ who # "item")
        BY <1>0, <2>4, <2>5, <3>1, <3>2 DEF Owners
      <4> QED
        BY <2>2, <4>1, Moving DEF Handed
    <3>3. CASE o # p
      <4>1. \A who \in Owners : who \in Where(o)' <=> who \in Where(o)
        BY <2>4, <2>5, <3>1, <3>3
      <4> QED
        BY <2>2, <4>1, Staying DEF Handed
    <3> QED
      BY <3>2, <3>3
  <2> QED
    BY <2>1, <2>6, <2>7 DEF Accumulated
<1>3. CASE AccSweep /\ acc' # "crashed"
  <2>1. PICK gone \in SUBSET Partial :
          /\ accum' = [m \in Messages |-> IF m \in gone THEN <<>> ELSE accum[m]]
          /\ deleted' = [q \in Objects |->
                 deleted[q] + IF \/ q \in Range(item)
                                 \/ \E m \in gone : q \in Range(accum[m])
                              THEN 1 ELSE 0]
    BY <1>3 DEF AccSweep
  <2>2. /\ item' = <<>> /\ gone \subseteq Messages
        /\ UNCHANGED <<content, recv, queue, head, response, client, dispatched>>
    BY <1>3 DEF AccSweep, recvVars, contextVars, clientVars, historyVars, Partial
  <2>3. \A who \in Owners \ {"accum", "item"} : who \in Where(o)' <=> who \in Where(o)
    BY <2>2, OwnerFrame DEF Owners
  <2>4. /\ "item" \notin Where(o)' /\ ("item" \in Where(o) <=> o \in Range(item))
        /\ "accum" \in Where(o) <=> \E n \in Messages : o \in Range(accum[n])
    BY <2>2, WhereIs, WhereIsNext, ShortDistinct
  <2>5. "accum" \in Where(o)' <=> \E n \in Messages : n \notin gone /\ o \in Range(accum[n])
    BY <2>1, WhereIsNext, ShortDistinct
  <2>6. deleted'[o] = IF o \in Range(item) \/ \E m \in gone : o \in Range(accum[m])
                      THEN deleted[o] + 1 ELSE deleted[o]
    BY <1>0, <2>1
  <2>7. CASE o \in Range(item)
    <3>1. /\ "item" \in Where(o) /\ "accum" \notin Where(o) /\ "accum" \notin Where(o)'
          /\ deleted'[o] = deleted[o] + 1
      BY <1>0, <2>4, <2>5, <2>6, <2>7
    <3>2. \A who \in Owners : who \in Where(o)' <=> who \in Where(o) /\ who # "item"
      BY <2>3, <2>4, <3>1
    <3> QED
      BY <3>1, <3>2, Going DEF Handed
  <2>8. CASE \E m \in gone : o \in Range(accum[m])
    <3>1. "accum" \in Where(o) /\ "item" \notin Where(o) /\ deleted'[o] = deleted[o] + 1
      BY <1>0, <2>2, <2>4, <2>6, <2>8
    <3>2. "accum" \notin Where(o)'
      BY <1>0, <2>2, <2>5, <2>8
    <3>3. \A who \in Owners : who \in Where(o)' <=> who \in Where(o) /\ who # "accum"
      BY <2>3, <2>4, <3>1, <3>2
    <3> QED
      BY <3>1, <3>3, Going DEF Handed
  <2>9. CASE o \notin Range(item) /\ ~ \E m \in gone : o \in Range(accum[m])
    <3>1. \A who \in Owners : who \in Where(o)' <=> who \in Where(o)
      BY <2>3, <2>4, <2>5, <2>9
    <3> QED
      BY <2>2, <2>6, <2>9, <3>1, Staying DEF Handed
  <2> QED
    BY <2>7, <2>8, <2>9
<1> QED
  BY <1>1, <1>2, <1>3

\* A context's messages are deleted with it, by whoever removes it.
LEMMA RemovalHands ==
    ASSUME OwnInv, NEW o \in Objects, Settled(o), NEW c \in Contexts, RemoveContext(c),
           content' = content, recv' = recv,
           "response" \in Where(o)' <=> "response" \in Where(o),
           UNCHANGED <<queue, accum, item, dispatched>>
    PROVE  Handed(o)
<1>0. /\ TypeOK /\ \A s, t \in Where(o) : s = t
      /\ \A d \in Contexts : OfContext(head[d], d)
  BY OneAtMost DEF OwnInv, TokenInv, TypeInv, Held, HeldHead
<1>1. /\ \A d \in Contexts : head'[d] = IF d = c THEN <<>> ELSE head[d]
      /\ deleted'[o] = IF o \in Range(head[c]) THEN deleted[o] + 1 ELSE deleted[o]
  BY <1>0, RemoveShape
<1>2. \A who \in Owners \ {"head"} : who \in Where(o)' <=> who \in Where(o)
  BY OwnerFrame DEF Owners
<1>3. /\ "head" \in Where(o) <=> \E d \in Contexts : o \in Range(head[d])
      /\ "head" \in Where(o)' <=> \E d \in Contexts : d # c /\ o \in Range(head[d])
  BY <1>1, WhereIs, WhereIsNext, ShortDistinct
<1>4. CASE o \in Range(head[c])
  <2>1. "head" \in Where(o) /\ "head" \notin Where(o)'
    BY <1>0, <1>3, <1>4 DEF OfContext
  <2>2. \A who \in Owners : who \in Where(o)' <=> who \in Where(o) /\ who # "head"
    BY <1>2, <2>1
  <2> QED
    BY <1>1, <1>4, <2>1, <2>2, Going DEF Handed
<1>5. CASE o \notin Range(head[c])
  <2>1. \A who \in Owners : who \in Where(o)' <=> who \in Where(o)
    BY <1>2, <1>3, <1>5
  <2> QED
    BY <1>1, <1>5, <2>1, Staying DEF Handed
<1> QED
  BY <1>4, <1>5

\* The accumulator thread puts a message: into the context, instead of the one that is
\* there, to the dispatcher, or nowhere.
LEMMA DeliveryHands ==
    ASSUME OwnInv, NEW o \in Objects, Settled(o), AccStore \/ AccDispatch \/ AccRemove
    PROVE  Handed(o)
<1>0. /\ TypeInv /\ TypeOK /\ HeldItem /\ Phases
      /\ \A s, t \in Where(o) : s = t
      /\ \A d \in Contexts : OfContext(head[d], d)
      /\ head \in [Contexts -> ObjectLists]
  BY OneAtMost DEF OwnInv, TokenInv, TypeInv, TypeOK, Held, HeldHead
<1>1. CASE AccStore
  <2>1. Target \in Contexts
    BY <1>0, <1>1, TargetShape DEF AccStore
  <2>2. /\ \A d \in Contexts : head'[d] = IF d = Target THEN item ELSE head[d]
        /\ deleted'[o] = IF o \in Range(head[Target]) THEN deleted[o] + 1 ELSE deleted[o]
        /\ item' = <<>>
        /\ UNCHANGED <<content, recv, queue, accum, response, client, dispatched>>
    BY <1>0, <1>1, <2>1, DeletingShape DEF AccStore, recvVars, clientVars
  <2>3. \A who \in Owners \ {"item", "head"} : who \in Where(o)' <=> who \in Where(o)
    BY <2>2, OwnerFrame DEF Owners
  <2>4. /\ "item" \in Where(o) <=> o \in Range(item)
        /\ "item" \notin Where(o)'
        /\ "head" \in Where(o) <=> \E d \in Contexts : o \in Range(head[d])
        /\ "head" \in Where(o)' <=> \E d \in Contexts : o \in Range(head'[d])
    BY <2>2, WhereIs, WhereIsNext, ShortDistinct
  <2>5. \A d \in Contexts : o \in Range(head'[d]) <=> IF d = Target THEN o \in Range(item)
                                                        ELSE o \in Range(head[d])
    BY <2>2
  <2>6. CASE o \in Range(item)
    <3>1. /\ "item" \in Where(o) /\ "head" \in Where(o)' /\ "head" \in Owners
          /\ "head" \notin Where(o) /\ "recv" \notin Where(o)
      BY <1>0, <2>1, <2>4, <2>5, <2>6 DEF Owners
    <3>2. deleted'[o] = deleted[o]
      BY <2>1, <2>2, <2>4, <3>1
    <3>3. \A who \in Owners : who # "head" =>
             (who \in Where(o)' <=> who \in Where(o) /\ who # "item")
      BY <2>3, <2>4, <3>1
    <3> QED
      BY <3>1, <3>2, <3>3, Moving DEF Handed
  <2>7. CASE o \in Range(head[Target])
    <3>1. "head" \in Where(o) /\ "item" \notin Where(o)
      BY <1>0, <2>1, <2>4, <2>7
    <3>2. "head" \notin Where(o)'
      <4>1. \A d \in Contexts : d # Target => o \notin Range(head[d])
        BY <1>0, <2>1, <2>7 DEF OfContext
      <4> QED
        BY <2>4, <2>5, <3>1, <4>1
    <3>3. \A who \in Owners : who \in Where(o)' <=> who \in Where(o) /\ who # "head"
      BY <2>3, <2>4, <3>1, <3>2
    <3> QED
      BY <2>2, <2>7, <3>1, <3>3, Going DEF Handed
  <2>8. CASE o \notin Range(item) /\ o \notin Range(head[Target])
    <3>1. \A who \in Owners : who \in Where(o)' <=> who \in Where(o)
      BY <2>1, <2>3, <2>4, <2>5, <2>8
    <3> QED
      BY <2>2, <2>8, <3>1, Staying DEF Handed
  <2> QED
    BY <2>6, <2>7, <2>8
<1>2. CASE AccDispatch
  <2>1. /\ item' = <<>>
        /\ UNCHANGED <<content, recv, queue, accum, head, response, client>>
    BY <1>2 DEF AccDispatch, recvVars, contextVars, clientVars
  <2>2. \A who \in Owners \ {"item", "dispatched"} : who \in Where(o)' <=> who \in Where(o)
    BY <2>1, OwnerFrame DEF Owners
  <2>3. /\ "item" \in Where(o) <=> o \in Range(item)
        /\ "item" \notin Where(o)'
        /\ "dispatched" \in Where(o) <=> o \in dispatched
        /\ "dispatched" \in Where(o)' <=> o \in dispatched'
    BY <2>1, WhereIs, WhereIsNext, ShortDistinct
  <2>4. CASE dispatched' = dispatched \cup Range(item) /\ deleted' = deleted
    <3>1. CASE o \in Range(item)
      <4>1. /\ "item" \in Where(o) /\ "dispatched" \in Where(o)' /\ "dispatched" \in Owners
            /\ "recv" \notin Where(o)
            /\ \A who \in Owners : who # "dispatched" =>
                  (who \in Where(o)' <=> who \in Where(o) /\ who # "item")
        BY <1>0, <2>2, <2>3, <2>4, <3>1 DEF Owners
      <4> QED
        BY <2>4, <4>1, Moving DEF Handed
    <3>2. CASE o \notin Range(item)
      <4>1. \A who \in Owners : who \in Where(o)' <=> who \in Where(o)
        BY <2>2, <2>3, <2>4, <3>2
      <4> QED
        BY <2>1, <2>4, <4>1, Staying DEF Handed
    <3> QED
      BY <3>1, <3>2
  <2>5. CASE deleted' = Deleting(item) /\ dispatched' = dispatched
    <3>1. deleted'[o] = IF o \in Range(item) THEN deleted[o] + 1 ELSE deleted[o]
      BY <1>0, <2>5, DeletingShape
    <3>2. CASE o \in Range(item)
      <4>1. /\ "item" \in Where(o)
            /\ \A who \in Owners : who \in Where(o)' <=> who \in Where(o) /\ who # "item"
        BY <1>0, <2>2, <2>3, <2>5, <3>2
      <4> QED
        BY <3>1, <3>2, <4>1, Going DEF Handed
    <3>3. CASE o \notin Range(item)
      <4>1. \A who \in Owners : who \in Where(o)' <=> who \in Where(o)
        BY <2>2, <2>3, <2>5, <3>3
      <4> QED
        BY <2>1, <3>1, <3>3, <4>1, Staying DEF Handed
    <3> QED
      BY <3>2, <3>3
  <2> QED
    BY <1>2, <2>4, <2>5 DEF AccDispatch
<1>3. CASE AccRemove
  <2>1. msgId \in Contexts /\ RemoveContext(msgId)
    BY <1>0, <1>3, ContextProperties DEF AccRemove, Phases
  <2>2. UNCHANGED <<content, recv, queue, accum, item, dispatched, response, client>>
    BY <1>3 DEF AccRemove, recvVars, clientVars, historyVars
  <2>3. "response" \in Where(o)' <=> "response" \in Where(o)
    BY <2>2, OwnerFrame
  <2> QED
    BY <2>1, <2>2, <2>3, RemovalHands
<1> QED
  BY <1>1, <1>2, <1>3

\* A client: what it read becomes its response when it has cleared the context, which
\* loses the message at the same time if it was the only one that came.
LEMMA ClientHands ==
    ASSUME OwnInv, NEW o \in Objects, Settled(o), ~ Exempt(o), NEW w \in Clients,
           GetResponse(w) \/ MessageGetTimeout(w) \/ Respond(w)
    PROVE  Handed(o)
<1>0. /\ TypeOK /\ Request[w] \in Contexts /\ Readers(w)
      /\ \A s, t \in Where(o) : s = t
      /\ \A d \in Contexts : OfContext(head[d], d)
      /\ \A v \in Clients : OfContext(response[v], Request[v])
      /\ \A v \in Clients : v # w => Request[v] # Request[w]
      /\ head \in [Contexts -> ObjectLists] /\ response \in [Clients -> ObjectLists]
      /\ client \in [Clients -> {"idle", "take", "timedOut", "read", "clear", "remove", "done"}]
      /\ Request[w] \in Range(Request) /\ puts[Request[w]] \in Nat
  BY OneAtMost, ContextProperties, IpcAccumAssumption
  DEF OwnInv, TokenInv, TypeInv, TypeOK, Held, HeldHead, HeldResponse, Range
<1>1. /\ "response" \in Where(o) <=>
            \E v \in Clients : o \in Range(response[v]) /\ client[v] # "clear"
      /\ "response" \in Where(o)' <=>
            \E v \in Clients : o \in Range(response'[v]) /\ client'[v] # "clear"
  BY WhereIs, WhereIsNext
<1>2. CASE GetResponse(w) \/ MessageGetTimeout(w) \/ MessageGetTake(w)
  <2>1. /\ \A v \in Clients : client'[v] = "clear" <=> client[v] = "clear"
        /\ UNCHANGED <<content, recv, queue, accum, head, item, dispatched, response, deleted>>
    BY <1>0, <1>2
    DEF GetResponse, MessageGetTimeout, MessageGetTake, recvVars, accVars, contextVars,
        historyVars
  <2>2. "response" \in Where(o)' <=> "response" \in Where(o)
    BY <1>1, <2>1
  <2>3. \A who \in Owners : who \in Where(o)' <=> who \in Where(o)
    BY <2>1, <2>2, OwnerFrame DEF Owners
  <2> QED
    BY <2>1, <2>3, Staying DEF Handed
<1>3. CASE MessageGetRead(w)
  <2>1. /\ client[w] = "read" /\ response[w] = <<>>
        /\ \A v \in Clients : client'[v] = IF v = w THEN "clear" ELSE client[v]
        /\ \A v \in Clients : v # w => response'[v] = response[v]
        /\ UNCHANGED <<content, recv, queue, accum, head, item, dispatched, deleted>>
    BY <1>0, <1>3 DEF MessageGetRead, recvVars, accVars, contextVars, historyVars, Readers
  <2>2. "response" \in Where(o)' <=> "response" \in Where(o)
    BY <1>1, <2>1, ShortDistinct
  <2>3. \A who \in Owners : who \in Where(o)' <=> who \in Where(o)
    BY <2>1, <2>2, OwnerFrame DEF Owners
  <2> QED
    BY <2>1, <2>3, Staying DEF Handed
<1>4. CASE MessageGetClear(w)
  <2>1. /\ client[w] = "clear"
        /\ \A v \in Clients : client'[v] = IF v = w THEN "remove" ELSE client[v]
        /\ \A d \in Contexts : head'[d] = IF d = Request[w] THEN <<>> ELSE head[d]
        /\ UNCHANGED <<content, recv, queue, accum, item, dispatched, response, deleted>>
    BY <1>0, <1>4 DEF MessageGetClear, recvVars, accVars, historyVars
  <2>2. \A who \in Owners \ {"head", "response"} : who \in Where(o)' <=> who \in Where(o)
    BY <2>1, OwnerFrame DEF Owners
  <2>3. /\ "head" \in Where(o) <=> \E d \in Contexts : o \in Range(head[d])
        /\ "head" \in Where(o)' <=> \E d \in Contexts : d # Request[w] /\ o \in Range(head[d])
    BY <2>1, WhereIs, WhereIsNext, ShortDistinct
  <2>4. "response" \in Where(o)' <=> "response" \in Where(o) \/ o \in Range(response[w])
    BY <1>1, <2>1
  <2>5. CASE o \in Range(head[Request[w]]) \/ o \in Range(response[w])
    <3>1. o \in Arrived /\ Context[MessageOf(o)] = Request[w]
      BY <1>0, <2>5 DEF OfContext
    <3>2. head[Request[w]] = response[w]
      <4>1. puts[Request[w]] <= 1
        BY <1>0, <3>1 DEF Exempt
      <4> QED
        BY <1>0, <2>1, <4>1 DEF Readers
    <3>3. "head" \in Where(o) /\ "response" \in Where(o)' /\ "head" \notin Where(o)'
      BY <1>0, <2>3, <2>4, <2>5, <3>1, <3>2 DEF OfContext
    <3>4. "response" \in Owners /\ "recv" \notin Where(o) /\ "response" \notin Where(o)
      BY <1>0, <3>3 DEF Owners
    <3>5. \A who \in Owners : who # "response" =>
             (who \in Where(o)' <=> who \in Where(o) /\ who # "head")
      BY <2>2, <3>3
    <3> QED
      BY <2>1, <3>3, <3>4, <3>5, Moving DEF Handed
  <2>6. CASE o \notin Range(head[Request[w]]) /\ o \notin Range(response[w])
    <3>1. \A who \in Owners : who \in Where(o)' <=> who \in Where(o)
      BY <2>2, <2>3, <2>4, <2>6
    <3> QED
      BY <2>1, <3>1, Staying DEF Handed
  <2> QED
    BY <2>5, <2>6
<1>5. CASE GetResponseRemove(w)
  <2>1. /\ RemoveContext(Request[w])
        /\ \A v \in Clients : client'[v] = "clear" <=> client[v] = "clear"
        /\ UNCHANGED <<content, recv, queue, accum, item, dispatched, response>>
    BY <1>0, <1>5 DEF GetResponseRemove, recvVars, accVars, historyVars
  <2>2. "response" \in Where(o)' <=> "response" \in Where(o)
    BY <1>1, <2>1
  <2> QED
    BY <1>0, <2>1, <2>2, RemovalHands
<1> QED
  BY <1>2, <1>3, <1>4, <1>5 DEF Respond

\* The destructor deletes what the queue and the maps hold, each object once.
LEMMA DestructorHands ==
    ASSUME OwnInv, NEW o \in Objects, Settled(o), DtorExitReq \/ DtorRelease \/ DtorEnd
    PROVE  Handed(o)
<1>0. /\ TypeInv /\ TypeOK /\ queue \in Seq(Objects \cup {Null}) /\ o # Null
      /\ \A s, t \in Where(o) : s = t
      /\ deleted[o] \in Nat
  BY OneAtMost, IpcAccumAssumption DEF OwnInv, TokenInv, TypeInv, TypeOK
<1>1. CASE DtorExitReq
  <2>1. UNCHANGED <<content, recv, queue, accum, head, item, dispatched, response, client,
                    deleted>>
    BY <1>1 DEF DtorExitReq, recvVars, accVars, contextVars, clientVars, historyVars
  <2>2. \A who \in Owners : who \in Where(o)' <=> who \in Where(o)
    BY <2>1, OwnerFrame DEF Owners
  <2> QED
    BY <2>1, <2>2, Staying DEF Handed
<1>2. CASE DtorRelease
  <2>1. /\ queue' \in {queue, Append(queue, Null)}
        /\ UNCHANGED <<content, recv, accum, head, item, dispatched, response, client, deleted>>
    BY <1>2 DEF DtorRelease, recvVars, accVars, contextVars, clientVars, historyVars
  <2>2. Range(queue') \subseteq Range(queue) \cup {Null} /\ Range(queue) \subseteq Range(queue')
    <3>1. Range(Append(queue, Null)) = Range(queue) \cup {Null}
      BY <1>0, QueueShape
    <3> QED
      BY <2>1, <3>1
  <2>3. "queue" \in Where(o)' <=> "queue" \in Where(o)
    BY <1>0, <2>2, WhereIs, WhereIsNext
  <2>4. \A who \in Owners : who \in Where(o)' <=> who \in Where(o)
    BY <2>1, <2>3, OwnerFrame DEF Owners
  <2> QED
    BY <2>1, <2>4, Staying DEF Handed
<1>3. CASE DtorEnd
  <2>1. /\ queue' = <<>> /\ \A m \in Messages : accum'[m] = <<>>
        /\ \A c \in Contexts : head'[c] = <<>>
        /\ UNCHANGED <<content, recv, item, dispatched, response, client>>
    BY <1>3 DEF DtorEnd, recvVars, clientVars, historyVars
  <2>2. /\ \A who \in Owners \ {"queue", "accum", "head"} : who \in Where(o)' <=> who \in Where(o)
        /\ "queue" \notin Where(o)' /\ "accum" \notin Where(o)' /\ "head" \notin Where(o)'
    BY <2>1, OwnerFrame, WhereIsNext, ShortDistinct DEF Owners
  <2>3. deleted'[o] = IF \/ o \in Range(queue)
                         \/ \E m \in Messages : o \in Range(accum[m])
                         \/ \E c \in Contexts : o \in Range(head[c])
                      THEN deleted[o] + 1 ELSE deleted[o]
    BY <1>0, <1>3 DEF DtorEnd
  <2>4. deleted'[o] = IF \E s \in {"queue", "accum", "head"} : s \in Where(o)
                      THEN deleted[o] + 1 ELSE deleted[o]
    BY <2>3, WhereIs
  <2>5. ASSUME NEW s \in {"queue", "accum", "head"}, s \in Where(o) PROVE Handed(o)
    <3>1. deleted'[o] = deleted[o] + 1
      BY <2>4, <2>5
    <3>2. \A who \in Owners : who \in Where(o)' <=> who \in Where(o) /\ who # s
      BY <1>0, <2>2, <2>5
    <3> QED
      BY <2>5, <3>1, <3>2, Going DEF Handed
  <2>6. CASE \A s \in {"queue", "accum", "head"} : s \notin Where(o)
    <3>1. \A who \in Owners : who \in Where(o)' <=> who \in Where(o)
      BY <2>2, <2>6
    <3> QED
      BY <2>1, <2>4, <2>6, <3>1, Staying DEF Handed
  <2> QED
    BY <2>5, <2>6
<1> QED
  BY <1>1, <1>2, <1>3

-----------------------------------------------------------------------------
\* What is exempt stays so: contexts do not count backwards.
LEMMA ExemptKept ==
    ASSUME OwnInv, [Next]_vars, NEW o \in Objects, Exempt(o) PROVE Exempt(o)'
<1>1. Kept
  BY KeptStep DEF OwnInv, TokenInv, TypeInv
<1>2. o \in Arrived' /\ MessageOf(o)' = MessageOf(o)
  BY <1>1 DEF Exempt, Kept, MessageOf
<1>3. PICK w \in Clients : Context[MessageOf(o)] = Request[w]
  BY IpcAccumAssumption DEF Exempt, Range
<1>4. puts'[Request[w]] \in Nat /\ puts'[Request[w]] >= puts[Request[w]]
  BY ReadersStep DEF OwnInv
<1>5. puts[Request[w]] > 1 /\ puts[Request[w]] \in Nat
  BY <1>3, ContextProperties DEF Exempt, OwnInv, TokenInv, TypeInv, TypeOK
<1>6. puts'[Request[w]] > 1
  BY <1>4, <1>5
<1> QED
  BY <1>2, <1>3, <1>6 DEF Exempt

\* The process that died does nothing more, and every other object stays settled.
LEMMA SettledStep ==
    ASSUME OwnInv, [Next]_vars, acc' # "crashed", NEW o \in Objects, Settled(o), ~ Exempt(o)
    PROVE  Settled(o)'
<1>1. TypeInv /\ Kept
  BY KeptStep DEF OwnInv, TokenInv, TypeInv
<1>a. (o \in refused' <=> o \in refused) \/ (SubmitRefused /\ o = recv.seg)
  BY DEF Next, Accumulate, Respond, vars, historyVars, Receive, Submit, SubmitRefused,
         RecvDelete, AccPoll, AccGet, AccGetTimeout, AccAccumulate, AccSingle, AccSweep,
         AccStore, AccDispatch, AccRemove, GetResponse, MessageGetTimeout, MessageGetTake,
         MessageGetRead, MessageGetClear, GetResponseRemove, DtorExitReq, DtorRelease,
         DtorEnd
<1>b. (o \in refused' <=> o \in refused) \/ IsRefused(o)
  BY <1>a, RefusalHands
<1>2. CASE AccPoll \/ AccGetTimeout \/ AccSingle
  <2>1. /\ UNCHANGED <<content, recv, queue, accum, head, item, dispatched, response, client>>
        /\ deleted' = deleted
    BY <1>2 DEF AccPoll, AccGetTimeout, AccSingle, recvVars, contextVars, clientVars, historyVars
  <2>2. \A who \in Owners : who \in Where(o)' <=> who \in Where(o)
    BY <2>1, OwnerFrame DEF Owners
  <2>3. Stays(o)
    BY <2>1, <2>2, Staying
  <2> QED
    BY <1>1, <1>b, <2>3, SettledKept
<1>3. CASE UNCHANGED vars
  <2>1. /\ UNCHANGED <<content, recv, queue, accum, head, item, dispatched, response, client>>
        /\ deleted' = deleted
    BY <1>3 DEF vars, recvVars, accVars, contextVars, clientVars, historyVars
  <2>2. \A who \in Owners : who \in Where(o)' <=> who \in Where(o)
    BY <2>1, OwnerFrame DEF Owners
  <2>3. Stays(o)
    BY <2>1, <2>2, Staying
  <2> QED
    BY <1>1, <1>b, <2>3, SettledKept
<1>4. CASE Handed(o)
  BY <1>1, <1>4, <1>b, SettledKept DEF Handed
<1>5. CASE (\E s \in Segments : Receive(s)) \/ Submit \/ SubmitRefused \/ RecvDelete
  BY <1>4, <1>5, ReceiverHands
<1>6. CASE AccGet \/ AccAccumulate \/ AccSweep
  BY <1>4, <1>6, AccumulatorHands
<1>7. CASE AccStore \/ AccDispatch \/ AccRemove
  BY <1>4, <1>7, DeliveryHands
<1>8. ASSUME NEW w \in Clients, GetResponse(w) \/ MessageGetTimeout(w) \/ Respond(w)
      PROVE  Settled(o)'
  BY <1>4, <1>8, ClientHands
<1>9. CASE DtorExitReq \/ DtorRelease \/ DtorEnd
  BY <1>4, <1>9, DestructorHands
<1> QED
  BY <1>2, <1>3, <1>5, <1>6, <1>7, <1>8, <1>9 DEF Next, Accumulate

\* Nothing comes after the crash.
LEMMA CrashedStep ==
    ASSUME [Next]_vars, acc = "crashed" PROVE acc' = "crashed"
BY DEF Next, Accumulate, Respond, vars, accVars, Receive, Submit, SubmitRefused,
       RecvDelete, AccPoll, AccGet, AccGetTimeout, AccAccumulate, AccSingle, AccSweep,
       AccStore, AccDispatch, AccRemove, GetResponse, MessageGetTimeout, MessageGetTake,
       MessageGetRead, MessageGetClear, GetResponseRemove, DtorExitReq, DtorRelease,
       DtorEnd

\* Every step keeps the invariant.
LEMMA OwnStepKeeps ==
    ASSUME OwnInv, [Next]_vars PROVE OwnInv'
<1>1. TokenInv' /\ Once'
  BY TokenStep, OnceStep DEF OwnInv, TokenInv
<1>2. \A w \in Clients : Readers(w)'
  BY ReadersStep DEF OwnInv
<1>3. ASSUME acc' # "crashed", NEW o \in Objects PROVE Exempt(o)' \/ Settled(o)'
  <2>1. Exempt(o) \/ Settled(o)
    BY <1>3, CrashedStep DEF OwnInv
  <2> QED
    BY <1>3, <2>1, ExemptKept, SettledStep
<1> QED
  BY <1>1, <1>2, <1>3 DEF OwnInv

\* The first states satisfy it: nothing has arrived.
LEMMA OwnInit ==
    ASSUME Init PROVE OwnInv
<1>1. TokenInv /\ Once
  BY TokenInit, ShortDistinct DEF Init, Once
<1>2. \A w \in Clients : Request[w] \in Contexts
  BY ContextProperties
<1>3. \A w \in Clients : Readers(w)
  BY <1>2 DEF Init, Readers
<1>4. ASSUME NEW o \in Objects PROVE Settled(o)
  <2>1. o \notin Arrived /\ deleted[o] = 0 /\ o # Null /\ o \notin refused
    BY IpcAccumAssumption DEF Init, Arrived
  <2>2. \A who \in Owners : who \notin Where(o)
    BY <2>1, WhereIs, ShortDistinct DEF Init, Owners
  <2>3. Where(o) = {}
    BY <2>2, WhereIs
  <2> QED
    BY <2>1, <2>3 DEF Settled
<1> QED
  BY <1>1, <1>3, <1>4 DEF OwnInv

\* One owner, one place: an object is in a queue, a list or a response once.
LEMMA PlacesOfOwner ==
    ASSUME TypeInv, Once, NEW o \in Objects
    PROVE  /\ Where(o) = {} => Places(o) = {}
           /\ \A who \in Owners : Where(o) = {who} => \E p : Places(o) = {p}
           /\ Where(o) = {"recv"} => Places(o) = {<<"recv", 0>>}
<1> DEFINE inQueue == {j \in DOMAIN queue : queue[j] = o}
           inAccum == {n \in Messages : o \in Range(accum[n])}
           inHead == {d \in Contexts : o \in Range(head[d])}
           inResponse == {v \in Clients : o \in Range(response[v]) /\ client[v] # "clear"}
           P1 == {<<"queue", i>> : i \in inQueue}
           P2 == {<<"accum", m>> : m \in inAccum}
           P3 == {<<"head", c>> : c \in inHead}
           P4 == {<<"response", w>> : w \in inResponse}
           P5 == {<<"recv", 0>> : x \in {recv.seg} \cap {o}}
           P6 == {<<"item", 0>> : x \in Range(item) \cap {o}}
           P7 == {<<"dispatched", 0>> : x \in dispatched \cap {o}}
<1>1. Places(o) = P1 \cup P2 \cup P3 \cup P4 \cup P5 \cup P6 \cup P7
  BY DEF Places
<1>2. \A i, j \in inQueue : i = j
  BY DEF Once, IsInjective
<1>3. \A m, n \in inAccum : m = n
  BY DEF TypeInv, Held, HeldAccum, OfMessage
<1>4. \A c, d \in inHead : c = d
  BY DEF TypeInv, Held, HeldHead, OfContext
<1>5. \A v, w \in inResponse : v = w
  BY IpcAccumAssumption DEF TypeInv, Held, HeldResponse, OfContext
<1>6. "queue" \notin Where(o) => P1 = {}
  BY WhereIs DEF Range
<1>7. "queue" \in Where(o) => \E p : P1 = {p}
  <2>1. SUFFICES ASSUME "queue" \in Where(o) PROVE \E p : P1 = {p}
    OBVIOUS
  <2>2. PICK i \in inQueue : TRUE
    BY <2>1, WhereIs DEF Range
  <2>3. P1 = {<<"queue", i>>}
    BY <1>2, <2>2
  <2> QED
    BY <2>3
<1>8. /\ "accum" \notin Where(o) => P2 = {}
      /\ "accum" \in Where(o) => \E p : P2 = {p}
  <2>1. "accum" \in Where(o) <=> inAccum # {}
    BY WhereIs
  <2>2. ASSUME NEW m \in inAccum PROVE P2 = {<<"accum", m>>}
    BY <1>3
  <2> QED
    BY <2>1, <2>2
<1>9. /\ "head" \notin Where(o) => P3 = {}
      /\ "head" \in Where(o) => \E p : P3 = {p}
  <2>1. "head" \in Where(o) <=> inHead # {}
    BY WhereIs
  <2>2. ASSUME NEW m \in inHead PROVE P3 = {<<"head", m>>}
    BY <1>4
  <2> QED
    BY <2>1, <2>2
<1>10. /\ "response" \notin Where(o) => P4 = {}
       /\ "response" \in Where(o) => \E p : P4 = {p}
  <2>1. "response" \in Where(o) <=> inResponse # {}
    BY WhereIs
  <2>2. ASSUME NEW m \in inResponse PROVE P4 = {<<"response", m>>}
    BY <1>5
  <2> QED
    BY <2>1, <2>2
<1>11. /\ "recv" \notin Where(o) => P5 = {}
       /\ "recv" \in Where(o) => P5 = {<<"recv", 0>>}
  <2>1. "recv" \in Where(o) <=> o = recv.seg
    BY WhereIs
  <2>2. CASE o = recv.seg
    <3>1. {recv.seg} \cap {o} = {o}
      BY <2>2
    <3> QED
      BY <2>1, <2>2, <3>1
  <2>3. CASE o # recv.seg
    <3>1. {recv.seg} \cap {o} = {}
      BY <2>3
    <3> QED
      BY <2>1, <2>3, <3>1
  <2> QED
    BY <2>2, <2>3
<1>12. /\ "item" \notin Where(o) => P6 = {}
       /\ "item" \in Where(o) => P6 = {<<"item", 0>>}
  BY WhereIs
<1>13. /\ "dispatched" \notin Where(o) => P7 = {}
       /\ "dispatched" \in Where(o) => P7 = {<<"dispatched", 0>>}
  BY WhereIs
<1> HIDE DEF P1, P2, P3, P4, P5, P6, P7
<1>14. Where(o) = {} => Places(o) = {}
  BY <1>1, <1>6, <1>8, <1>9, <1>10, <1>11, <1>12, <1>13
<1>15. ASSUME NEW who \in Owners, Where(o) = {who} PROVE \E p : Places(o) = {p}
  <2>1. CASE who = "queue"
    BY <1>1, <1>7, <1>8, <1>9, <1>10, <1>11, <1>12, <1>13, <1>15, <2>1
  <2>2. CASE who = "accum"
    BY <1>1, <1>6, <1>8, <1>9, <1>10, <1>11, <1>12, <1>13, <1>15, <2>2
  <2>3. CASE who = "head"
    BY <1>1, <1>6, <1>8, <1>9, <1>10, <1>11, <1>12, <1>13, <1>15, <2>3
  <2>4. CASE who = "response"
    BY <1>1, <1>6, <1>8, <1>9, <1>10, <1>11, <1>12, <1>13, <1>15, <2>4
  <2>5. CASE who \in {"recv", "item", "dispatched"}
    BY <1>1, <1>6, <1>8, <1>9, <1>10, <1>11, <1>12, <1>13, <1>15, <2>5
  <2> QED
    BY <2>1, <2>2, <2>3, <2>4, <2>5 DEF Owners
<1>16. Where(o) = {"recv"} => Places(o) = {<<"recv", 0>>}
  BY <1>1, <1>6, <1>8, <1>9, <1>10, <1>11, <1>12, <1>13
<1> QED
  BY <1>14, <1>15, <1>16

\* An object that has arrived has one owner and has not been deleted, or has none and
\* has been deleted once; one that the queue refused is deleted twice, the first time
\* while RecvThread still holds it.  Left out are contexts of clients for which a
\* second message came, and what follows when the sweep kills the process.
THEOREM ObjectsHaveOneOwner == Spec => []OneOwner
<1>1. OwnInv /\ [Next]_vars => OwnInv'
  BY OwnStepKeeps
<1>2. ASSUME OwnInv PROVE OneOwner
  <2>1. TypeOK /\ TypeInv /\ Once /\ Arrived \subseteq Objects
    BY <1>2, ArrivedProperties DEF OwnInv, TokenInv, TypeInv
  <2>2. ASSUME acc # "crashed", NEW o \in Arrived
        PROVE  \/ /\ Context[MessageOf(o)] \in Range(Request)
                  /\ puts[Context[MessageOf(o)]] > 1
               \/ Cardinality(Places(o)) = 1 /\ deleted[o] = 0
               \/ Places(o) = {} /\ deleted[o] = IF o \in refused THEN 2 ELSE 1
               \/ /\ recv.at = "refused" /\ recv.seg = o /\ o \in refused
                  /\ Places(o) = {<<"recv", 0>>} /\ deleted[o] = 1
    <3>1. o \in Objects /\ (Exempt(o) \/ Settled(o))
      BY <1>2, <2>1, <2>2 DEF OwnInv
    <3>2. CASE Exempt(o)
      BY <3>2 DEF Exempt
    <3>3. CASE (\E who \in Owners : Where(o) = {who}) /\ deleted[o] = 0
      <4>1. PICK p : Places(o) = {p}
        BY <2>1, <3>1, <3>3, PlacesOfOwner
      <4> QED
        BY <3>3, <4>1, FS_Singleton
    <3>4. CASE Where(o) = {} /\ deleted[o] = IF o \in refused THEN 2 ELSE 1
      BY <2>1, <3>1, <3>4, PlacesOfOwner
    <3>5. CASE /\ Where(o) = {"recv"} /\ recv.at = "refused"
               /\ deleted[o] = 1 /\ o \in refused
      <4>1. o = recv.seg
        BY <3>5, WhereIs
      <4> QED
        BY <2>1, <3>1, <3>5, <4>1, PlacesOfOwner
    <3> QED
      BY <2>2, <3>1, <3>2, <3>3, <3>4, <3>5 DEF Settled
  <2> QED
    BY <2>1, <2>2 DEF OneOwner
<1> QED
  BY <1>1, <1>2, OwnInit, PTL DEF Spec

=============================================================================
