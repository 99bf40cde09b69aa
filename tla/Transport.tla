------------------------------ MODULE Transport ------------------------------
(***************************************************************************)
(* One direction of an IPC transport: a thread inside Send at one end of a *)
(* device, a thread inside Recv at the other.  Over a stream ("tcp" and    *)
(* "pipe", which stands for Pipe, NamedPipe and Serial) the transport is   *)
(* IpcStrmTransport, which writes a header and then the segment; over      *)
(* messages ("queue", "udp") it is IpcTransport, one message per segment.  *)
(* Both go through the loops of IoDev::Send and IoDev::Recv, one iteration *)
(* of which is one step here: the other end, errors and time-outs strike   *)
(* between any two.                                                        *)
(*                                                                         *)
(* A unit <<n, i>> stands for some octets, the i-th of the frame of the    *)
(* n-th segment: units 1 and 2 are the stream header (its id, then opcode  *)
(* and length), the others the segment.  Frame 0 is the four octets of     *)
(* ReleaseThread.  A call without a time-out is one that never takes       *)
(* SendNotReady or RecvNotReady.                                           *)
(***************************************************************************)
EXTENDS Naturals, Sequences, SequencesExt

CONSTANTS
    Sizes,      \* the lengths of segments, in units
    SegData,    \* IpcSegment::seg_Data: a message shorter than this is no segment
    MaxSegs,    \* bound on the segments handed to Send
    Room,       \* what the wire holds: units of a stream, or messages
    Retries     \* m_Retries of both devices

VARIABLES
    dev,        \* [kind, wr, rd, released]: the device, its two ends open or
                \* closed, and whether ReleaseThread has been called
    wire,       \* a sequence of units, or of messages (sequences of units)
    segs,       \* segs[n]: the length of the n-th segment handed to Send
    snd,        \* the caller of Send: [op, left, tries]
    rcv,        \* the caller of Recv: [op, want, buf, tries]
    whole,      \* the segments whose Send returned true
    delivered,  \* the segments Recv returned true for
    cut         \* a frame has been left unfinished by a Send or a Recv
vars == <<dev, wire, segs, snd, rcv, whole, delivered, cut>>

\* A segment has its own header, of seg_Data octets, which are more than the four
\* of ReleaseThread.
TransportConstants ==
    /\ SegData \in Nat /\ SegData > 1
    /\ Sizes \subseteq {n \in Nat : n >= SegData}
    /\ {MaxSegs, Room, Retries} \subseteq Nat

HeaderLen == 2
Streams == {"tcp", "pipe"}
Kinds == Streams \cup {"queue", "udp"}
IsStream == dev.kind \in Streams

Idle == [op |-> "idle", left |-> <<>>, tries |-> 0]
NoRecv == [op |-> "idle", want |-> 0, buf |-> <<>>, tries |-> 0]

Header(n) == <<<<n, 1>>, <<n, 2>>>>
Payload(n) == [i \in 1..segs[n] |-> <<n, HeaderLen + i>>]

TransportInit ==
    /\ dev = [kind |-> "none", wr |-> FALSE, rd |-> FALSE, released |-> FALSE]
    /\ wire = <<>> /\ segs = <<>> /\ snd = Idle /\ rcv = NoRecv
    /\ whole = <<>> /\ delivered = <<>> /\ cut = FALSE

-----------------------------------------------------------------------------
(* The device.                                                             *)

\* The constructors: both descriptors valid.
Open(kind) ==
    /\ dev.kind = "none"
    /\ dev' = [dev EXCEPT !.kind = kind, !.wr = TRUE, !.rd = TRUE]
    /\ UNCHANGED <<wire, segs, snd, rcv, whole, delivered, cut>>

\* Complete of a pipe, or the destructor of the sender's device.
Complete ==
    /\ dev.kind # "none" /\ snd.op = "idle" /\ dev.wr
    /\ dev' = [dev EXCEPT !.wr = FALSE]
    /\ UNCHANGED <<wire, segs, snd, rcv, whole, delivered, cut>>

\* A datagram on its way may be lost, doubled or overtaken.
UdpLose(i) ==
    /\ dev.kind = "udp" /\ i \in DOMAIN wire
    /\ wire' = RemoveAt(wire, i)
    /\ UNCHANGED <<dev, segs, snd, rcv, whole, delivered, cut>>

UdpDouble(i) ==
    /\ dev.kind = "udp" /\ i \in DOMAIN wire
    /\ Len(wire) + Len(delivered) < MaxSegs + 1      \* a bound
    /\ wire' = Append(wire, wire[i])
    /\ UNCHANGED <<dev, segs, snd, rcv, whole, delivered, cut>>

-----------------------------------------------------------------------------
(* Sending.                                                                *)

SendSegment(len) ==
    /\ dev.kind # "none" /\ snd.op = "idle" /\ Len(segs) < MaxSegs
    /\ segs' = Append(segs, len)
    /\ LET n == Len(segs) + 1
       IN snd' = [op |-> IF IsStream THEN "header" ELSE "segment",
                  left |-> IF IsStream THEN Header(n)
                           ELSE [i \in 1..len |-> <<n, HeaderLen + i>>],
                  tries |-> Retries]
    /\ UNCHANGED <<dev, wire, rcv, whole, delivered, cut>>

\* What Send does next, once all it had to write is written: the header is
\* followed by the segment, the segment by the return of true.
Written ==
    IF snd.op = "header"
    THEN /\ snd' = [op |-> "segment", left |-> Payload(Len(segs)), tries |-> Retries]
         /\ UNCHANGED whole
    ELSE /\ snd' = Idle
         /\ whole' = Append(whole, Len(segs))

\* SendData of a stream takes k units, perhaps not all.
StreamSend(k) ==
    /\ IsStream /\ snd.op # "idle" /\ dev.wr
    /\ k \in 1..Len(snd.left) /\ Len(wire) + k <= Room
    /\ wire' = wire \o SubSeq(snd.left, 1, k)
    /\ IF k < Len(snd.left)
       THEN /\ snd' = [snd EXCEPT !.left = SubSeq(snd.left, k + 1, Len(snd.left))]
            /\ UNCHANGED whole
       ELSE Written
    /\ UNCHANGED <<dev, segs, rcv, delivered, cut>>

\* Queue::SendData and Udp::SendData: all of it, as one message.
MessageSend ==
    /\ ~IsStream /\ snd.op # "idle" /\ dev.wr /\ Len(wire) < Room
    /\ wire' = Append(wire, snd.left)
    /\ Written
    /\ UNCHANGED <<dev, segs, rcv, delivered, cut>>

\* Send returns false.  The segment is gone, and of a stream the peer may have
\* seen a part of the frame.
GiveUpSend ==
    /\ snd' = Idle
    /\ cut' = (cut \/ (IsStream /\ snd.left # Header(Len(segs))))

SendNotReady ==
    /\ snd.op # "idle" /\ dev.kind # "queue"
    /\ GiveUpSend
    /\ UNCHANGED <<dev, wire, segs, rcv, whole, delivered>>

\* SendData fails: a retry, if any is left.  Tcp has closed its socket by then.
SendFails ==
    /\ snd.op # "idle"
    /\ dev' = IF dev.kind = "tcp" THEN [dev EXCEPT !.wr = FALSE] ELSE dev
    /\ IF snd.tries > 0
       THEN snd' = [snd EXCEPT !.tries = @ - 1] /\ UNCHANGED cut
       ELSE GiveUpSend
    /\ UNCHANGED <<wire, segs, rcv, whole, delivered>>

\* ReleaseThread of an IpcNode writes four octets to its receive device: the
\* node's own queue, or the connection, where the peer reads them.
Release == IF IsStream THEN <<0, 1>> ELSE <<<<0, 1>>>>

ReleaseThread ==
    /\ dev.kind \in {"queue", "tcp"} /\ dev.wr /\ Len(wire) < Room
    /\ ~dev.released                 \* a bound
    /\ dev' = [dev EXCEPT !.released = TRUE]
    /\ wire' = Append(wire, Release)
    /\ cut' = (cut \/ IsStream)
    /\ UNCHANGED <<segs, snd, rcv, whole, delivered>>

-----------------------------------------------------------------------------
(* Receiving.                                                              *)

RecvSegment ==
    /\ dev.kind # "none" /\ rcv.op = "idle"
    /\ rcv' = IF IsStream
              THEN [op |-> "header", want |-> HeaderLen, buf |-> <<>>, tries |-> Retries]
              ELSE [NoRecv EXCEPT !.op = "segment", !.tries = Retries]
    /\ UNCHANGED <<dev, wire, segs, snd, whole, delivered, cut>>

\* Mutant: as without full read mode, which IpcStrmTransport has to set.
ReadDone_AnyData(buf, want) == buf # <<>>

\* IoDev::Recv of a device in full read mode goes on until it has got all.
ReadDone(buf, want) == Len(buf) = want

\* What a header says: [ipc, len], or nothing if its id is wrong.  Octets read as
\* a header out of step may look like any (bound: with a length from Sizes).
Foreign == [ipc |-> FALSE, len |-> 0]
DecodeHeader(buf) ==
    IF \E n \in DOMAIN segs : buf = Header(n)
    THEN {[ipc |-> TRUE, len |-> segs[buf[1][1]]]}
    ELSE [ipc : BOOLEAN, len : Sizes] \cup {Foreign}

\* Recv returns; it returned true if a segment has been delivered.
Return(segment) ==
    /\ rcv' = NoRecv
    /\ delivered' = IF Len(segment) >= SegData THEN Append(delivered, segment) ELSE delivered

Expect(op, len) ==
    /\ rcv' = [op |-> op, want |-> len, buf |-> <<>>, tries |-> Retries]
    /\ UNCHANGED delivered

\* IpcStrmTransport::Recv after one of its reads, which got buf.  The test after
\* the read of a message to be discarded is upside down: Recv goes on to read a
\* segment if the read came short, and returns if it did not.
AfterRead(buf) ==
    \/ /\ rcv.op = "header"
       /\ IF Len(buf) # HeaderLen
          THEN Return(<<>>)
          ELSE \E h \in DecodeHeader(buf) :
                  IF h = Foreign THEN Return(<<>>)
                  ELSE Expect(IF h.ipc THEN "segment" ELSE "discard", h.len)
    \/ /\ rcv.op = "discard"
       /\ IF Len(buf) # rcv.want THEN Expect("segment", rcv.want) ELSE Return(<<>>)
    \/ /\ rcv.op = "segment"
       /\ Return(buf)

StreamRecv(k) ==
    /\ IsStream /\ rcv.op # "idle" /\ dev.rd
    /\ k \in 1..(rcv.want - Len(rcv.buf)) /\ k <= Len(wire)
    /\ wire' = SubSeq(wire, k + 1, Len(wire))
    /\ LET buf == rcv.buf \o SubSeq(wire, 1, k)
       IN IF ReadDone(buf, rcv.want)
          THEN AfterRead(buf)
          ELSE rcv' = [rcv EXCEPT !.buf = buf] /\ UNCHANGED delivered
    /\ UNCHANGED <<dev, segs, snd, whole, cut>>

\* Queue::RecvData takes the oldest message; datagrams come in any order.
MessageRecv(i) ==
    /\ ~IsStream /\ rcv.op # "idle" /\ i \in DOMAIN wire
    /\ dev.kind = "queue" => i = 1
    /\ wire' = RemoveAt(wire, i)
    /\ Return(wire[i])
    /\ UNCHANGED <<dev, segs, snd, whole, cut>>

\* The loop of IoDev::Recv ends early.  What it got is not put back: a frame
\* begun is a frame lost.
GiveUpRecv ==
    /\ IF IsStream THEN AfterRead(rcv.buf) ELSE Return(<<>>)
    /\ cut' = (cut \/ (IsStream /\ (rcv.op # "header" \/ rcv.buf # <<>>)))

RecvNotReady ==
    /\ rcv.op # "idle" /\ dev.kind # "queue"
    /\ GiveUpRecv
    /\ UNCHANGED <<dev, wire, segs, snd, whole>>

RecvFails ==
    /\ rcv.op # "idle"
    /\ dev' = IF dev.kind = "tcp" THEN [dev EXCEPT !.rd = FALSE] ELSE dev
    /\ IF rcv.tries > 0
       THEN rcv' = [rcv EXCEPT !.tries = @ - 1] /\ UNCHANGED <<delivered, cut>>
       ELSE GiveUpRecv
    /\ UNCHANGED <<wire, segs, snd, whole>>

-----------------------------------------------------------------------------
TransportNext ==
    \/ \E kind \in Kinds : Open(kind)
    \/ Complete
    \/ \E i \in 1..Room : UdpLose(i)
    \/ \E i \in 1..Room : UdpDouble(i)
    \/ \E len \in Sizes : SendSegment(len)
    \/ \E k \in 1..Room : StreamSend(k)
    \/ MessageSend
    \/ SendNotReady
    \/ SendFails
    \/ ReleaseThread
    \/ RecvSegment
    \/ \E k \in 1..Room : StreamRecv(k)
    \/ \E i \in 1..Room : MessageRecv(i)
    \/ RecvNotReady
    \/ RecvFails

TransportSpec == TransportInit /\ [][TransportNext]_vars

-----------------------------------------------------------------------------
\* The octets of ReleaseThread are of no segment and may come anywhere.
Earlier(u, v) ==
    u[1] # 0 /\ v[1] # 0 => u[1] < v[1] \/ (u[1] = v[1] /\ u[2] < v[2])

\* What Recv delivers is what was sent: whole segments in the order of their
\* Sends, over a stream as long as no Send and no Recv has left a frame
\* unfinished, over a queue always; over datagrams each is a whole segment.  Once
\* out of step a stream may deliver anything, but no octet twice or out of order:
\* IpcStrmTransport does not compare the length it got with the header's and does
\* not look for the next header.
DeliveredIsSent ==
    LET sent == [i \in DOMAIN whole |-> Payload(whole[i])]
    IN /\ dev.kind = "queue" \/ (IsStream /\ ~cut) => IsPrefix(delivered, sent)
       /\ dev.kind = "udp" => \A i \in DOMAIN delivered : Contains(sent, delivered[i])
       /\ IsStream =>
             \A i, j \in DOMAIN delivered :
                \A p \in DOMAIN delivered[i], q \in DOMAIN delivered[j] :
                   i < j \/ (i = j /\ p < q) => Earlier(delivered[i][p], delivered[j][q])
=============================================================================
