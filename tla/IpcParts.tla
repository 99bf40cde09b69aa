------------------------------- MODULE IpcParts -------------------------------
(***************************************************************************)
(* Transport and IpcRouter side by side, with the names of their own that  *)
(* the module which composes all parts gives values, and what is promised  *)
(* of each: the two carry what a node's transmit queue sends.              *)
(***************************************************************************)

CONSTANTS Sizes, SegData, MaxSegs, WireRoom, Retries,                       \* Transport
          Servers, RouterSenders, Names, Broadcast, Stale, MaxAddr, Depth   \* IpcRouter

VARIABLES dev, wire, segs, snd, rcv, whole, delivered, cut,                 \* Transport
          nodes, box, owner, incoming, client, cache, router                \* IpcRouter

Trn == INSTANCE Transport WITH Room <- WireRoom
Rtr == INSTANCE IpcRouter WITH Senders <- RouterSenders

\* The transports deliver whole segments, in order, while in step (see Transport).
DeliveredIsSent == Trn!DeliveredIsSent

\* The router's maps agree, and a message reaches the node it was sent to or nobody
\* (see IpcRouter).
NamesReachTheirNodes == Rtr!NamesReachTheirNodes
=============================================================================
