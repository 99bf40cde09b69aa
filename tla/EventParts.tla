------------------------------ MODULE EventParts ------------------------------
(***************************************************************************)
(* IpcNode and Timer side by side, with the names of their own that the    *)
(* module which composes all parts gives values, and what is promised of   *)
(* each: a dispatcher hands the events of both to their handlers.          *)
(***************************************************************************)

CONSTANTS MaxMsgs, MsgKinds, Reply, Threads, NodeDepth, StopEvent, NoOne,    \* IpcNode
          PerSec, SecsPer, Modulus, Periods, MaxPending                      \* Timer

VARIABLES received, context, work, acc, removal, ctl, freed, hist,          \* IpcNode
          started, armed, running, callbacks, sem, dispatch, life           \* Timer

Nde == INSTANCE IpcNode WITH
    Kinds <- MsgKinds, Depth <- NodeDepth, Stop <- StopEvent, None <- NoOne
Tmr == INSTANCE Timer

\* A node acts on the control events it takes and loses no message but a reply
\* whose context is removed (see IpcNode).
ControlIsActedOn == Nde!ControlIsActedOn

\* A running timer expires after the period it was started with (see Timer).
ArmedIsPeriod == Tmr!ArmedIsPeriod
=============================================================================
