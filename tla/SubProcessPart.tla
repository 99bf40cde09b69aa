---------------------------- MODULE SubProcessPart ----------------------------
(***************************************************************************)
(* SubProcess, with the names of its own that the module which composes    *)
(* all parts gives values, and what is promised of it.                     *)
(***************************************************************************)

CONSTANTS Owner, Waiters, MaxWrites
VARIABLES dir, desc, process, written, pipe, chunk, rx, extracted, collectorExit, io,
          completed, user

Sub == INSTANCE SubProcess WITH Clients <- Waiters, exitFlag <- collectorExit

\* Who finds a subprocess done finds all its output (see SubProcess).
CompletedIsCollected == Sub!CompletedIsCollected
=============================================================================
