--------------------------- MODULE MCIpcTransmit ---------------------------
(***************************************************************************)
(* Two clients and three messages: two of the same priority, of which one  *)
(* has three segments, and a more urgent one; ids wrap at the third.       *)
(***************************************************************************)
EXTENDS IpcTransmit

CONSTANTS c1, c2, long, short, urgent, null

MCLength == [m \in {long, short, urgent} |-> IF m = long THEN 3 ELSE 1]
MCPriority == [m \in {long, short, urgent} |-> IF m = urgent THEN 1 ELSE 2]

=============================================================================
