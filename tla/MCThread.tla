------------------------------ MODULE MCThread ------------------------------
(* A Thread object with its owner, its native thread and two clients.       *)
EXTENDS Thread

CONSTANTS c1, c2

=============================================================================
