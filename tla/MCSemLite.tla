----------------------------- MODULE MCSemLite -----------------------------
(* Three callers on a semaphore of at most two tokens: fewer tokens than    *)
(* callers, so two Gives race two waiters and a third that barges in.       *)
EXTENDS SemLite

CONSTANTS t1, t2, t3

=============================================================================
