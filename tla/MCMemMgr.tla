------------------------------ MODULE MCMemMgr ------------------------------
(* Two threads, four blocks, sizes 1 to 3 and a first pool of size 1.       *)
EXTENDS MemMgr

CONSTANTS t1, t2, b1, b2, b3, b4

=============================================================================
