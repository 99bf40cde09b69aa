----------------------------- MODULE MCDispatch -----------------------------
(* Two dispatch threads, two events and a queue that holds two.             *)
EXTENDS Dispatch

CONSTANTS w1, w2, e1, e2, h1

=============================================================================
