----------------------------- MODULE MCItcQueue -----------------------------
(* Three threads on a queue of two slots: two putters can race for the last *)
(* slot and two getters for the last element.                               *)
EXTENDS ItcQueue

CONSTANTS t1, t2, t3, a, b, none, free

=============================================================================
