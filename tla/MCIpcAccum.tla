----------------------------- MODULE MCIpcAccum -----------------------------
(***************************************************************************)
(* A reply of three segments and a second reply of one for the same        *)
(* client, a control message for context 0 and one for another context     *)
(* with a handler; a second client, which gets no reply.                   *)
(***************************************************************************)
EXTENDS IpcAccum

CONSTANTS reply, again, control, event, client1, client2, null

MCMessages == {reply, again, control, event}
MCLength == [m \in MCMessages |-> IF m = reply THEN 3 ELSE 1]
MCContext == [m \in MCMessages |-> IF m = control THEN 0 ELSE IF m = event THEN 2 ELSE 1]
MCRequest == [w \in {client1, client2} |-> IF w = client1 THEN 1 ELSE 3]

=============================================================================
