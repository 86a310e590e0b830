---------------------------- MODULE FifoChannel -----------------------------
(***************************************************************************)
(* What Session promises to the handlers that call Send: the messages      *)
(* reach the peer one by one in the order they were sent, none is lost or  *)
(* doubled, and all arrive unless the connection breaks.  Messages are     *)
(* numbered in the order they are sent.                                    *)
(***************************************************************************)
EXTENDS Integers, Sequences

VARIABLES
    sent,       \* how many messages were sent
    received,   \* the messages the peer received
    broken      \* the connection was closed by either side

vars == <<sent, received, broken>>

Init == sent = 0 /\ received = <<>> /\ broken = FALSE

Send ==
    /\ sent' = sent + 1
    /\ UNCHANGED <<received, broken>>

Deliver ==
    /\ Len(received) < sent
    /\ received' = Append(received, Len(received) + 1)
    /\ UNCHANGED <<sent, broken>>

Break ==
    /\ broken' = TRUE
    /\ UNCHANGED <<sent, received>>

Next == Send \/ Deliver \/ Break

SafeSpec == Init /\ [][Next]_vars
Spec == SafeSpec /\ WF_vars(~broken /\ Deliver)
=============================================================================
