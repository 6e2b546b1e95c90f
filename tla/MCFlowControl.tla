--------------------------- MODULE MCFlowControl ---------------------------
(* Flow control on small instances: a state machine of two states. *)
EXTENDS FlowControl

TwoStates == <<1, 2>>
=============================================================================
