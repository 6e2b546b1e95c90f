-------------------------- MODULE MCIdentityManager --------------------------
(* IdentityManager on small instances: two subscribers, or one and two locks. *)
EXTENDS IdentityManager

MCHandles == {<<2, 0>>, <<1, 2>>}
=============================================================================
