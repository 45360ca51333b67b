------------------------------- MODULE MCDelivery -------------------------------
(***************************************************************************)
(* The notification stream on small instances; the configurations differ   *)
(* in the ring's size and in who may crash.                                *)
(***************************************************************************)
EXTENDS Delivery
=================================================================================
