---------------------------- MODULE MCAckDelivery ----------------------------
(* At-least-once delivery on small instances.                              *)
EXTENDS AckDelivery
==============================================================================
