------------------------- MODULE MCSessionLifecycle --------------------------
(* The session life cycle on small instances.                              *)
EXTENDS SessionLifecycle, TLC

ConnSymmetry == Permutations(Conn)
==============================================================================
