------------------------------ MODULE MCCluster ------------------------------
(* One user with two devices and a token for each: two devices on two
   nodes, or one device that moves from one node to the other. *)
EXTENDS Cluster, TLC

CONSTANTS t1, t2, u1, d1, d2, c1, c2, n1, n2

MCUserOf == [t \in Token |-> u1]
MCDeviceOf == [t \in Token |-> IF t = t1 THEN d1 ELSE d2]

Place(t, n) == [tok |-> (c1 :> t1) @@ (c2 :> t), node |-> (c1 :> n1) @@ (c2 :> n)]

MCPlacement == {Place(t2, n2), Place(t1, n2)}
=============================================================================
