----------------------------- MODULE MCRouting -----------------------------
(***************************************************************************)
(* Instances of DistanceVector.  "lan": three nodes on one subnet, two of  *)
(* them also joined by another, and the way to a third subnet through one  *)
(* of them; n1 has a device without an address on a link of its own.       *)
(* "line": three nodes in a row.  "ring": four nodes; the subnet between   *)
(* n2 and n3 is one hop from n1 and n4 by one way and two by the other.    *)
(***************************************************************************)
EXTENDS RoutingProperties, TLC

CONSTANTS Shape

Joins == CASE Shape = "lan" -> [lan |-> {"n1", "n2", "n3"}, s13 |-> {"n1", "n3"},
                                s23 |-> {"n2"}, bare |-> {}]
           [] Shape = "line" -> [s12 |-> {"n1", "n2"}, s23 |-> {"n2", "n3"}]
           [] Shape = "ring" -> [s12 |-> {"n1", "n2"}, s23 |-> {"n2", "n3"},
                                 s34 |-> {"n3", "n4"}, s41 |-> {"n4", "n1"}]

MCSubnets == DOMAIN Joins
MCNodes == UNION {Joins[s] : s \in MCSubnets}
MCAttached == [n \in MCNodes |-> {s \in MCSubnets : n \in Joins[s]}]
MCUnaddressed ==
    [n \in MCNodes |-> IF Shape = "lan" /\ n = "n1" THEN {"bare"} ELSE {}]
MCMask == [s \in MCSubnets \cup {"default"} |-> IF s = "default" THEN 0 ELSE 24]
MCCovers == [s \in MCSubnets |-> {s, "default"}]

=============================================================================
