-------------------------- MODULE MCEndpointSwitch --------------------------
(* Instances of EndpointSwitch for TLC. *)
EXTENDS EndpointSwitch, TLC

CONSTANTS c1, c2, o1, o2, t1, t2, e1, e2

Symmetry == Permutations({o1, o2}) \cup Permutations({c1, c2}) \cup Permutations({t1, t2}) \cup Permutations({e1, e2})
=============================================================================
