-------------------------- MODULE MCHostEnrollment --------------------------
(* Instances of HostEnrollment for TLC. *)
EXTENDS HostEnrollment, TLC

CONSTANTS p1, p2, m1, m2, k1, k2, s1

Symmetry == Permutations(Proc) \cup Permutations(Machine) \cup Permutations(Key)
=============================================================================
