------------------------- MODULE MCOriginPrefixLkg -------------------------
(* Instances of OriginPrefixLkg for TLC. *)
EXTENDS OriginPrefixLkg, TLC

CONSTANTS p1, p2, a, b

\* Two publications of version 1 that conflict, one of them fetched twice, and a
\* version 2.
D(v, c, t) == [version |-> v, content |-> c, at |-> t]
FourDocuments == {D(1, a, 1), D(1, a, 2), D(1, b, 2), D(2, a, 1)}

Symmetry == Permutations(Proc)
=============================================================================
