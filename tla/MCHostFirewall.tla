--------------------------- MODULE MCHostFirewall ---------------------------
(* Instances of HostFirewall for TLC: two addresses that can be managed from *)
(* and one that an origin prefix covers; two uplinks.                        *)
EXTENDS HostFirewall, TLC

CONSTANTS p1, p2, m1, m2, c1, u1, u2

Conf(mode, m, u) == [mode |-> mode, management |-> m, uplinks |-> u]

\* Both modes, one with a further management network and one with a further uplink.
Growing == {Conf("DIRECT", {m1}, {u1}), Conf("PROTECTED", {m1}, {u1}),
            Conf("PROTECTED", {m1, m2}, {u1}), Conf("DIRECT", {m1}, {u1, u2})}
Modes   == {Conf("DIRECT", {m1}, {u1}), Conf("PROTECTED", {m1}, {u1})}

\* A chain of three, so that a late batch can undo the last one.
Managed == {Conf("DIRECT", {m1}, {u1}), Conf("DIRECT", {m1}, {u1, u2}),
            Conf("PROTECTED", {m1, m2}, {u1, u2})}

OnePublication  == {[version |-> 1, content |-> {c1}]}
TwoPublications == {[version |-> 1, content |-> {c1}], [version |-> 2, content |-> {c1, m2}]}

Symmetry == Permutations(Proc)
=============================================================================
