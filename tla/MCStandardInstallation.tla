------------------- MODULE MCStandardInstallation -------------------
EXTENDS StandardInstallation, TLC

\* Two good generations with the database identities exchanged, and a bad one.
Generations ==
  {<<"k1", "none", "a", "b">>, <<"k2", "k1", "b", "a">>, <<"k2", "malformed", "b", "a">>}
\* How a command ended does not matter to the next one: Next asks only whether it has
\* ended, the invariants speak of running commands, and the action properties are checked
\* on the step that ends it.
Live ==
  <<[p \in Proc |-> IF p \in Running THEN pc[p] ELSE "idle"],
    [p \in Proc |-> IF p \in Running THEN job[p] ELSE NoJob], off, spent, stateVars, base>>
Shells == Permutations(Proc)
=====================================================================
