--------------------------- MODULE MCRunLifecycle ---------------------------
EXTENDS RunLifecycleProofs, TLC

CONSTANTS core, parent, leaf

\* Fresh cookies: every attempt draws its own.
FreshCookies == [r \in Runs |-> r]

\* parent is a strict ancestor of leaf; Core and sibling are beside them.
NestedPaths == {<<parent, leaf>>}

Interchangeable == Permutations(Runs) \cup Permutations(Requests) \cup Permutations(Callers)
=============================================================================
