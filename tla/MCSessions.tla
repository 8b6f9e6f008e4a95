----------------------------- MODULE MCSessions -----------------------------
EXTENDS Sessions, TLC

AdminToken == {-1}
Symmetry == Permutations(Procs) \union Permutations(Tabs)
=============================================================================
