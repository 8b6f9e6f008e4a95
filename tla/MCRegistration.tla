--------------------------- MODULE MCRegistration ---------------------------
EXTENDS Registration, TLC

Symmetry == Permutations(Procs) \union Permutations(Agents) \union Permutations(Calls)
            \union Permutations(Names)
=============================================================================
