----------------------------- MODULE MCOAuthCodes -----------------------------
EXTENDS OAuthCodes, TLC

Symmetry == Permutations(Procs) \union Permutations(Connectors) \union Permutations(Codes)
            \union Permutations(Secrets)
=============================================================================
