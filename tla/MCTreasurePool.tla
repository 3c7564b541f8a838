--------------------------- MODULE MCTreasurePool ---------------------------
EXTENDS TreasurePool, TLC

CONSTANTS a, b, c

\* Characters differ in nothing but their name.
Perms == Permutations(Char)
=============================================================================
