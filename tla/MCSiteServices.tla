--------------------------- MODULE MCSiteServices ---------------------------
EXTENDS SiteServices, TLC

CONSTANTS p1, i1, i2, u1, u2, c1, c2, s1, a, b

MCKeys == {p1, LIST, ACTIVE, CHANNELS, RANKS, HOLDERS, BOARD, PLAYER, c1, c2, s1}

\* Accounts and requests are interchangeable.
Symmetry == Permutations({u1, u2}) \cup Permutations({a, b})
=============================================================================
