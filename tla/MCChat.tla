------------------------------- MODULE MCChat -------------------------------
EXTENDS Chat, TLC

CONSTANTS u1, p1, p2, s1

Symmetry == Permutations(Writers)
=============================================================================
