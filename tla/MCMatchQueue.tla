---------------------------- MODULE MCMatchQueue ----------------------------
EXTENDS MatchQueue, TLC

CONSTANTS ann, bob, r1, w1, w2

\* Workers are interchangeable; so are players, who have no slots
\* until a room gives them one.
Symmetry == Permutations(Workers) \cup Permutations(Players)
=============================================================================
