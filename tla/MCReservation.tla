--------------------------- MODULE MCReservation ---------------------------
EXTENDS Reservation, TLC

CONSTANTS r1, host, guest, rival, h1, h2, l1, l2

MCOffers == {[type |-> "any", ranked |-> TRUE, capacity |-> 1]}
NoChange == [type |-> Keep, ranked |-> Keep, capacity |-> Keep, move |-> FALSE]
MCPatches == {[NoChange EXCEPT !.capacity = 2], [NoChange EXCEPT !.type = "rank_match"],
              [NoChange EXCEPT !.move = TRUE]}

\* Users and handlers are interchangeable: everyone may host, join or edit.
Symmetry == Permutations(Users) \cup Permutations(Handlers)
=============================================================================
