--------------------------- MODULE MCIdempotency ---------------------------
(* Two requests that may be spent on one key: one is refused for an instant *)
(* and bookable again a day later, the other is refused from then on.       *)
EXTENDS Idempotency, TLC

CONSTANTS h1, h2, h3, k1, q1, q2

MCRefusedAt == (q1 :> {1}) @@ (q2 :> {2})
=============================================================================
