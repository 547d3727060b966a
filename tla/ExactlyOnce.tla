---------------------------- MODULE ExactlyOnce ----------------------------
(***************************************************************************)
(* What an idempotency key promises to its caller, without transactions,   *)
(* locks or crashes: a key is decided at most once, by one request, and    *)
(* from then on every request with that key is answered from the decision. *)
(***************************************************************************)
CONSTANT Keys      \* (subject, key) pairs

VARIABLES decided,   \* per key, the decisions taken: a set of [request, answer]
          answered   \* the answers callers have been given: [key, request, answer]

vars == <<decided, answered>>

Init ==
  /\ decided = [k \in Keys |-> {}]
  /\ answered = {}

\* The first request with a key runs, and its answer is the key's for good.
Decide(k) ==
  /\ decided[k] = {}
  /\ \E d \in decided'[k] : decided' = [decided EXCEPT ![k] = {d}]
  /\ UNCHANGED answered

\* The request the key was spent on is told the answer, once or many times.
Answer(k) ==
  /\ \E d \in decided[k] :
       answered' = answered \cup {[key |-> k, request |-> d.request, answer |-> d.answer]}
  /\ UNCHANGED decided

Next == \E k \in Keys : Decide(k) \/ Answer(k)

Spec == Init /\ [][Next]_vars
=============================================================================
