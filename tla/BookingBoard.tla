---------------------------- MODULE BookingBoard ----------------------------
(***************************************************************************)
(* What the reservation tab promises: every operation is one indivisible   *)
(* change of the board, made on the board as it is at that moment.  No     *)
(* transactions, locks, clocks or requests in flight.                      *)
(***************************************************************************)
EXTENDS Naturals, FiniteSets

CONSTANTS Reservations,  \* reservation ids
          Users          \* subjects

VARIABLES rows,   \* per id, NoRow or [status, host, start, type, ranked, capacity]
          seats   \* per id, the subjects with an active seat

vars == <<rows, seats>>

NoRow == [status |-> "absent"]
Live(r) == rows[r].status \in {"open", "matched"}
Filled(n, capacity) == IF n >= capacity THEN "matched" ELSE "open"

Init ==
  /\ rows = [r \in Reservations |-> NoRow]
  /\ seats = [r \in Reservations |-> {}]

Book(r) ==
  /\ rows[r] = NoRow
  /\ \E row \in {rows'[r]} :
       /\ row.status = "open"
       /\ rows' = [rows EXCEPT ![r] = row]
  /\ UNCHANGED seats

\* Nobody is seated while the conditions change.
Edit(r) ==
  /\ Live(r)
  /\ seats[r] = {}
  /\ \E row \in {rows'[r]} :
       /\ row.status = rows[r].status
       /\ row.host = rows[r].host
       /\ rows' = [rows EXCEPT ![r] = row]
  /\ UNCHANGED seats

Join(r, u) ==
  /\ Live(r)
  /\ u \notin seats[r] \cup {rows[r].host}
  /\ Cardinality(seats[r]) < rows[r].capacity
  /\ seats' = [seats EXCEPT ![r] = @ \cup {u}]
  /\ rows' = [rows EXCEPT ![r].status = Filled(Cardinality(seats[r]) + 1, rows[r].capacity)]

Leave(r, u) ==
  /\ Live(r)
  /\ u \in seats[r]
  /\ seats' = [seats EXCEPT ![r] = @ \ {u}]
  /\ rows' = [rows EXCEPT ![r].status = Filled(Cardinality(seats[r] \ {u}), rows[r].capacity)]

Cancel(r) ==
  /\ Live(r)
  /\ rows' = [rows EXCEPT ![r].status = "cancelled"]
  /\ seats' = [seats EXCEPT ![r] = {}]

\* Any number of finished reservations leave the board together.
Retire ==
  \E R \in SUBSET Reservations :
    /\ \A r \in R : Live(r)
    /\ rows' = [r \in Reservations |->
                  IF r \in R THEN [rows[r] EXCEPT !.status = "ended"] ELSE rows[r]]
    /\ seats' = [r \in Reservations |-> IF r \in R THEN {} ELSE seats[r]]

Next ==
  \/ \E r \in Reservations : Book(r) \/ Edit(r) \/ Cancel(r)
  \/ \E r \in Reservations, u \in Users : Join(r, u) \/ Leave(r, u)
  \/ Retire

Spec == Init /\ [][Next]_vars
=============================================================================
