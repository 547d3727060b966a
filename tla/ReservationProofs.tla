------------------------- MODULE ReservationProofs -------------------------
(***************************************************************************)
(* Proofs about Reservation for any number of reservations, users,         *)
(* requests and listings.                                                  *)
(***************************************************************************)
EXTENDS ReservationComments, FiniteSetTheorems, TLAPS

\* No transaction is open longer than TxnSpan after the time it captured.
InTime(t) == t.now <= clock /\ clock <= t.now + TxnSpan
Times ==
  /\ \A h \in Handlers : txn[h].pc # "idle" => InTime(txn[h])
  /\ \A l \in Listers : sweep[l].pc # "idle" => InTime(sweep[l])

\* An update carries a patch, and whoever has locked a row still knows it as it
\* is, and the seats as they are once they are counted.
Held ==
  \A h \in Handlers :
    /\ txn[h].pc # "idle" /\ txn[h].op = "update" => txn[h].patch \in Patches
    /\ txn[h].pc \in {"locked", "counted"} =>
         /\ lock[txn[h].id] = h
         /\ rows[txn[h].id] # NoRow
         /\ txn[h].row = rows[txn[h].id]
    /\ txn[h].pc = "counted" =>
         /\ txn[h].count = Cardinality(seats[txn[h].id])
         /\ txn[h].mine = (txn[h].user \in seats[txn[h].id])

\* What a listing has released are, until it commits, exactly the seats of what
\* it finds finished ...
Released ==
  \A l \in Listers : sweep[l].pc \in {"retire", "commit"} =>
    \A r \in Reservations, u \in Users :
      <<r, u>> \in sweep[l].released <=> Finished(rows[r], sweep[l].now) /\ u \in seats[r]

\* ... and those it retires are finished, locked, and include all of these.
Retired ==
  \A l \in Listers : sweep[l].pc = "commit" =>
    /\ \A r \in sweep[l].retiring : lock[r] = l /\ Finished(rows[r], sweep[l].now)
    /\ \A r \in Reservations, u \in Users :
         <<r, u>> \in sweep[l].released => r \in sweep[l].retiring

\* No two listings have released one seat.
Apart ==
  \A l1, l2 \in Listers :
    /\ l1 # l2
    /\ sweep[l1].pc \in {"retire", "commit"}
    /\ sweep[l2].pc \in {"retire", "commit"}
    => sweep[l1].released \cap sweep[l2].released = {}

IInv == TypeOK /\ Times /\ Held /\ Released /\ Retired /\ Apart
        /\ CapacityRespected /\ StatusMatchesSeats

----------------------------------------------------------------------------
(* What is known of open transactions *)

LEMMA TxnTyped ==
  ASSUME TypeOK, NEW h \in Handlers, txn[h].pc # "idle"
  PROVE  txn[h] \in Txn
BY DEF TypeOK, NoTxn

LEMMA SweepTyped ==
  ASSUME TypeOK, NEW l \in Listers, sweep[l].pc # "idle"
  PROVE  sweep[l] \in Sweep
BY DEF TypeOK, NoTxn

LEMMA RowTyped ==
  ASSUME TypeOK, NEW r \in Reservations, rows[r] # NoRow
  PROVE  rows[r] \in Row
BY DEF TypeOK

LEMMA SeatsFinite ==
  ASSUME TypeOK, NEW r \in Reservations
  PROVE  IsFiniteSet(seats[r]) /\ Cardinality(seats[r]) \in Nat
<1>1. seats[r] \in SUBSET Users
  BY DEF TypeOK
<1>2. IsFiniteSet(seats[r])
  BY <1>1, FS_Subset, ReservationAssumption
<1> QED
  BY <1>2, FS_CardinalityType

\* A request that came before the start and a listing that comes a grace after
\* it are never open together.
LEMMA NotFinished ==
  ASSUME TypeOK, Times, NEW h \in Handlers, NEW l \in Listers, NEW row \in Row,
         txn[h].pc # "idle", sweep[l].pc # "idle", txn[h].now < row.start
  PROVE  ~Finished(row, sweep[l].now)
<1>1. txn[h].now \in Nat /\ sweep[l].now \in Nat /\ row.start \in Nat /\ clock \in Nat
  BY TxnTyped, SweepTyped DEF TypeOK, Txn, Sweep, Row
<1>2. clock <= txn[h].now + TxnSpan /\ sweep[l].now <= clock
  BY DEF Times, InTime
<1> QED
  BY <1>1, <1>2, ReservationAssumption DEF Finished

\* What a request that is allowed knows of its reservation.
LEMMA AllowedKnows ==
  ASSUME IInv, NEW h \in Handlers, txn[h].pc = "counted", Allowed(txn[h])
  PROVE  /\ txn[h] \in Txn
         /\ txn[h].id \in Reservations
         /\ lock[txn[h].id] = h
         /\ txn[h].row = rows[txn[h].id]
         /\ rows[txn[h].id] \in Row
         /\ rows[txn[h].id].status \in LIVE_STATUSES
         /\ txn[h].now < rows[txn[h].id].start
         /\ txn[h].count = Cardinality(seats[txn[h].id])
         /\ txn[h].mine = (txn[h].user \in seats[txn[h].id])
<1>1. txn[h] \in Txn /\ txn[h].id \in Reservations
  BY TxnTyped DEF IInv, Txn
<1>2. /\ lock[txn[h].id] = h
      /\ rows[txn[h].id] # NoRow
      /\ txn[h].row = rows[txn[h].id]
      /\ txn[h].count = Cardinality(seats[txn[h].id])
      /\ txn[h].mine = (txn[h].user \in seats[txn[h].id])
  BY DEF IInv, Held
<1>3. rows[txn[h].id] \in Row
  BY <1>1, <1>2, RowTyped DEF IInv
<1>4. txn[h].row.status \in LIVE_STATUSES /\ txn[h].now < txn[h].row.start
  BY DEF Allowed, Editable, Joinable, Leavable, Cancellable, LIVE_STATUSES
<1> QED
  BY <1>1, <1>2, <1>3, <1>4

LEMMA Finishing ==
  ASSUME TypeOK, NEW h \in Handlers, Finish(h)
  PROVE  /\ txn' \in [Handlers -> Txn \cup {NoTxn}]
         /\ lock' \in [Reservations -> Handlers \cup Listers \cup {Free}]
         /\ txn'[h] = NoTxn
         /\ \A g \in Handlers : g # h => txn'[g] = txn[g]
         /\ \A r \in Reservations : lock'[r] = IF lock[r] = h THEN Free ELSE lock[r]
BY DEF TypeOK, Finish, Unlocked

----------------------------------------------------------------------------
(* Steps *)

LEMMA InitInv == Init => IInv
<1> SUFFICES ASSUME Init PROVE IInv
  OBVIOUS
<1>1. TypeOK
  BY ReservationAssumption DEF Init, TypeOK, NoTxn
<1>2. Times /\ Held /\ Released /\ Retired /\ Apart
  BY DEF Init, Times, Held, Released, Retired, Apart, NoTxn
<1>3. CapacityRespected /\ StatusMatchesSeats
  BY DEF Init, CapacityRespected, StatusMatchesSeats, NoRow, LIVE_STATUSES
<1> QED
  BY <1>1, <1>2, <1>3 DEF IInv

\* A step that leaves rows and seats alone disturbs neither what is said of
\* them alone ...
LEMMA SameBoard ==
  ASSUME CapacityRespected, StatusMatchesSeats, UNCHANGED <<rows, seats>>
  PROVE  CapacityRespected' /\ StatusMatchesSeats'
BY DEF CapacityRespected, StatusMatchesSeats

\* ... nor, if it leaves the listings alone and takes no lock from them, what
\* they have done.
LEMMA SameSweeps ==
  ASSUME Released, Retired, Apart, UNCHANGED <<rows, seats, sweep>>,
         \A r \in Reservations, l \in Listers : lock[r] = l => lock'[r] = l,
         TypeOK
  PROVE  Released' /\ Retired' /\ Apart'
<1>1. Released' /\ Apart'
  BY DEF Released, Apart
<1>2. Retired'
  BY SweepTyped DEF Retired, Sweep
<1> QED
  BY <1>1, <1>2

\* A transaction that ends without having written.
LEMMA QuietEnd ==
  ASSUME IInv, NEW h \in Handlers, Finish(h), UNCHANGED <<clock, rows, seats, sweep>>
  PROVE  IInv'
<1>1. TypeOK'
  BY Finishing DEF IInv, TypeOK
<1>2. Times' /\ Held'
  BY Finishing, TxnTyped, ReservationAssumption DEF IInv, Times, InTime, Held, NoTxn, Txn
<1>3. Released' /\ Retired' /\ Apart'
  BY Finishing, SameSweeps, ReservationAssumption DEF IInv
<1> QED
  BY <1>1, <1>2, <1>3, SameBoard DEF IInv

LEMMA OpenInv ==
  ASSUME IInv, NEW h \in Handlers, NEW op \in Ops, NEW r \in Reservations, NEW u \in Users,
         NEW p \in Patches \cup {Keep}, NEW s \in Nat \cup {Keep},
         op = "update" => p \in Patches,
         txn[h].pc = "idle", Open(h, op, r, u, p, s), UNCHANGED <<clock, rows, seats, lock, sweep>>
  PROVE  IInv'
<1>1. clock \in Nat
  BY DEF IInv, TypeOK
<1> DEFINE t == [pc |-> "lock", op |-> op, id |-> r, user |-> u, now |-> clock, patch |-> p,
                 start |-> s, row |-> NoRow, count |-> 0, mine |-> FALSE]
<1>2. txn' = [txn EXCEPT ![h] = t] /\ t \in Txn
  BY <1>1 DEF Open, Txn
<1> HIDE DEF t
<1>3. TypeOK'
  BY <1>2 DEF IInv, TypeOK
<1>4. t.pc = "lock" /\ t.now = clock /\ t.op = op /\ t.patch = p
  BY DEF t
<1>5. Times' /\ Held'
  BY <1>1, <1>2, <1>4, ReservationAssumption DEF IInv, TypeOK, Times, InTime, Held
<1>6. Released' /\ Retired' /\ Apart'
  BY SameSweeps DEF IInv
<1> QED
  BY <1>3, <1>5, <1>6, SameBoard DEF IInv

LEMMA LockInv ==
  ASSUME IInv, NEW h \in Handlers, Lock(h)
  PROVE  IInv'
<1>1. CASE rows[txn[h].id] = NoRow
  BY <1>1, QuietEnd DEF Lock
<1>2. CASE rows[txn[h].id] # NoRow
  <2> DEFINE r == txn[h].id
             t == [txn[h] EXCEPT !.pc = "locked", !.row = rows[r]]
  <2>1. txn[h] \in Txn /\ r \in Reservations
    BY TxnTyped DEF Lock, IInv, Txn
  <2>2. rows[r] \in Row
    BY <1>2, <2>1, RowTyped DEF IInv
  <2>3. t \in Txn /\ t.pc = "locked" /\ t.row = rows[r] /\ t.id = r /\ t.op = txn[h].op
        /\ t.patch = txn[h].patch /\ t.now = txn[h].now
    BY <2>1, <2>2 DEF Txn
  <2>4. txn' = [txn EXCEPT ![h] = t] /\ lock' = [lock EXCEPT ![r] = h] /\ lock[r] = Free
        /\ UNCHANGED <<clock, rows, seats, sweep>> /\ txn[h].pc = "lock"
    BY <1>2 DEF Lock
  <2> HIDE DEF t, r
  <2>5. TypeOK'
    BY <2>1, <2>3, <2>4 DEF IInv, TypeOK
  <2>6. Times'
    BY <2>1, <2>3, <2>4 DEF IInv, TypeOK, Times, InTime
  <2>7. Held'
    BY <1>2, <2>1, <2>3, <2>4, TxnTyped, ReservationAssumption DEF IInv, TypeOK, Held, Txn, r
  <2>8. Released' /\ Retired' /\ Apart'
    BY <2>1, <2>4, SameSweeps, ReservationAssumption DEF IInv, TypeOK
  <2> QED
    BY <2>4, <2>5, <2>6, <2>7, <2>8, SameBoard DEF IInv
<1> QED
  BY <1>1, <1>2

LEMMA CountInv ==
  ASSUME IInv, NEW h \in Handlers, Count(h)
  PROVE  IInv'
<1> DEFINE r == txn[h].id
           t == [txn[h] EXCEPT !.pc = "counted", !.count = Cardinality(seats[r]),
                               !.mine = (txn[h].user \in seats[r])]
<1>1. txn[h] \in Txn /\ r \in Reservations /\ txn[h].pc = "locked"
  BY TxnTyped DEF Count, IInv, Txn
<1>2. Cardinality(seats[r]) \in Nat
  BY <1>1, SeatsFinite DEF IInv
<1>3. t \in Txn /\ t.pc = "counted" /\ t.row = txn[h].row /\ t.id = r /\ t.op = txn[h].op
      /\ t.patch = txn[h].patch /\ t.now = txn[h].now /\ t.user = txn[h].user
      /\ t.count = Cardinality(seats[r]) /\ t.mine = (txn[h].user \in seats[r])
  <2>1. (txn[h].user \in seats[r]) \in BOOLEAN
    OBVIOUS
  <2>2. t = [txn[h] EXCEPT !.pc = "counted", !.count = Cardinality(seats[r]),
                           !.mine = (txn[h].user \in seats[r])]
    OBVIOUS
  <2>3. txn[h].id = r
    OBVIOUS
  <2> HIDE DEF t, r
  <2>4. \A b \in BOOLEAN : t = [txn[h] EXCEPT !.pc = "counted", !.count = Cardinality(seats[r]),
                                             !.mine = b] =>
          /\ t \in Txn
          /\ t.pc = "counted" /\ t.op = txn[h].op /\ t.id = txn[h].id /\ t.user = txn[h].user
          /\ t.now = txn[h].now /\ t.patch = txn[h].patch /\ t.row = txn[h].row
          /\ t.count = Cardinality(seats[r]) /\ t.mine = b
    BY <1>1, <1>2, ZenonT(30) DEF Txn
  <2> QED
    BY <2>1, <2>2, <2>3, <2>4, Zenon
<1>4. txn' = [txn EXCEPT ![h] = t] /\ UNCHANGED <<clock, rows, seats, lock, sweep>>
  BY DEF Count
<1> HIDE DEF t, r
<1>5. TypeOK'
  BY <1>3, <1>4 DEF IInv, TypeOK
<1>6. Times'
  BY <1>1, <1>3, <1>4 DEF IInv, TypeOK, Times, InTime
<1>7. Held'
  BY <1>1, <1>3, <1>4 DEF IInv, TypeOK, Held, r
<1>8. Released' /\ Retired' /\ Apart'
  BY <1>4, SameSweeps DEF IInv
<1> QED
  BY <1>4, <1>5, <1>6, <1>7, <1>8, SameBoard DEF IInv

LEMMA CreateInv ==
  ASSUME IInv, NEW r \in Reservations, NEW u \in Users, NEW c \in Offers, Create(r, u, c)
  PROVE  IInv'
<1>1. PICK s \in Nat :
        rows' = [rows EXCEPT ![r] = [status |-> "open", host |-> u, start |-> s, type |-> c.type,
                                     ranked |-> c.ranked, capacity |-> c.capacity]]
  <2>1. PICK now \in 0 .. clock : \E s \in Bookable(now) :
          rows' = [rows EXCEPT ![r] = [status |-> "open", host |-> u, start |-> s, type |-> c.type,
                                       ranked |-> c.ranked, capacity |-> c.capacity]]
    BY Zenon DEF Create
  <2>2. Bookable(now) \subseteq Nat
    BY ReservationAssumption DEF Bookable
  <2> QED
    BY <2>1, <2>2
<1> DEFINE row == [status |-> "open", host |-> u, start |-> s, type |-> c.type,
                   ranked |-> c.ranked, capacity |-> c.capacity]
<1>2. c \in Conditions
  BY ReservationAssumption
<1>3. row \in Row /\ row # NoRow /\ row.status = "open" /\ row.capacity \in Nat \ {0}
  BY <1>2 DEF Row, Conditions, NoRow
<1>4. rows[r] = NoRow /\ rows' = [rows EXCEPT ![r] = row]
      /\ UNCHANGED <<clock, seats, lock, txn, sweep>>
  BY <1>1 DEF Create
<1> HIDE DEF row
<1>5. NoRow.status \notin LIVE_STATUSES /\ row.status \in LIVE_STATUSES
  BY <1>3 DEF NoRow, LIVE_STATUSES
<1>6. seats[r] = {}
  BY <1>4, <1>5 DEF IInv, StatusMatchesSeats
<1>7. TypeOK' /\ Times'
  BY <1>3, <1>4 DEF IInv, TypeOK, Times, InTime
<1>8. Held'
  BY <1>4, TxnTyped DEF IInv, TypeOK, Held, Txn
<1>9. Released'
  BY <1>4, <1>5, <1>6 DEF IInv, TypeOK, Released, Finished
<1>10. Retired'
  BY <1>4, <1>5, SweepTyped DEF IInv, TypeOK, Retired, Finished, Sweep
<1>11. Apart'
  BY <1>4 DEF IInv, Apart
<1>12. Cardinality(seats[r]) = 0
  BY <1>6, FS_EmptySet
<1>13. CapacityRespected'
  BY <1>3, <1>4, <1>12 DEF IInv, TypeOK, CapacityRespected
<1>14. StatusMatchesSeats'
  BY <1>3, <1>4, <1>12, <1>5 DEF IInv, TypeOK, StatusMatchesSeats, StatusFor
<1> QED
  BY <1>7, <1>8, <1>9, <1>10, <1>11, <1>13, <1>14 DEF IInv

LEMMA TickInv == ASSUME IInv, Tick PROVE IInv'
<1>1. TypeOK'
  BY DEF IInv, TypeOK, Tick
<1>2. Times'
  BY TxnTyped, SweepTyped, ReservationAssumption DEF IInv, TypeOK, Times, InTime, Tick, Txn, Sweep
<1>3. Held'
  BY DEF IInv, Held, Tick
<1>4. Released' /\ Retired' /\ Apart'
  BY SameSweeps DEF IInv, Tick
<1> QED
  BY <1>1, <1>2, <1>3, <1>4, SameBoard DEF IInv, Tick

\* A request that is allowed writes its own row and seats, and ends.  No open
\* listing has anything to do with that reservation.
LEMMA WriteStep ==
  ASSUME IInv, NEW h \in Handlers, txn[h].pc = "counted", Allowed(txn[h]),
         NEW row \in Row, NEW left \in SUBSET Users,
         row.start = rows[txn[h].id].start \/ left = {},
         rows' = [rows EXCEPT ![txn[h].id] = row],
         seats' = [seats EXCEPT ![txn[h].id] = left],
         Finish(h), UNCHANGED <<clock, sweep>>
  PROVE  TypeOK' /\ Times' /\ Held' /\ Released' /\ Retired' /\ Apart'
<1> DEFINE r == txn[h].id
<1>0. rows \in [Reservations -> Row \cup {NoRow}] /\ seats \in [Reservations -> SUBSET Users]
  BY DEF IInv, TypeOK
<1>1. /\ r \in Reservations
      /\ lock[r] = h
      /\ rows[r] \in Row
      /\ txn[h].now < rows[r].start
  BY AllowedKnows
<1>2. /\ row.start = rows[r].start \/ left = {}
      /\ rows' = [rows EXCEPT ![r] = row]
      /\ seats' = [seats EXCEPT ![r] = left]
  OBVIOUS
<1> HIDE DEF r
<1>3. \A l \in Listers : sweep[l].pc # "idle" => ~Finished(rows[r], sweep[l].now)
  BY <1>1, NotFinished DEF IInv
<1>4. TypeOK'
  <2>1. rows' \in [Reservations -> Row \cup {NoRow}] /\ seats' \in [Reservations -> SUBSET Users]
    BY <1>1, <1>2, <1>0, ZenonT(30)
  <2>2. txn' \in [Handlers -> Txn \cup {NoTxn}]
        /\ lock' \in [Reservations -> Handlers \cup Listers \cup {Free}]
    BY Finishing DEF IInv
  <2> QED
    BY <2>1, <2>2 DEF IInv, TypeOK
<1>5. Times'
  BY Finishing DEF IInv, Times, InTime, NoTxn
<1>6. Held'
  <2>1. SUFFICES ASSUME NEW g \in Handlers, txn'[g].pc # "idle"
        PROVE  /\ txn'[g].op = "update" => txn'[g].patch \in Patches
               /\ txn'[g].pc \in {"locked", "counted"} =>
                    /\ lock'[txn'[g].id] = g
                    /\ rows'[txn'[g].id] # NoRow
                    /\ txn'[g].row = rows'[txn'[g].id]
               /\ txn'[g].pc = "counted" =>
                    /\ txn'[g].count = Cardinality(seats'[txn'[g].id])
                    /\ txn'[g].mine = (txn'[g].user \in seats'[txn'[g].id])
    BY DEF Held
  <2>2. g # h /\ txn'[g] = txn[g]
    BY <2>1, Finishing DEF IInv, NoTxn
  <2>3. txn[g].id \in Reservations
    BY <2>1, <2>2, TxnTyped DEF IInv, Txn
  <2>4. CASE txn[g].pc \in {"locked", "counted"}
    <3>1. lock[txn[g].id] = g /\ txn[g].id # r
      BY <1>1, <2>2, <2>4 DEF IInv, Held
    <3>2. /\ rows'[txn[g].id] = rows[txn[g].id]
          /\ seats'[txn[g].id] = seats[txn[g].id]
          /\ lock'[txn[g].id] = g
      <4>1. lock'[txn[g].id] = g
        BY <2>2, <2>3, <3>1, Finishing DEF IInv
      <4> QED
        BY <1>2, <2>3, <3>1, <4>1, <1>0
    <3>3. /\ rows[txn[g].id] # NoRow
          /\ txn[g].row = rows[txn[g].id]
          /\ txn[g].pc = "counted" =>
               /\ txn[g].count = Cardinality(seats[txn[g].id])
               /\ txn[g].mine = (txn[g].user \in seats[txn[g].id])
      BY <2>4, Zenon DEF IInv, Held
    <3>4. txn[g].op = "update" => txn[g].patch \in Patches
      BY <2>1, <2>2 DEF IInv, Held
    <3> QED
      BY <2>2, <3>2, <3>3, <3>4, Zenon
  <2>5. CASE txn[g].pc \notin {"locked", "counted"}
    BY <2>1, <2>2, <2>5 DEF IInv, Held
  <2> QED
    BY <2>4, <2>5
<1>7. Released'
  <2>1. \A l \in Listers, u \in Users : sweep[l].pc \in {"retire", "commit"} =>
          <<r, u>> \notin sweep[l].released
    BY <1>1, <1>3 DEF IInv, Released
  <2>2. \A l \in Listers, u \in Users : sweep[l].pc \in {"retire", "commit"} =>
          ~(Finished(rows'[r], sweep[l].now) /\ u \in seats'[r])
    <3>1. rows'[r] = row /\ seats'[r] = left
      BY <1>1, <1>2, <1>0
    <3>2. CASE left = {}
      BY <3>1, <3>2
    <3>3. CASE row.start = rows[r].start
      BY <1>1, <3>1, <3>3, NotFinished DEF IInv
    <3> QED
      BY <1>2, <3>2, <3>3
  <2> QED
    BY <1>1, <1>2, <2>1, <2>2, ZenonT(30) DEF IInv, TypeOK, Released
<1>8. Retired'
  BY <1>1, <1>2, <1>3, Finishing, SweepTyped, ReservationAssumption
     DEF IInv, TypeOK, Retired, Sweep
<1>9. Apart'
  BY DEF IInv, Apart
<1> QED
  BY <1>4, <1>5, <1>6, <1>7, <1>8, <1>9

\* One reservation and its seats are written, and agree.
LEMMA OneRow ==
  ASSUME TypeOK, CapacityRespected, StatusMatchesSeats, NEW r \in Reservations,
         NEW row \in Row, NEW left \in SUBSET Users,
         rows' = [rows EXCEPT ![r] = row], seats' = [seats EXCEPT ![r] = left],
         Cardinality(left) <= row.capacity,
         IF row.status \in LIVE_STATUSES
         THEN row.status = StatusFor(Cardinality(left), row.capacity) ELSE left = {}
  PROVE  CapacityRespected' /\ StatusMatchesSeats'
<1>1. rows \in [Reservations -> Row \cup {NoRow}] /\ seats \in [Reservations -> SUBSET Users]
  BY DEF TypeOK
<1>2. rows'[r] = row /\ seats'[r] = left
  BY <1>1
<1>3. \A q \in Reservations : q # r => rows'[q] = rows[q] /\ seats'[q] = seats[q]
  BY <1>1
<1>4. CapacityRespected'
  BY <1>2, <1>3 DEF CapacityRespected
<1>5. StatusMatchesSeats'
  BY <1>2, <1>3, Zenon DEF StatusMatchesSeats
<1> QED
  BY <1>4, <1>5

LEMMA ApplyUpdateInv ==
  ASSUME IInv, NEW h \in Handlers, ApplyUpdate(h)
  PROVE  IInv'
<1> DEFINE t == txn[h]
           r == t.id
           row == [Merged(t.row, t.patch) EXCEPT !.start = Over(t.start, @)]
<1>1. t.pc = "counted" /\ t.op = "update" /\ Allowed(t)
  BY DEF ApplyUpdate, Ready
<1>2. /\ t \in Txn /\ r \in Reservations /\ t.row = rows[r] /\ rows[r] \in Row
      /\ rows[r].status \in LIVE_STATUSES /\ t.count = Cardinality(seats[r])
  BY <1>1, AllowedKnows
<1>3. seats[r] = {} /\ Cardinality(seats[r]) = 0
  BY <1>1, <1>2, SeatsFinite, FS_EmptySet DEF Allowed, Editable, IInv
<1>4. t.patch \in Patch
  BY <1>1, ReservationAssumption DEF IInv, Held
<1>5. row \in Row /\ row.status = rows[r].status /\ row.capacity \in Nat \ {0}
  BY <1>2, <1>4, ZenonT(30) DEF Row, Patch, Merged, Over, Txn
<1>6. rows' = [rows EXCEPT ![r] = row] /\ Finish(h) /\ UNCHANGED <<clock, seats, sweep>>
  BY DEF ApplyUpdate
<1>7. rows \in [Reservations -> Row \cup {NoRow}] /\ seats \in [Reservations -> SUBSET Users]
  BY DEF IInv, TypeOK
<1>8. seats' = [seats EXCEPT ![r] = {}] /\ {} \in SUBSET Users
  BY <1>3, <1>6, <1>7
<1> HIDE DEF row
<1>9. TypeOK' /\ Times' /\ Held' /\ Released' /\ Retired' /\ Apart'
  BY <1>1, <1>5, <1>6, <1>8, WriteStep
<1> HIDE DEF t, r
<1>10. rows[r].status = "open"
  <2>1. rows[r].status = StatusFor(0, rows[r].capacity)
    BY <1>2, <1>3 DEF IInv, StatusMatchesSeats
  <2>2. rows[r].capacity \in Nat \ {0}
    BY <1>2 DEF Row
  <2> QED
    BY <2>1, <2>2 DEF StatusFor
<1>11. row.status = StatusFor(Cardinality({}), row.capacity) /\ Cardinality({}) <= row.capacity
  BY <1>5, <1>10, FS_EmptySet DEF StatusFor
<1>12. CapacityRespected' /\ StatusMatchesSeats'
  BY <1>2, <1>5, <1>6, <1>8, <1>11, OneRow DEF IInv
<1> QED
  BY <1>9, <1>12 DEF IInv

LEMMA ApplyJoinInv ==
  ASSUME IInv, NEW h \in Handlers, ApplyJoin(h)
  PROVE  IInv'
<1> DEFINE t == txn[h]
           r == t.id
           seated == seats[r] \cup {t.user}
           row == [t.row EXCEPT !.status = StatusFor(t.count + 1, t.row.capacity)]
<1>1. t.pc = "counted" /\ t.op = "join" /\ Allowed(t) /\ t.user \notin seats[r]
  BY DEF ApplyJoin, Ready, SeatTaken
<1>2. /\ t \in Txn /\ r \in Reservations /\ t.row = rows[r] /\ rows[r] \in Row
      /\ t.count = Cardinality(seats[r])
  BY <1>1, AllowedKnows
<1>3. rows \in [Reservations -> Row \cup {NoRow}] /\ seats \in [Reservations -> SUBSET Users]
  BY DEF IInv, TypeOK
<1>4. t.user \in Users /\ seated \in SUBSET Users
  BY <1>2, <1>3 DEF Txn
<1>5. Cardinality(seated) = t.count + 1 /\ t.count \in Nat
  <2>1. IsFiniteSet(seats[r]) /\ Cardinality(seats[r]) \in Nat
    BY <1>2, SeatsFinite DEF IInv
  <2>2. Cardinality(seated) = Cardinality(seats[r]) + 1
    BY <1>1, <2>1, FS_AddElement
  <2> QED
    BY <1>2, <2>1, <2>2
<1>6. t.count < rows[r].capacity
  BY <1>1, <1>2 DEF Allowed, Joinable
<1>7. /\ row \in Row /\ row.start = rows[r].start /\ row.capacity = rows[r].capacity
      /\ row.status = StatusFor(t.count + 1, row.capacity)
  BY <1>2 DEF Row, StatusFor
<1>8. /\ rows' = [rows EXCEPT ![r] = row] /\ seats' = [seats EXCEPT ![r] = seated]
      /\ Finish(h) /\ UNCHANGED <<clock, sweep>>
  BY DEF ApplyJoin
<1> HIDE DEF row, seated
<1>9. TypeOK' /\ Times' /\ Held' /\ Released' /\ Retired' /\ Apart'
  BY <1>1, <1>4, <1>7, <1>8, WriteStep
<1> HIDE DEF t, r
<1>10. Cardinality(seated) <= row.capacity /\ row.status \in LIVE_STATUSES
  BY <1>2, <1>5, <1>6, <1>7 DEF Row, StatusFor, LIVE_STATUSES
<1>11. CapacityRespected' /\ StatusMatchesSeats'
  BY <1>2, <1>4, <1>5, <1>7, <1>8, <1>10, OneRow DEF IInv
<1> QED
  BY <1>9, <1>11 DEF IInv

LEMMA ApplyLeaveInv ==
  ASSUME IInv, NEW h \in Handlers, ApplyLeave(h)
  PROVE  IInv'
<1> DEFINE t == txn[h]
           r == t.id
           left == seats[r] \ {t.user}
           row == [t.row EXCEPT !.status = StatusFor(Cardinality(left), t.row.capacity)]
<1>1. t.pc = "counted" /\ t.op = "leave" /\ Allowed(t)
  BY DEF ApplyLeave, Ready
<1>2. r \in Reservations /\ t.row = rows[r] /\ rows[r] \in Row
  BY <1>1, AllowedKnows
<1>3. rows \in [Reservations -> Row \cup {NoRow}] /\ seats \in [Reservations -> SUBSET Users]
  BY DEF IInv, TypeOK
<1>4. left \in SUBSET Users
  BY <1>2, <1>3
<1>5. Cardinality(left) \in Nat /\ Cardinality(left) <= Cardinality(seats[r])
      /\ Cardinality(seats[r]) \in Nat
  <2>1. left \in SUBSET seats[r] /\ IsFiniteSet(seats[r]) /\ Cardinality(seats[r]) \in Nat
    BY <1>2, SeatsFinite DEF IInv
  <2>2. IsFiniteSet(left) /\ Cardinality(left) <= Cardinality(seats[r])
    BY <2>1, FS_Subset
  <2> QED
    BY <2>1, <2>2, FS_CardinalityType
<1>6. /\ row \in Row /\ row.start = rows[r].start /\ row.capacity = rows[r].capacity
      /\ row.status = StatusFor(Cardinality(left), row.capacity)
  BY <1>2 DEF Row, StatusFor
<1>7. /\ rows' = [rows EXCEPT ![r] = row] /\ seats' = [seats EXCEPT ![r] = left]
      /\ Finish(h) /\ UNCHANGED <<clock, sweep>>
  BY DEF ApplyLeave
<1> HIDE DEF row, left
<1>8. TypeOK' /\ Times' /\ Held' /\ Released' /\ Retired' /\ Apart'
  BY <1>1, <1>4, <1>6, <1>7, WriteStep
<1> HIDE DEF t, r
<1>9. Cardinality(left) <= row.capacity /\ row.status \in LIVE_STATUSES
  <2>1. Cardinality(seats[r]) <= rows[r].capacity /\ rows[r].capacity \in Nat
    BY <1>2 DEF IInv, CapacityRespected, Row, NoRow
  <2> QED
    BY <1>5, <1>6, <2>1 DEF StatusFor, LIVE_STATUSES
<1>10. CapacityRespected' /\ StatusMatchesSeats'
  BY <1>2, <1>4, <1>6, <1>7, <1>9, OneRow DEF IInv
<1> QED
  BY <1>8, <1>10 DEF IInv

LEMMA ApplyCancelInv ==
  ASSUME IInv, NEW h \in Handlers, ApplyCancel(h)
  PROVE  IInv'
<1> DEFINE t == txn[h]
           r == t.id
           row == [t.row EXCEPT !.status = "cancelled"]
<1>1. t.pc = "counted" /\ t.op = "cancel" /\ Allowed(t)
  BY DEF ApplyCancel, Ready
<1>2. r \in Reservations /\ t.row = rows[r] /\ rows[r] \in Row
  BY <1>1, AllowedKnows
<1>3. row \in Row /\ row.start = rows[r].start /\ row.status = "cancelled"
      /\ row.capacity \in Nat /\ {} \in SUBSET Users
  BY <1>2 DEF Row
<1>4. /\ rows' = [rows EXCEPT ![r] = row] /\ seats' = [seats EXCEPT ![r] = {}]
      /\ Finish(h) /\ UNCHANGED <<clock, sweep>>
  BY DEF ApplyCancel
<1> HIDE DEF row
<1>5. TypeOK' /\ Times' /\ Held' /\ Released' /\ Retired' /\ Apart'
  BY <1>1, <1>3, <1>4, WriteStep
<1> HIDE DEF t, r
<1>6. Cardinality({}) <= row.capacity /\ row.status \notin LIVE_STATUSES
  BY <1>3, FS_EmptySet DEF LIVE_STATUSES
<1>7. CapacityRespected' /\ StatusMatchesSeats'
  BY <1>2, <1>3, <1>4, <1>6, OneRow DEF IInv
<1> QED
  BY <1>5, <1>7 DEF IInv

LEMMA ListBeginInv ==
  ASSUME IInv, NEW l \in Listers, ListBegin(l)
  PROVE  IInv'
<1> DEFINE s == [pc |-> "release", now |-> clock, released |-> {}, retiring |-> {}]
<1>1. s \in Sweep /\ s.pc = "release" /\ s.now = clock /\ clock \in Nat
  BY DEF IInv, TypeOK, Sweep
<1>2. sweep' = [sweep EXCEPT ![l] = s] /\ UNCHANGED <<clock, rows, seats, lock, txn>>
      /\ sweep[l].pc = "idle"
  BY DEF ListBegin
<1> HIDE DEF s
<1>3. TypeOK' /\ Times'
  BY <1>1, <1>2, ReservationAssumption DEF IInv, TypeOK, Times, InTime
<1>4. Held'
  BY <1>2 DEF IInv, Held
<1>5. Released' /\ Retired' /\ Apart'
  BY <1>1, <1>2 DEF IInv, TypeOK, Released, Retired, Apart
<1> QED
  BY <1>2, <1>3, <1>4, <1>5, SameBoard DEF IInv

LEMMA ListReleaseInv ==
  ASSUME IInv, NEW l \in Listers, ListRelease(l)
  PROVE  IInv'
<1> DEFINE mine == {s \in Reservations \X Users :
                      Finished(rows[s[1]], sweep[l].now) /\ s[2] \in seats[s[1]]}
           sw == [sweep[l] EXCEPT !.pc = "retire", !.released = mine]
<1>1. sweep[l] \in Sweep /\ sweep[l].pc = "release"
  BY SweepTyped DEF ListRelease, IInv
<1>2. sw \in Sweep /\ sw.pc = "retire" /\ sw.now = sweep[l].now /\ sw.released = mine
  BY <1>1 DEF Sweep
<1>3. sweep' = [sweep EXCEPT ![l] = sw] /\ UNCHANGED <<clock, rows, seats, lock, txn>>
  BY DEF ListRelease
<1>4. \A r \in Reservations, u \in Users :
        <<r, u>> \in mine <=> Finished(rows[r], sweep[l].now) /\ u \in seats[r]
  OBVIOUS
<1>5. \A k \in Listers : k # l /\ sweep[k].pc \in {"retire", "commit"} =>
        mine \cap sweep[k].released = {}
  BY <1>1 DEF ListRelease, SeatsLocked
<1> HIDE DEF mine, sw
<1>6. TypeOK' /\ Times'
  BY <1>1, <1>2, <1>3 DEF IInv, TypeOK, Times, InTime
<1>7. Held'
  BY <1>3 DEF IInv, Held
<1>8. Released'
  BY <1>2, <1>3, <1>4 DEF IInv, TypeOK, Released
<1>9. Retired'
  BY <1>2, <1>3 DEF IInv, TypeOK, Retired
<1>10. Apart'
  <2>1. sweep'[l] = sw /\ \A k \in Listers : k # l => sweep'[k] = sweep[k]
    BY <1>3 DEF IInv, TypeOK
  <2> QED
    BY <1>2, <1>5, <2>1 DEF IInv, Apart
<1> QED
  BY <1>3, <1>6, <1>7, <1>8, <1>9, <1>10, SameBoard DEF IInv

LEMMA ListRetireInv ==
  ASSUME IInv, NEW l \in Listers, ListRetire(l)
  PROVE  IInv'
<1> DEFINE mine == {r \in Reservations : Finished(rows[r], sweep[l].now)}
           sw == [sweep[l] EXCEPT !.pc = "commit", !.retiring = mine]
<1>1. sweep[l] \in Sweep /\ sweep[l].pc = "retire"
  BY SweepTyped DEF ListRetire, IInv
<1>2. sw \in Sweep /\ sw.pc = "commit" /\ sw.now = sweep[l].now
      /\ sw.released = sweep[l].released /\ sw.retiring = mine
  BY <1>1 DEF Sweep
<1>3. /\ sweep' = [sweep EXCEPT ![l] = sw] /\ UNCHANGED <<clock, rows, seats, txn>>
      /\ lock' = [r \in Reservations |-> IF r \in mine THEN l ELSE lock[r]]
      /\ \A r \in mine : lock[r] = Free
  BY DEF ListRetire
<1>4. \A r \in Reservations : r \in mine <=> Finished(rows[r], sweep[l].now)
  OBVIOUS
<1>5. mine \in SUBSET Reservations
  OBVIOUS
<1> HIDE DEF mine, sw
<1>6. sweep'[l] = sw /\ \A k \in Listers : k # l => sweep'[k] = sweep[k]
  BY <1>3 DEF IInv, TypeOK
<1>7. \A r \in Reservations : lock[r] # Free => lock'[r] = lock[r]
  BY <1>3
<1>8. TypeOK'
  BY <1>2, <1>3, <1>5 DEF IInv, TypeOK
<1>9. Times'
  BY <1>1, <1>2, <1>3, <1>6 DEF IInv, Times, InTime
<1>10. Held'
  BY <1>3, <1>7, TxnTyped, ReservationAssumption DEF IInv, Held, Txn
<1>11. Released' /\ Apart'
  BY <1>1, <1>2, <1>3, <1>6 DEF IInv, Released, Apart
<1>12. Retired'
  <2>1. SUFFICES ASSUME NEW k \in Listers, sweep'[k].pc = "commit"
        PROVE  /\ \A r \in sweep'[k].retiring : lock'[r] = k /\ Finished(rows'[r], sweep'[k].now)
               /\ \A r \in Reservations, u \in Users :
                    <<r, u>> \in sweep'[k].released => r \in sweep'[k].retiring
    BY DEF Retired
  <2>2. CASE k = l
    BY <1>1, <1>2, <1>3, <1>4, <1>5, <1>6, <2>2 DEF IInv, Released
  <2>3. CASE k # l
    <3>1. sweep'[k] = sweep[k] /\ sweep[k] \in Sweep
      BY <1>6, <2>1, <2>3, SweepTyped DEF IInv
    <3>2. sweep[k].retiring \in SUBSET Reservations
      BY <3>1 DEF Sweep
    <3> QED
      BY <1>3, <1>7, <2>1, <3>1, <3>2, ReservationAssumption DEF IInv, Retired
  <2> QED
    BY <2>2, <2>3
<1> QED
  BY <1>3, <1>8, <1>9, <1>10, <1>11, <1>12, SameBoard DEF IInv

\* A listing that ends frees its locks and takes nobody else's.
LEMMA Closing ==
  ASSUME TypeOK, NEW l \in Listers, sweep' = [sweep EXCEPT ![l] = NoTxn], lock' = Unlocked(l)
  PROVE  /\ sweep' \in [Listers -> Sweep \cup {NoTxn}]
         /\ lock' \in [Reservations -> Handlers \cup Listers \cup {Free}]
         /\ sweep'[l] = NoTxn
         /\ \A k \in Listers : k # l => sweep'[k] = sweep[k]
         /\ \A r \in Reservations : lock'[r] = IF lock[r] = l THEN Free ELSE lock[r]
BY DEF TypeOK, Unlocked

LEMMA ListAbortInv ==
  ASSUME IInv, NEW l \in Listers, ListAbort(l)
  PROVE  IInv'
<1>1. /\ sweep' = [sweep EXCEPT ![l] = NoTxn] /\ lock' = Unlocked(l)
      /\ UNCHANGED <<clock, rows, seats, txn>> /\ NoTxn.pc = "idle"
  BY DEF ListAbort, NoTxn
<1>2. /\ sweep'[l] = NoTxn /\ \A k \in Listers : k # l => sweep'[k] = sweep[k]
      /\ \A r \in Reservations : lock[r] # l => lock'[r] = lock[r]
  BY <1>1, Closing DEF IInv
<1>3. TypeOK'
  BY <1>1, Closing DEF IInv, TypeOK
<1>4. Times'
  BY <1>1, <1>2 DEF IInv, Times, InTime
<1>5. Held'
  BY <1>1, <1>2, TxnTyped, ReservationAssumption DEF IInv, Held, Txn
<1>6. Released' /\ Apart'
  BY <1>1, <1>2 DEF IInv, Released, Apart
<1>7. Retired'
  BY <1>1, <1>2, SweepTyped DEF IInv, Retired, Sweep
<1> QED
  BY <1>1, <1>3, <1>4, <1>5, <1>6, <1>7, SameBoard DEF IInv

\* A listing that commits ends the reservations it retires, all their seats
\* with them, and touches no others.
LEMMA CommitEffect ==
  ASSUME IInv, NEW l \in Listers, ListCommit(l)
  PROVE  /\ sweep[l] \in Sweep /\ sweep[l].retiring \in SUBSET Reservations
         /\ \A r \in sweep[l].retiring :
              /\ lock[r] = l
              /\ rows[r] \in Row
              /\ Finished(rows[r], sweep[l].now)
              /\ rows'[r] = [rows[r] EXCEPT !.status = "ended"]
              /\ seats'[r] = {}
         /\ \A r \in Reservations : r \notin sweep[l].retiring =>
              rows'[r] = rows[r] /\ seats'[r] = seats[r]
         /\ rows' \in [Reservations -> Row \cup {NoRow}]
         /\ seats' \in [Reservations -> SUBSET Users]
<1> DEFINE R == sweep[l].retiring
<1>1. sweep[l].pc = "commit" /\ sweep[l] \in Sweep
  BY SweepTyped DEF ListCommit, IInv
<1>2. R \in SUBSET Reservations
  BY <1>1 DEF Sweep
<1>3. /\ rows' = [r \in Reservations |->
                    IF r \in R THEN [rows[r] EXCEPT !.status = "ended"] ELSE rows[r]]
      /\ seats' = [r \in Reservations |-> {u \in seats[r] : <<r, u>> \notin sweep[l].released}]
  BY DEF ListCommit
<1>4. rows \in [Reservations -> Row \cup {NoRow}] /\ seats \in [Reservations -> SUBSET Users]
  BY DEF IInv, TypeOK
<1>5. \A r \in R : lock[r] = l /\ Finished(rows[r], sweep[l].now)
  BY <1>1 DEF IInv, Retired
<1>6. \A r \in R : rows[r] \in Row
  BY <1>2, <1>4, <1>5 DEF Finished, NoRow, LIVE_STATUSES
<1>7. \A r \in Reservations, u \in Users :
        <<r, u>> \in sweep[l].released <=> Finished(rows[r], sweep[l].now) /\ u \in seats[r]
  BY <1>1 DEF IInv, Released
<1>8. \A r \in Reservations, u \in Users : <<r, u>> \in sweep[l].released => r \in R
  BY <1>1 DEF IInv, Retired
<1> HIDE DEF R
<1>9. \A r \in R : seats'[r] = {}
  BY <1>2, <1>3, <1>4, <1>5, <1>7
<1>10. \A r \in R : rows'[r] = [rows[r] EXCEPT !.status = "ended"]
  BY <1>2, <1>3
<1>11. \A r \in Reservations : r \notin R => rows'[r] = rows[r] /\ seats'[r] = seats[r]
  <2>1. SUFFICES ASSUME NEW r \in Reservations, r \notin R
        PROVE  rows'[r] = rows[r] /\ seats'[r] = seats[r]
    OBVIOUS
  <2>2. rows'[r] = rows[r] /\ seats'[r] = {u \in seats[r] : <<r, u>> \notin sweep[l].released}
    BY <1>3, <2>1
  <2>3. \A u \in seats[r] : u \in Users
    BY <1>4
  <2>4. \A u \in seats[r] : <<r, u>> \notin sweep[l].released
    BY <1>8, <2>1, <2>3
  <2> QED
    BY <2>2, <2>4
<1>12. \A r \in Reservations : rows'[r] \in Row \cup {NoRow}
  <2>1. SUFFICES ASSUME NEW r \in Reservations PROVE rows'[r] \in Row \cup {NoRow}
    OBVIOUS
  <2>2. CASE r \in R
    <3>1. rows[r] \in Row /\ rows'[r] = [rows[r] EXCEPT !.status = "ended"]
      BY <1>6, <1>10, <2>2
    <3> QED
      BY <3>1 DEF Row
  <2>3. CASE r \notin R
    BY <1>4, <1>11, <2>3
  <2> QED
    BY <2>2, <2>3
<1>13. rows' \in [Reservations -> Row \cup {NoRow}]
  BY <1>3, <1>12
<1>14. seats' \in [Reservations -> SUBSET Users]
  BY <1>3, <1>4
<1> QED
  BY <1>1, <1>2, <1>5, <1>6, <1>9, <1>10, <1>11, <1>13, <1>14 DEF R

LEMMA ListCommitInv ==
  ASSUME IInv, NEW l \in Listers, ListCommit(l)
  PROVE  IInv'
<1> DEFINE R == sweep[l].retiring
<1>1. /\ \A r \in R : /\ lock[r] = l
                      /\ rows[r] \in Row
                      /\ Finished(rows[r], sweep[l].now)
                      /\ rows'[r] = [rows[r] EXCEPT !.status = "ended"]
                      /\ seats'[r] = {}
      /\ \A r \in Reservations : r \notin R => rows'[r] = rows[r] /\ seats'[r] = seats[r]
      /\ rows' \in [Reservations -> Row \cup {NoRow}]
      /\ seats' \in [Reservations -> SUBSET Users]
  BY CommitEffect
<1>2. /\ sweep' = [sweep EXCEPT ![l] = NoTxn] /\ lock' = Unlocked(l)
      /\ UNCHANGED <<clock, txn>> /\ NoTxn.pc = "idle" /\ sweep[l].pc = "commit"
  BY DEF ListCommit, NoTxn
<1>3. /\ sweep'[l] = NoTxn /\ \A k \in Listers : k # l => sweep'[k] = sweep[k]
      /\ \A r \in Reservations : lock[r] # l => lock'[r] = lock[r]
  BY <1>2, Closing DEF IInv
<1>4. \A r \in R : rows'[r].status = "ended" /\ rows'[r].capacity = rows[r].capacity
  BY <1>1, ZenonT(30) DEF Row
<1>5. "ended" \notin LIVE_STATUSES
  BY DEF LIVE_STATUSES
<1>6. \A r \in R : rows'[r] \in Row
  BY <1>1, ZenonT(30) DEF Row
<1> HIDE DEF R
<1>7. TypeOK'
  BY <1>1, <1>2, Closing DEF IInv, TypeOK
<1>8. Times'
  BY <1>2, <1>3 DEF IInv, Times, InTime
<1>9. Held'
  <2>1. \A h \in Handlers : txn[h].pc \in {"locked", "counted"} =>
          /\ txn[h].id \in Reservations
          /\ lock[txn[h].id] = h
          /\ txn[h].id \notin R
    <3>1. SUFFICES ASSUME NEW h \in Handlers, txn[h].pc \in {"locked", "counted"}
          PROVE  /\ txn[h].id \in Reservations
                 /\ lock[txn[h].id] = h
                 /\ txn[h].id \notin R
      OBVIOUS
    <3>2. txn[h].id \in Reservations
      BY <3>1, TxnTyped DEF IInv, Txn
    <3>3. lock[txn[h].id] = h /\ h # l
      BY <3>1, ReservationAssumption DEF IInv, Held
    <3> QED
      BY <1>1, <3>2, <3>3
  <2>2. \A h \in Handlers : txn[h].pc \in {"locked", "counted"} =>
          /\ lock'[txn[h].id] = h
          /\ rows'[txn[h].id] = rows[txn[h].id]
          /\ seats'[txn[h].id] = seats[txn[h].id]
    BY <1>1, <1>3, <2>1, ReservationAssumption
  <2>3. txn' = txn
    BY <1>2
  <2> QED
    BY <2>2, <2>3 DEF IInv, Held
<1>10. Released'
  <2>1. SUFFICES ASSUME NEW k \in Listers, sweep'[k].pc \in {"retire", "commit"},
                        NEW r \in Reservations, NEW u \in Users
        PROVE  <<r, u>> \in sweep'[k].released <=>
                 Finished(rows'[r], sweep'[k].now) /\ u \in seats'[r]
    BY DEF Released
  <2>2. k # l /\ sweep'[k] = sweep[k]
    BY <1>2, <1>3, <2>1
  <2>3. CASE r \notin R
    BY <1>1, <2>1, <2>2, <2>3 DEF IInv, Released
  <2>4. CASE r \in R
    <3>1. <<r, u>> \notin sweep[k].released
      <4>1. SUFFICES ASSUME <<r, u>> \in sweep[k].released PROVE FALSE
        OBVIOUS
      <4>2. u \in seats[r]
        BY <2>1, <2>2, <4>1 DEF IInv, Released
      <4>3. <<r, u>> \in sweep[l].released
        BY <1>1, <1>2, <2>4, <4>2 DEF IInv, Released
      <4> QED
        BY <1>2, <2>1, <2>2, <4>1, <4>3 DEF IInv, Apart
    <3> QED
      BY <1>1, <2>2, <2>4, <3>1
  <2> QED
    BY <2>3, <2>4
<1>11. Retired'
  <2>1. SUFFICES ASSUME NEW k \in Listers, sweep'[k].pc = "commit"
        PROVE  /\ \A r \in sweep'[k].retiring : lock'[r] = k /\ Finished(rows'[r], sweep'[k].now)
               /\ \A r \in Reservations, u \in Users :
                    <<r, u>> \in sweep'[k].released => r \in sweep'[k].retiring
    BY DEF Retired
  <2>2. k # l /\ sweep'[k] = sweep[k] /\ sweep[k] \in Sweep
    BY <1>2, <1>3, <2>1, SweepTyped DEF IInv
  <2>3. sweep[k].retiring \in SUBSET Reservations
    BY <2>2 DEF Sweep
  <2>4. \A r \in sweep[k].retiring : lock[r] = k /\ Finished(rows[r], sweep[k].now)
    BY <2>1, <2>2 DEF IInv, Retired
  <2>5. \A r \in sweep[k].retiring : lock'[r] = k /\ rows'[r] = rows[r]
    BY <1>1, <1>3, <2>2, <2>3, <2>4
  <2>6. \A r \in Reservations, u \in Users :
          <<r, u>> \in sweep[k].released => r \in sweep[k].retiring
    BY <2>1, <2>2 DEF IInv, Retired
  <2> QED
    BY <2>2, <2>4, <2>5, <2>6
<1>12. Apart'
  BY <1>2, <1>3 DEF IInv, Apart
<1>13. CapacityRespected'
  <2>1. SUFFICES ASSUME NEW r \in Reservations, rows'[r] # NoRow
        PROVE  Cardinality(seats'[r]) <= rows'[r].capacity
    BY DEF CapacityRespected
  <2>2. CASE r \in R
    <3>1. Cardinality(seats'[r]) = 0
      BY <1>1, <2>2, FS_EmptySet
    <3>2. rows'[r].capacity \in Nat
      BY <1>6, <2>2 DEF Row
    <3> QED
      BY <3>1, <3>2
  <2>3. CASE r \notin R
    BY <1>1, <2>1, <2>3 DEF IInv, CapacityRespected
  <2> QED
    BY <2>2, <2>3
<1>14. StatusMatchesSeats'
  BY <1>1, <1>4, <1>5 DEF IInv, StatusMatchesSeats
<1> QED
  BY <1>7, <1>8, <1>9, <1>10, <1>11, <1>12, <1>13, <1>14 DEF IInv

LEMMA NextInv == IInv /\ [Next]_vars => IInv'
<1> SUFFICES ASSUME IInv, [Next]_vars PROVE IInv'
  OBVIOUS
<1>1. CASE \E r \in Reservations, u \in Users, c \in Offers : Create(r, u, c)
  BY <1>1, CreateInv
<1>2. ASSUME NEW h \in Handlers, NEW r \in Reservations, NEW u \in Users, NEW p \in Patches,
             BeginUpdate(h, r, u, p)
      PROVE  IInv'
  <2>1. txn[h].pc = "idle" /\ UNCHANGED <<clock, rows, seats, lock, sweep>> /\ "update" \in Ops
    BY <1>2 DEF BeginUpdate, Ops
  <2>2. \A s \in Bookable(clock) : s \in Nat
    BY DEF Bookable
  <2>3. \/ Open(h, "update", r, u, p, Keep)
        \/ \E s \in Bookable(clock) : Open(h, "update", r, u, p, s)
    BY <1>2 DEF BeginUpdate
  <2>4. PICK s \in Nat \cup {Keep} : Open(h, "update", r, u, p, s)
    BY <2>2, <2>3
  <2> QED
    BY <2>1, <2>4, OpenInv
<1>3. ASSUME NEW h \in Handlers, NEW r \in Reservations, NEW u \in Users, NEW op \in Ops,
             Begin(h, op, r, u)
      PROVE  IInv'
  BY <1>3, OpenInv DEF Begin
<1>4. ASSUME NEW h \in Handlers, Lock(h) \/ Handle(h) \/ Abort(h)
      PROVE  IInv'
  <2>1. CASE Refuse(h) \/ Abort(h)
    BY <2>1, QuietEnd DEF Refuse, Abort
  <2> QED
    BY <1>4, <2>1, LockInv, CountInv, ApplyUpdateInv, ApplyJoinInv, ApplyLeaveInv, ApplyCancelInv
       DEF Handle
<1>5. ASSUME NEW l \in Listers, ListBegin(l) \/ ListStep(l) \/ ListAbort(l)
      PROVE  IInv'
  BY <1>5, ListBeginInv, ListReleaseInv, ListRetireInv, ListCommitInv, ListAbortInv DEF ListStep
<1>6. CASE Tick
  BY <1>6, TickInv
<1>7. CASE UNCHANGED vars
  <2>1. TypeOK' /\ Times' /\ Held' /\ CapacityRespected' /\ StatusMatchesSeats'
    BY <1>7, SameBoard DEF vars, IInv, TypeOK, Times, InTime, Held
  <2>2. Released' /\ Retired' /\ Apart'
    BY <1>7, SameSweeps DEF vars, IInv
  <2> QED
    BY <2>1, <2>2 DEF IInv
<1> QED
  BY <1>1, <1>2, <1>3, <1>4, <1>5, <1>6, <1>7 DEF Next

LEMMA IInvAlways == Spec => []IInv
BY InitInv, NextInv, PTL DEF Spec

----------------------------------------------------------------------------
(* Invariants *)

\* Every reservation, lock, request and listing has its type: what a handler
\* keeps between its statements is a row, a count and a subject as the
\* repository's methods hand them on.
THEOREM TypeCorrect == Spec => []TypeOK
<1>1. IInv => TypeOK
  BY DEF IInv
<1> QED
  BY <1>1, IInvAlways, PTL

\* However many requests and listings overlap, no reservation seats more than
\* its capacity: join_reservation counts under the row lock, and
\* update_reservation edits the capacity only while it counts nobody.
THEOREM CapacityNeverExceeded == Spec => []CapacityRespected
<1>1. IInv => CapacityRespected
  BY DEF IInv
<1> QED
  BY <1>1, IInvAlways, PTL

\* status_for and _release_participants keep status and seats in agreement: a
\* live reservation is matched exactly when it is full, and one that is over
\* seats nobody, although the listing that ends it released its seats before it
\* had locked the row.
THEOREM StatusFollowsSeats == Spec => []StatusMatchesSeats
<1>1. IInv => StatusMatchesSeats
  BY DEF IInv
<1> QED
  BY <1>1, IInvAlways, PTL

----------------------------------------------------------------------------
(* Each transaction is one step of the board *)

LEMMA SameCardinality == \A S : Board!Cardinality(S) = Cardinality(S)
BY DEF Cardinality, Board!Cardinality

LEMMA CreateBooks ==
  ASSUME TypeOK, NEW r \in Reservations, NEW u \in Users, NEW c \in Offers, Create(r, u, c)
  PROVE  Board!Book(r)
<1>1. PICK s :
        rows' = [rows EXCEPT ![r] = [status |-> "open", host |-> u, start |-> s, type |-> c.type,
                                     ranked |-> c.ranked, capacity |-> c.capacity]]
  BY DEF Create
<1>2. rows'[r].status = "open" /\ rows' = [rows EXCEPT ![r] = rows'[r]]
  BY <1>1 DEF TypeOK
<1>3. rows[r] = Board!NoRow /\ UNCHANGED seats
  BY DEF Create, NoRow, Board!NoRow
<1> QED
  BY <1>2, <1>3 DEF Board!Book

LEMMA UpdateEdits ==
  ASSUME IInv, NEW h \in Handlers, ApplyUpdate(h)
  PROVE  \E r \in Reservations : Board!Edit(r)
<1> DEFINE t == txn[h]
           r == t.id
           row == [Merged(t.row, t.patch) EXCEPT !.start = Over(t.start, @)]
<1>1. t.pc = "counted" /\ t.op = "update" /\ Allowed(t)
  BY DEF ApplyUpdate, Ready
<1>2. /\ t \in Txn /\ r \in Reservations /\ t.row = rows[r] /\ rows[r] \in Row
      /\ rows[r].status \in LIVE_STATUSES /\ t.count = Cardinality(seats[r])
  BY <1>1, AllowedKnows
<1>3. t.count = 0
  BY <1>1 DEF Allowed, Editable
<1>4. seats[r] = {}
  BY <1>2, <1>3, SeatsFinite, FS_EmptySet DEF IInv
<1>5. row.status = rows[r].status /\ row.host = rows[r].host
  BY <1>2 DEF Merged, Row
<1>6. rows' = [rows EXCEPT ![r] = row] /\ UNCHANGED seats
  BY DEF ApplyUpdate
<1> HIDE DEF row
<1>7. rows'[r] = row
  BY <1>2, <1>6 DEF IInv, TypeOK
<1>8. Board!Edit(r)
  BY <1>2, <1>4, <1>5, <1>6, <1>7 DEF Board!Edit, Board!Live, LIVE_STATUSES
<1> QED
  BY <1>2, <1>8

LEMMA JoinJoins ==
  ASSUME IInv, NEW h \in Handlers, ApplyJoin(h)
  PROVE  \E r \in Reservations, u \in Users : Board!Join(r, u)
<1> DEFINE t == txn[h]
           r == t.id
<1>1. t.pc = "counted" /\ t.op = "join" /\ Allowed(t) /\ t.user \notin seats[r]
  BY DEF ApplyJoin, Ready, SeatTaken
<1>2. /\ t \in Txn /\ r \in Reservations /\ t.row = rows[r] /\ rows[r] \in Row
      /\ rows[r].status \in LIVE_STATUSES /\ t.count = Cardinality(seats[r])
  BY <1>1, AllowedKnows
<1>3. t.user \in Users /\ t.user # rows[r].host /\ Cardinality(seats[r]) < rows[r].capacity
  BY <1>1, <1>2 DEF Allowed, JoinableBy, Joinable, Txn
<1>4. /\ seats' = [seats EXCEPT ![r] = seats[r] \cup {t.user}]
      /\ rows' = [rows EXCEPT ![r] = [t.row EXCEPT !.status = StatusFor(t.count + 1, t.row.capacity)]]
  BY DEF ApplyJoin
<1>5. rows' = [rows EXCEPT ![r].status =
                 Board!Filled(Board!Cardinality(seats[r]) + 1, rows[r].capacity)]
  BY <1>2, <1>4, SameCardinality DEF StatusFor, Board!Filled
<1> HIDE DEF r, t
<1>6. Board!Join(r, t.user)
  BY <1>1, <1>2, <1>3, <1>4, <1>5, SameCardinality DEF Board!Join, Board!Live, LIVE_STATUSES
<1> QED
  BY <1>2, <1>3, <1>6

LEMMA LeaveLeaves ==
  ASSUME IInv, NEW h \in Handlers, ApplyLeave(h)
  PROVE  \E r \in Reservations, u \in Users : Board!Leave(r, u)
<1> DEFINE t == txn[h]
           r == t.id
           left == seats[r] \ {t.user}
<1>1. t.pc = "counted" /\ t.op = "leave" /\ Allowed(t)
  BY DEF ApplyLeave, Ready
<1>2. /\ t \in Txn /\ r \in Reservations /\ t.row = rows[r]
      /\ rows[r].status \in LIVE_STATUSES
      /\ t.mine = (t.user \in seats[r])
  BY <1>1, AllowedKnows
<1>3. t.user \in Users /\ t.mine
  BY <1>1, <1>2 DEF Allowed, Leavable, Txn
<1>4. t.user \in seats[r]
  BY <1>2, <1>3, Zenon
<1>5. /\ seats' = [seats EXCEPT ![r] = seats[r] \ {t.user}]
      /\ rows' = [rows EXCEPT ![r] = [t.row EXCEPT !.status =
                                        StatusFor(Cardinality(left), t.row.capacity)]]
  BY DEF ApplyLeave
<1>6. rows' = [rows EXCEPT ![r].status =
                 Board!Filled(Board!Cardinality(seats[r] \ {t.user}), rows[r].capacity)]
  BY <1>2, <1>5, SameCardinality DEF StatusFor, Board!Filled
<1> HIDE DEF r, t, left
<1>7. Board!Leave(r, t.user)
  BY <1>2, <1>4, <1>5, <1>6 DEF Board!Leave, Board!Live, LIVE_STATUSES
<1> QED
  BY <1>2, <1>3, <1>7

LEMMA CancelCancels ==
  ASSUME IInv, NEW h \in Handlers, ApplyCancel(h)
  PROVE  \E r \in Reservations : Board!Cancel(r)
<1> DEFINE t == txn[h]
           r == t.id
<1>1. t.pc = "counted" /\ Allowed(t)
  BY DEF ApplyCancel, Ready
<1>2. r \in Reservations /\ t.row = rows[r] /\ rows[r].status \in LIVE_STATUSES
  BY <1>1, AllowedKnows
<1>3. /\ seats' = [seats EXCEPT ![r] = {}]
      /\ rows' = [rows EXCEPT ![r] = [t.row EXCEPT !.status = "cancelled"]]
  BY DEF ApplyCancel
<1>4. Board!Cancel(r)
  BY <1>2, <1>3 DEF Board!Cancel, Board!Live, LIVE_STATUSES
<1> QED
  BY <1>2, <1>4

LEMMA CommitRetires ==
  ASSUME IInv, NEW l \in Listers, ListCommit(l)
  PROVE  Board!Retire
<1> DEFINE R == sweep[l].retiring
<1>1. R \in SUBSET Reservations
  BY CommitEffect
<1>2. \A r \in R : Board!Live(r)
  BY CommitEffect DEF Finished, Board!Live, LIVE_STATUSES
<1>3. rows' = [r \in Reservations |->
                 IF r \in R THEN [rows[r] EXCEPT !.status = "ended"] ELSE rows[r]]
  BY DEF ListCommit
<1>4. seats' \in [Reservations -> SUBSET Users]
  BY CommitEffect
<1>5. \A r \in Reservations : seats'[r] = IF r \in R THEN {} ELSE seats[r]
  BY CommitEffect
<1>6. seats' = [r \in Reservations |-> IF r \in R THEN {} ELSE seats[r]]
  BY <1>4, <1>5
<1> QED
  BY <1>1, <1>2, <1>3, <1>6 DEF Board!Retire

\* Every step but the six above leaves the board alone.
LEMMA BoardStep == IInv /\ [Next]_vars => [Board!Next]_(Board!vars)
<1> SUFFICES ASSUME IInv, [Next]_vars PROVE [Board!Next]_(Board!vars)
  OBVIOUS
<1>1. CASE \E r \in Reservations, u \in Users, c \in Offers : Create(r, u, c)
  BY <1>1, CreateBooks DEF IInv, Board!Next
<1>2. CASE \E h \in Handlers, r \in Reservations, u \in Users :
             \/ \E p \in Patches : BeginUpdate(h, r, u, p)
             \/ \E op \in Ops : Begin(h, op, r, u)
  BY <1>2 DEF BeginUpdate, Begin, Board!vars
<1>3. ASSUME NEW h \in Handlers, Lock(h) \/ Handle(h) \/ Abort(h)
      PROVE  [Board!Next]_(Board!vars)
  <2>1. CASE Lock(h) \/ Count(h) \/ Refuse(h) \/ Abort(h)
    BY <2>1 DEF Lock, Count, Refuse, Abort, Board!vars
  <2> QED
    BY <1>3, <2>1, UpdateEdits, JoinJoins, LeaveLeaves, CancelCancels DEF Handle, Board!Next
<1>4. ASSUME NEW l \in Listers, ListBegin(l) \/ ListStep(l) \/ ListAbort(l)
      PROVE  [Board!Next]_(Board!vars)
  <2>1. CASE ListBegin(l) \/ ListRelease(l) \/ ListRetire(l) \/ ListAbort(l)
    BY <2>1 DEF ListBegin, ListRelease, ListRetire, ListAbort, Board!vars
  <2> QED
    BY <1>4, <2>1, CommitRetires DEF ListStep, Board!Next
<1>5. CASE Tick \/ UNCHANGED vars
  BY <1>5 DEF Tick, vars, Board!vars
<1> QED
  BY <1>1, <1>2, <1>3, <1>4, <1>5 DEF Next

\* Whatever the interleaving of requests and listings, what they do to the rows
\* and the seats is a sequence of indivisible operations on the board, each of
\* them right on the board as it is then: the transactions of the repository,
\* with their row locks and their rereading, hide each other.
THEOREM ImplementsBoard == Spec => ActsOnBoard
<1>1. Init => Board!Init
  BY DEF Init, Board!Init, NoRow, Board!NoRow
<1> QED
  BY <1>1, BoardStep, IInvAlways, PTL DEF Spec, ActsOnBoard, Board!Spec

----------------------------------------------------------------------------
(* What no step may do *)

\* A row that changes was live; and unless it changes in nothing but its
\* status, nobody is seated.
ChangesLive(r) == rows[r].status \in {"cancelled", "ended"} => rows'[r] = rows[r]
ChangesEmpty(r) ==
  rows'[r] # [rows[r] EXCEPT !.status = rows'[r].status] => seats[r] = {} /\ seats'[r] = {}

LEMMA BoardChanges ==
  ASSUME TypeOK, [Board!Next]_(Board!vars), NEW r \in Reservations, rows[r] # NoRow
  PROVE  ChangesLive(r) /\ ChangesEmpty(r)
<1>1. /\ rows \in [Reservations -> Row \cup {NoRow}] /\ seats \in [Reservations -> SUBSET Users]
      /\ rows[r] \in Row
  BY DEF TypeOK
<1>2. rows[r] = [rows[r] EXCEPT !.status = rows[r].status]
  BY <1>1 DEF Row
<1>3. ASSUME NEW q \in Reservations, Board!Book(q) PROVE ChangesLive(r) /\ ChangesEmpty(r)
  <2>1. q # r /\ rows' = [rows EXCEPT ![q] = rows'[q]]
    BY <1>3 DEF Board!Book, NoRow, Board!NoRow
  <2>2. rows'[r] = rows[r]
    BY <1>1, <2>1
  <2> QED
    BY <1>2, <2>2 DEF ChangesLive, ChangesEmpty
<1>4. ASSUME NEW q \in Reservations, Board!Edit(q) PROVE ChangesLive(r) /\ ChangesEmpty(r)
  <2>1. /\ rows[q].status \in {"open", "matched"} /\ seats[q] = {} /\ seats' = seats
        /\ rows' = [rows EXCEPT ![q] = rows'[q]]
    BY <1>4 DEF Board!Edit, Board!Live
  <2>2. q # r => rows'[r] = rows[r]
    BY <1>1, <2>1
  <2> QED
    BY <1>2, <2>1, <2>2 DEF ChangesLive, ChangesEmpty
<1>5. ASSUME NEW q \in Reservations, NEW s \in {"open", "matched", "cancelled"}, rows[q].status \in {"open", "matched"},
             rows' = [rows EXCEPT ![q].status = s]
      PROVE  ChangesLive(r) /\ ChangesEmpty(r)
  <2>1. CASE q = r
    <3>1. rows'[r] = [rows[r] EXCEPT !.status = s]
      BY <1>1, <1>5, <2>1
    <3>2. rows'[r] = [rows[r] EXCEPT !.status = rows'[r].status]
      BY <1>1, <3>1 DEF Row
    <3> QED
      BY <1>5, <2>1, <3>2 DEF ChangesLive, ChangesEmpty
  <2>2. CASE q # r
    BY <1>1, <1>2, <1>5, <2>2 DEF ChangesLive, ChangesEmpty
  <2> QED
    BY <2>1, <2>2
<1>6. ASSUME NEW q \in Reservations, Board!Cancel(q) PROVE ChangesLive(r) /\ ChangesEmpty(r)
  BY <1>5, <1>6 DEF Board!Cancel, Board!Live
<1>7. ASSUME NEW q \in Reservations, NEW u \in Users, Board!Join(q, u) \/ Board!Leave(q, u)
      PROVE  ChangesLive(r) /\ ChangesEmpty(r)
  BY <1>5, <1>7 DEF Board!Join, Board!Leave, Board!Live, Board!Filled
<1>8. CASE Board!Retire
  <2>1. PICK R \in SUBSET Reservations :
          /\ \A q \in R : rows[q].status \in {"open", "matched"}
          /\ rows' = [q \in Reservations |->
                        IF q \in R THEN [rows[q] EXCEPT !.status = "ended"] ELSE rows[q]]
    BY <1>8 DEF Board!Retire, Board!Live
  <2>2. CASE r \in R
    <3>1. rows'[r] = [rows[r] EXCEPT !.status = "ended"]
      BY <2>1, <2>2
    <3>2. rows'[r] = [rows[r] EXCEPT !.status = rows'[r].status]
      BY <1>1, <3>1 DEF Row
    <3> QED
      BY <2>1, <2>2, <3>2 DEF ChangesLive, ChangesEmpty
  <2>3. CASE r \notin R
    BY <1>2, <2>1, <2>3 DEF ChangesLive, ChangesEmpty
  <2> QED
    BY <2>2, <2>3
<1>9. CASE UNCHANGED Board!vars
  BY <1>2, <1>9 DEF Board!vars, ChangesLive, ChangesEmpty
<1>10. CASE Board!Next
  BY <1>3, <1>4, <1>6, <1>7, <1>8, <1>10 DEF Board!Next
<1> QED
  BY <1>9, <1>10

LEMMA EndedStays ==
  ASSUME IInv, [Next]_vars, NEW r \in Reservations, rows[r].status \in {"cancelled", "ended"}
  PROVE  rows'[r] = rows[r]
BY BoardStep, BoardChanges DEF IInv, ChangesLive, NoRow

\* What ends does so in time: a listing looks again at what it retires, a host
\* cancels what had not started when the request came, and nothing else ends.
LEMMA StepInTime ==
  ASSUME IInv, [Next]_vars, NEW r \in Reservations
  PROVE  /\ rows'[r].status = "ended" /\ rows[r].status # "ended" =>
              rows[r].start + LISTING_GRACE <= clock
         /\ rows'[r].status = "cancelled" /\ rows[r].status # "cancelled" =>
              clock < rows[r].start + TxnSpan
<1>1. rows \in [Reservations -> Row \cup {NoRow}] /\ clock \in Nat
  BY DEF IInv, TypeOK
<1>2. ASSUME NEW q \in Reservations, NEW row, rows' = [rows EXCEPT ![q] = row],
             row.status \in {"open", "matched"}
      PROVE  rows'[r].status \in {"ended", "cancelled"} => rows'[r].status = rows[r].status
  BY <1>1, <1>2
<1>3. ASSUME NEW q \in Reservations, NEW u \in Users, NEW c \in Offers, Create(q, u, c)
      PROVE  rows'[r].status \in {"ended", "cancelled"} => rows'[r].status = rows[r].status
  <2>1. PICK s :
          rows' = [rows EXCEPT ![q] = [status |-> "open", host |-> u, start |-> s, type |-> c.type,
                                       ranked |-> c.ranked, capacity |-> c.capacity]]
    BY <1>3 DEF Create
  <2> QED
    BY <1>1, <2>1
<1>4. ASSUME NEW h \in Handlers, ApplyUpdate(h) \/ ApplyJoin(h) \/ ApplyLeave(h)
      PROVE  rows'[r].status \in {"ended", "cancelled"} => rows'[r].status = rows[r].status
  <2> DEFINE t == txn[h]
             edited == [Merged(t.row, t.patch) EXCEPT !.start = Over(t.start, @)]
             joined == [t.row EXCEPT !.status = StatusFor(t.count + 1, t.row.capacity)]
             left == [t.row EXCEPT !.status =
                        StatusFor(Cardinality(seats[t.id] \ {t.user}), t.row.capacity)]
  <2>1. t.pc = "counted" /\ Allowed(t)
    BY <1>4 DEF ApplyUpdate, ApplyJoin, ApplyLeave, Ready
  <2>2. t.id \in Reservations /\ t.row \in Row /\ t.row.status \in {"open", "matched"}
    BY <2>1, AllowedKnows DEF LIVE_STATUSES
  <2>3. /\ edited.status \in {"open", "matched"}
        /\ joined.status \in {"open", "matched"}
        /\ left.status \in {"open", "matched"}
    BY <2>2 DEF Merged, StatusFor, Row
  <2>4. \/ rows' = [rows EXCEPT ![t.id] = edited]
        \/ rows' = [rows EXCEPT ![t.id] = joined]
        \/ rows' = [rows EXCEPT ![t.id] = left]
    BY <1>4 DEF ApplyUpdate, ApplyJoin, ApplyLeave
  <2> HIDE DEF edited, joined, left
  <2> QED
    BY <1>2, <2>2, <2>3, <2>4
<1>5. ASSUME NEW h \in Handlers, ApplyCancel(h), rows'[r].status # rows[r].status
      PROVE  rows'[r].status = "cancelled" /\ clock < rows[r].start + TxnSpan
  <2> DEFINE t == txn[h]
  <2>1. t.pc = "counted" /\ Allowed(t)
    BY <1>5 DEF ApplyCancel, Ready
  <2>2. /\ t \in Txn /\ t.id \in Reservations /\ t.row = rows[t.id] /\ rows[t.id] \in Row
        /\ t.now < rows[t.id].start
    BY <2>1, AllowedKnows
  <2>3. rows' = [rows EXCEPT ![t.id] = [t.row EXCEPT !.status = "cancelled"]]
    BY <1>5 DEF ApplyCancel
  <2>4. t.id = r /\ rows'[r].status = "cancelled"
    BY <1>1, <1>5, <2>2, <2>3 DEF Row
  <2>5. t.now \in Nat /\ rows[r].start \in Nat
    BY <2>2, <2>4 DEF Txn, Row
  <2>6. clock <= t.now + TxnSpan
    BY <2>1 DEF IInv, Times, InTime
  <2> QED
    BY <1>1, <2>2, <2>4, <2>5, <2>6, ReservationAssumption
<1>6. ASSUME NEW l \in Listers, ListCommit(l), rows'[r].status # rows[r].status
      PROVE  rows'[r].status = "ended" /\ rows[r].start + LISTING_GRACE <= clock
  <2>1. /\ r \in sweep[l].retiring => /\ rows[r] \in Row
                                      /\ Finished(rows[r], sweep[l].now)
                                      /\ rows'[r] = [rows[r] EXCEPT !.status = "ended"]
        /\ r \notin sweep[l].retiring => rows'[r] = rows[r]
        /\ sweep[l] \in Sweep
    BY <1>6, CommitEffect
  <2>2. rows[r] \in Row /\ Finished(rows[r], sweep[l].now)
        /\ rows'[r] = [rows[r] EXCEPT !.status = "ended"]
    BY <1>6, <2>1
  <2>3. rows'[r].status = "ended"
    BY <2>2 DEF Row
  <2>4. sweep[l].now <= clock
    BY <1>6 DEF ListCommit, IInv, Times, InTime
  <2>5. rows[r].start \in Nat /\ sweep[l].now \in Nat
    BY <2>1, <2>2 DEF Row, Sweep
  <2>6. rows[r].start + LISTING_GRACE <= sweep[l].now
    BY <2>2 DEF Finished
  <2> QED
    BY <1>1, <2>3, <2>4, <2>5, <2>6, ReservationAssumption
<1>7. ASSUME UNCHANGED rows
      PROVE  rows'[r].status = rows[r].status
  BY <1>7
<1>8. \/ UNCHANGED rows
      \/ \E q \in Reservations, u \in Users, c \in Offers : Create(q, u, c)
      \/ \E h \in Handlers : ApplyUpdate(h) \/ ApplyJoin(h) \/ ApplyLeave(h) \/ ApplyCancel(h)
      \/ \E l \in Listers : ListCommit(l)
  BY DEF Next, vars, BeginUpdate, Begin, Lock, Handle, Count, Refuse, Abort,
         ListBegin, ListStep, ListRelease, ListRetire, ListAbort, Tick
<1>9. CASE rows'[r].status = rows[r].status
  BY <1>9
<1>10. CASE rows'[r].status # rows[r].status
  <2>1. \/ rows'[r].status \notin {"ended", "cancelled"}
        \/ rows'[r].status = "cancelled" /\ clock < rows[r].start + TxnSpan
        \/ rows'[r].status = "ended" /\ rows[r].start + LISTING_GRACE <= clock
    BY <1>3, <1>4, <1>5, <1>6, <1>7, <1>8, <1>10
  <2> QED
    BY <2>1
<1> QED
  BY <1>9, <1>10

\* ensure_editable holds when the update writes and not only when it looked: the
\* start, the match type, the ranks and the capacity never change under a
\* participant.
THEOREM EditsOnlyWhenEmpty == Spec => NoEditUnderParticipant
<1>1. IInv /\ [Next]_vars =>
        \A r \in Reservations :
          rows[r] # NoRow /\ rows'[r] # [rows[r] EXCEPT !.status = rows'[r].status]
            => seats[r] = {} /\ seats'[r] = {}
  BY BoardStep, BoardChanges DEF IInv, ChangesEmpty
<1> QED
  BY <1>1, IInvAlways, PTL DEF Spec, NoEditUnderParticipant

\* A reservation that was cancelled or has ended stays so, whatever a request or
\* a listing had read of it before: each of them judges the row it has locked.
THEOREM EndsAreFinal == Spec => EndsOnce
<1>1. IInv /\ [Next]_vars =>
        \A r \in Reservations :
          rows[r].status \in {"cancelled", "ended"} => rows'[r] = rows[r]
  BY EndedStays
<1> QED
  BY <1>1, IInvAlways, PTL DEF Spec, EndsOnce

\* No listing ends a reservation before the grace hour after the start it has
\* then, and no host cancels one that had started when the request came.
THEOREM EndsAreInTime == Spec => EndsInTime
<1>1. IInv /\ [Next]_vars =>
        \A r \in Reservations :
          /\ rows'[r].status = "ended" /\ rows[r].status # "ended" =>
               rows[r].start + LISTING_GRACE <= clock
          /\ rows'[r].status = "cancelled" /\ rows[r].status # "cancelled" =>
               clock < rows[r].start + TxnSpan
  BY StepInTime
<1> QED
  BY <1>1, IInvAlways, PTL DEF Spec, EndsInTime

----------------------------------------------------------------------------
(* Comments *)

LEMMA CInitInv == CInit => IInv /\ CTypeOK
<1> SUFFICES ASSUME CInit PROVE IInv /\ CTypeOK
  OBVIOUS
<1>1. IInv
  BY InitInv DEF CInit
<1>2. comments \in Seq(Comment) /\ Len(comments) <= MaxComments
  BY MaxCommentsAssumption DEF CInit
<1> QED
  BY <1>1, <1>2 DEF CInit, CTypeOK, IInv

\* The comments a commenter may be about to erase stay comments.
LEMMA PostTyped ==
  ASSUME CTypeOK, NEW c \in Commenters, NEW t, post' = [post EXCEPT ![c] = t],
         DOMAIN comments \subseteq DOMAIN comments',
         t \in {NoTxn} \cup [pc : {"insert"}, id : Reservations, user : Users]
                       \cup [pc : {"erase"}, comment : DOMAIN comments']
  PROVE  post' \in [Commenters -> {NoTxn} \cup [pc : {"insert"}, id : Reservations, user : Users]
                                          \cup [pc : {"erase"}, comment : DOMAIN comments']]
<1>1. [pc : {"erase"}, comment : DOMAIN comments] \subseteq [pc : {"erase"}, comment : DOMAIN comments']
  OBVIOUS
<1> QED
  BY <1>1 DEF CTypeOK

\* What a step makes of the comments on cancelled reservations.
Silence == \A r \in Reservations : Silent(r) => Silent(r)' /\ CommentsOn(r)' = CommentsOn(r)

LEMMA CommentStep ==
  ASSUME IInv, CTypeOK, [CNext]_allvars
  PROVE  IInv' /\ CTypeOK' /\ Silence
<1> DEFINE Posted(cs) == {NoTxn} \cup [pc : {"insert"}, id : Reservations, user : Users]
                                 \cup [pc : {"erase"}, comment : DOMAIN cs]
<1>1. PICK len \in Nat : len = Len(comments) /\ DOMAIN comments = 1 .. len /\ len <= MaxComments
  BY DEF CTypeOK
<1>2. \A n \in DOMAIN comments : comments[n] \in Comment
  BY DEF CTypeOK
<1>3. ASSUME [Next]_vars, UNCHANGED <<comments, post>> PROVE Silence
  <2>1. \A r \in Reservations : rows[r].status = "cancelled" => rows'[r].status = "cancelled"
    BY <1>3, EndedStays
  <2> QED
    BY <1>3, <2>1 DEF Silence, Silent, CommentsOn
<1>5. ASSUME UNCHANGED vars PROVE IInv' /\ TypeOK'
  BY <1>5, NextInv DEF IInv
<1>6. CASE [Next]_vars /\ UNCHANGED <<comments, post>>
  BY <1>3, <1>6, NextInv DEF IInv, CTypeOK
<1>7. ASSUME NEW c \in Commenters, NEW t, post' = [post EXCEPT ![c] = t], UNCHANGED <<vars, comments>>,
             t \in Posted(comments), t.pc = "insert" => rows[t.id].status # "cancelled"
      PROVE  IInv' /\ CTypeOK' /\ Silence
  <2>1. post' \in [Commenters -> Posted(comments')]
    BY <1>7, PostTyped
  <2>2. UNCHANGED rows
    BY <1>7 DEF vars
  <2>3. post'[c] = t /\ \A d \in Commenters : d # c => post'[d] = post[d]
    BY <1>7 DEF CTypeOK
  <2>4. Silence
    BY <1>7, <2>2, <2>3 DEF Silence, Silent, CommentsOn
  <2> QED
    BY <1>5, <1>7, <2>1, <2>4 DEF CTypeOK
<1>8. ASSUME NEW c \in Commenters, NEW r \in Reservations, NEW u \in Users, BeginComment(c, r, u)
      PROVE  IInv' /\ CTypeOK' /\ Silence
  <2>1. PICK t : t = [pc |-> "insert", id |-> r, user |-> u]
    OBVIOUS
  <2>2. t \in Posted(comments) /\ rows[t.id].status # "cancelled"
    BY <1>8, <2>1 DEF BeginComment, Commentable
  <2> QED
    BY <1>7, <1>8, <2>1, <2>2 DEF BeginComment
<1>9. ASSUME NEW c \in Commenters, NEW n \in DOMAIN comments, NEW u \in Users, NEW admin \in BOOLEAN,
             BeginDelete(c, n, u, admin)
      PROVE  IInv' /\ CTypeOK' /\ Silence
  BY <1>7, <1>9 DEF BeginDelete
<1>10. ASSUME NEW c \in Commenters, AbortComment(c) PROVE IInv' /\ CTypeOK' /\ Silence
  BY <1>7, <1>10 DEF AbortComment, Close, NoTxn
<1>11. ASSUME NEW c \in Commenters, InsertComment(c) PROVE IInv' /\ CTypeOK' /\ Silence
  <2>1. PICK row : row = [id |-> post[c].id, author |-> post[c].user, deleted |-> FALSE]
    OBVIOUS
  <2>2. comments' = Append(comments, row) /\ post' = [post EXCEPT ![c] = NoTxn] /\ UNCHANGED vars
        /\ len < MaxComments
    BY <1>1, <1>11, <2>1 DEF InsertComment, Close
  <2>3. post[c].id \in Reservations /\ post[c].user \in Users
    BY <1>11 DEF InsertComment, CTypeOK, NoTxn
  <2>4. row \in Comment
    BY <2>1, <2>3 DEF Comment
  <2>5. comments' \in Seq(Comment) /\ Len(comments') = len + 1 /\ DOMAIN comments' = 1 .. len + 1
        /\ \A n \in 1 .. len : comments'[n] = comments[n]
    BY <1>1, <2>2, <2>4 DEF CTypeOK
  <2>6. DOMAIN comments \subseteq DOMAIN comments' /\ Len(comments') <= MaxComments
    BY <1>1, <2>2, <2>5, MaxCommentsAssumption
  <2>7. post' \in [Commenters -> Posted(comments')]
    BY <2>2, <2>6, PostTyped
  <2>8. Silence
    <3>1. post[c].pc = "insert" /\ row.id = post[c].id /\ UNCHANGED rows
      BY <1>11, <2>1, <2>2 DEF InsertComment, vars
    <3>2. \A d \in Commenters : post'[d].pc = "insert" => post'[d] = post[d]
      BY <2>2 DEF CTypeOK, NoTxn
    <3>3. \A r \in Reservations : r # row.id => CommentsOn(r)' = CommentsOn(r)
      BY <1>1, <2>2, <2>5, <2>4 DEF CommentsOn
    <3> QED
      BY <3>1, <3>2, <3>3 DEF Silence, Silent
  <2> QED
    BY <1>5, <2>2, <2>5, <2>6, <2>7, <2>8 DEF CTypeOK
<1>12. ASSUME NEW c \in Commenters, Erase(c) PROVE IInv' /\ CTypeOK' /\ Silence
  <2>1. PICK m : m = post[c].comment
    OBVIOUS
  <2>2. m \in DOMAIN comments /\ comments[m] \in Comment
    BY <1>2, <1>12, <2>1 DEF Erase, CTypeOK, NoTxn
  <2>3. PICK row : row = [comments[m] EXCEPT !.deleted = TRUE]
    OBVIOUS
  <2>4. comments' = [comments EXCEPT ![m] = row] /\ post' = [post EXCEPT ![c] = NoTxn] /\ UNCHANGED vars
    BY <1>12, <2>1, <2>3 DEF Erase, Close
  <2>5. row \in Comment /\ row.deleted /\ row = [comments[m] EXCEPT !.deleted = row.deleted]
    BY <2>2, <2>3 DEF Comment
  <2>6. comments' \in Seq(Comment) /\ DOMAIN comments' = DOMAIN comments /\ Len(comments') = len
    BY <1>1, <2>2, <2>4, <2>5 DEF CTypeOK
  <2>7. post' \in [Commenters -> Posted(comments')]
    BY <2>4, <2>6, PostTyped
  <2>8. Silence
    <3>1. \A n \in DOMAIN comments : comments'[n].id = comments[n].id
      BY <2>2, <2>3, <2>4 DEF Comment
    <3>2. UNCHANGED rows /\ \A d \in Commenters : post'[d].pc = "insert" => post'[d] = post[d]
      BY <2>4 DEF CTypeOK, NoTxn, vars
    <3>3. \A r \in Reservations : CommentsOn(r)' = CommentsOn(r)
      BY <2>6, <3>1 DEF CommentsOn
    <3> QED
      BY <3>2, <3>3 DEF Silence, Silent
  <2> QED
    BY <1>1, <1>5, <2>4, <2>6, <2>7, <2>8 DEF CTypeOK
<1> HIDE DEF Posted
<1>13. CASE UNCHANGED allvars
  BY <1>6, <1>13 DEF allvars
<1> QED
  BY <1>6, <1>8, <1>9, <1>10, <1>11, <1>12, <1>13 DEF CNext

LEMMA CInvAlways == CSpec => [](IInv /\ CTypeOK)
<1>1. (IInv /\ CTypeOK) /\ [CNext]_allvars => (IInv /\ CTypeOK)'
  BY CommentStep
<1> QED
  BY <1>1, CInitInv, PTL DEF CSpec

\* The types, comments and their requests included.
THEOREM CommentsAreTyped == CSpec => []CTypeOK
BY CInvAlways, PTL

\* For any reservations, requests and bounds: once the comments that were under way
\* at a cancellation are over, none appears on the reservation again.
THEOREM CancelledStaysSilent == CSpec => CancelledFallsSilent
<1>1. (IInv /\ CTypeOK) /\ [CNext]_allvars => [Silence]_allvars
  BY CommentStep
<1>2. CSpec => [][Silence]_allvars
  BY <1>1, CInvAlways, PTL DEF CSpec
<1> QED
  BY <1>2 DEF CancelledFallsSilent, Silence
=============================================================================
