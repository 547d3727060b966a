---------------------------- MODULE Reservation ----------------------------
(***************************************************************************)
(* Reservations and their seats (reservation/service.py, domain.py and     *)
(* adapters/postgresql.py).                                                *)
(*                                                                         *)
(* A handler runs one PATCH, join, leave or cancel request: a transaction  *)
(* that captures the time, locks the reservation's row (SELECT ... FOR     *)
(* UPDATE), reads the seats, checks and writes.  A lister runs one GET of  *)
(* the listing: a transaction that releases the seats of every finished    *)
(* reservation in one statement, marks the reservations in the next, and   *)
(* takes the row locks only then.  All of them overlap freely.             *)
(*                                                                         *)
(* rows and seats are the committed data.  What a transaction wrote before *)
(* its commit is visible to nobody, so the last statements of a handler    *)
(* and its commit are one step.                                            *)
(***************************************************************************)
EXTENDS Naturals, FiniteSets

CONSTANTS
  Reservations,   \* ids of reservation rows
  Users,          \* subjects (RPCN usernames)
  Handlers,       \* concurrent PATCH, join, leave and cancel requests
  Listers,        \* concurrent listing requests
  Offers,         \* conditions users post: [type, ranked, capacity]
  Patches,        \* edits hosts send: [type, ranked, capacity, move], Keep where absent
  Keep,           \* a field the patch leaves alone
  Free,           \* nobody holds the row lock
  LEAD_TIME, LISTING_GRACE,
  DayLength,      \* distance from one 06:00 to the next
  TxnSpan,        \* the longest a transaction outlives the time it captured
  MaxTime         \* bound on the clock

MatchTypes == {"rank_match", "player_match", "any"}
Conditions == [type : MatchTypes, ranked : BOOLEAN, capacity : Nat \ {0}]
Patch == [type : MatchTypes \cup {Keep}, ranked : BOOLEAN \cup {Keep},
          capacity : (Nat \ {0}) \cup {Keep}, move : BOOLEAN]

ASSUME ReservationAssumption ==
  /\ LEAD_TIME \in Nat /\ LISTING_GRACE \in Nat /\ TxnSpan \in Nat /\ MaxTime \in Nat
  /\ DayLength \in Nat \ {0}
  /\ TxnSpan <= LISTING_GRACE
  /\ Free \notin Handlers \cup Listers
  /\ Handlers \cap Listers = {}
  /\ IsFiniteSet(Users)
  /\ \A c \in Offers : c \in Conditions
  /\ \A p \in Patches : p \in Patch

VARIABLES
  clock,  \* now, as every clock read sees it
  rows,   \* per id, the reservation row
  seats,  \* per id, the subjects whose participant row is not cancelled
  lock,   \* per id, the transaction holding the row lock
  txn,    \* per handler, its open transaction
  sweep   \* per lister, its open transaction

vars == <<clock, rows, seats, lock, txn, sweep>>

----------------------------------------------------------------------------
(* Domain rules *)

LIVE_STATUSES == {"open", "matched"}
NoRow == [status |-> "absent"]
Row == [status : {"open", "matched", "cancelled", "ended"}, host : Users, start : Nat,
        type : MatchTypes, ranked : BOOLEAN, capacity : Nat \ {0}]

\* The next 06:00, 06:00 itself belonging to the day it begins.
WindowEnd(now) == (now \div DayLength + 1) * DayLength

\* The instants a wall-clock time may denote for start_at_from to accept it.
Bookable(now) == {s \in 0 .. MaxTime + DayLength : now + LEAD_TIME <= s /\ s < WindowEnd(now)}

ConditionsValid(c) ==
  /\ c.type = "rank_match" => c.ranked /\ c.capacity = 1
  /\ c.type = "player_match" => ~c.ranked

\* (Definitions named ...Wrong are mistakes the code does not make.)
StatusForWrong(n, capacity) == IF n > capacity THEN "matched" ELSE "open"
StatusFor(n, capacity) == IF n >= capacity THEN "matched" ELSE "open"

Joinable(row, count, now) == row.status = "open" /\ now < row.start /\ count < row.capacity
JoinableBy(row, u, mine) == row.host # u /\ ~mine
EditableWrong(row, count, now) == row.status \in LIVE_STATUSES /\ now < row.start
Editable(row, count, now) == row.status \in LIVE_STATUSES /\ now < row.start /\ count = 0
Leavable(row, now, mine) == row.status \in LIVE_STATUSES /\ now < row.start /\ mine
Cancellable(row, u, now) == row.host = u /\ row.status \in LIVE_STATUSES /\ now < row.start

\* Finished at the start, without the grace hour; or without looking at the status.
FinishedEarlyWrong(row, now) == row.status \in LIVE_STATUSES /\ row.start <= now
FinishedAgainWrong(row, now) == row.status # "absent" /\ row.start + LISTING_GRACE <= now
Finished(row, now) == row.status \in LIVE_STATUSES /\ row.start + LISTING_GRACE <= now

\* A patch over the conditions a row has: absent fields stay.
Over(new, old) == IF new = Keep THEN old ELSE new
Merged(row, p) ==
  [row EXCEPT !.type = Over(p.type, @), !.ranked = Over(p.ranked, @),
              !.capacity = Over(p.capacity, @)]

----------------------------------------------------------------------------
(* State *)

Ops == {"update", "join", "leave", "cancel"}
NoTxn == [pc |-> "idle"]
Txn == [pc : {"lock", "locked", "counted"}, op : Ops, id : Reservations, user : Users, now : Nat,
        patch : Patches \cup {Keep},  \* Keep unless op is update
        start : Nat \cup {Keep},      \* the instant an update moves to
        row : Row \cup {NoRow},       \* the row as the lock found it
        count : Nat,                  \* seats counted after locking
        mine : BOOLEAN]               \* whether the subject had one of them

Sweep == [pc : {"release", "retire", "commit"}, now : Nat,
          released : SUBSET (Reservations \X Users),  \* seats the transaction cancelled
          retiring : SUBSET Reservations]             \* rows it marked ended

Init ==
  /\ clock = 0
  /\ rows = [r \in Reservations |-> NoRow]
  /\ seats = [r \in Reservations |-> {}]
  /\ lock = [r \in Reservations |-> Free]
  /\ txn = [h \in Handlers |-> NoTxn]
  /\ sweep = [l \in Listers |-> NoTxn]

\* A transaction that is over holds no lock.
Unlocked(t) == [r \in Reservations |-> IF lock[r] = t THEN Free ELSE lock[r]]

Finish(h) ==
  /\ txn' = [txn EXCEPT ![h] = NoTxn]
  /\ lock' = Unlocked(h)

\* An uncommitted listing has cancelled seats of r: their rows are locked.
SeatsLocked(r) ==
  \E l \in Listers : sweep[l].pc \in {"retire", "commit"} /\ \E u \in Users : <<r, u>> \in sweep[l].released

----------------------------------------------------------------------------
(* Posting *)

\* create: the start is resolved at a time captured up to TxnSpan ago, and the
\* INSERT depends on nothing else.  (That a retry does not post twice is the
\* subject of Idempotency.)
Create(r, u, c) ==
  /\ rows[r] = NoRow
  /\ ConditionsValid(c)
  /\ \E now \in 0 .. clock : \E s \in Bookable(now) :
       /\ clock <= now + TxnSpan
       /\ rows' = [rows EXCEPT ![r] = [status |-> "open", host |-> u, start |-> s, type |-> c.type,
                                       ranked |-> c.ranked, capacity |-> c.capacity]]
  /\ UNCHANGED <<clock, seats, lock, txn, sweep>>

----------------------------------------------------------------------------
(* Requests on one reservation *)

Open(h, op, r, u, p, s) ==
  txn' = [txn EXCEPT ![h] =
    [pc |-> "lock", op |-> op, id |-> r, user |-> u, now |-> clock, patch |-> p, start |-> s,
     row |-> NoRow, count |-> 0, mine |-> FALSE]]

\* update_reservation reads the row without a lock and checks what it will end
\* up as; only then does the repository lock it.
BeginUpdate(h, r, u, p) ==
  /\ txn[h].pc = "idle"
  /\ rows[r] # NoRow
  /\ ConditionsValid(Merged(rows[r], p))
  /\ IF p.move
     THEN \E s \in Bookable(clock) : Open(h, "update", r, u, p, s)
     ELSE Open(h, "update", r, u, p, Keep)
  /\ UNCHANGED <<clock, rows, seats, lock, sweep>>

Begin(h, op, r, u) ==
  /\ txn[h].pc = "idle"
  /\ op # "update"
  /\ Open(h, op, r, u, Keep, Keep)
  /\ UNCHANGED <<clock, rows, seats, lock, sweep>>

\* A SELECT without FOR UPDATE.
LockWrong(h) ==
  LET r == txn[h].id IN
  /\ txn[h].pc = "lock"
  /\ IF rows[r] = NoRow
     THEN Finish(h)
     ELSE /\ txn' = [txn EXCEPT ![h].pc = "locked", ![h].row = rows[r]]
          /\ UNCHANGED lock
  /\ UNCHANGED <<clock, rows, seats, sweep>>

\* SELECT ... FOR UPDATE waits for the row; a missing row ends the request.
Lock(h) ==
  LET r == txn[h].id IN
  /\ txn[h].pc = "lock"
  /\ lock[r] = Free
  /\ IF rows[r] = NoRow
     THEN Finish(h)
     ELSE /\ lock' = [lock EXCEPT ![r] = h]
          /\ txn' = [txn EXCEPT ![h].pc = "locked", ![h].row = rows[r]]
  /\ UNCHANGED <<clock, rows, seats, sweep>>

\* The active seats, read under the lock.
Count(h) ==
  LET r == txn[h].id IN
  /\ txn[h].pc = "locked"
  /\ txn' = [txn EXCEPT ![h].pc = "counted", ![h].count = Cardinality(seats[r]),
                        ![h].mine = txn[h].user \in seats[r]]
  /\ UNCHANGED <<clock, rows, seats, lock, sweep>>

\* The ensure_ rules of the operation, on what was read under the lock.
Allowed(t) ==
  \/ t.op = "update" /\ t.row.host = t.user /\ Editable(t.row, t.count, t.now)
  \/ t.op = "join" /\ JoinableBy(t.row, t.user, t.mine) /\ Joinable(t.row, t.count, t.now)
  \/ t.op = "leave" /\ Leavable(t.row, t.now, t.mine)
  \/ t.op = "cancel" /\ Cancellable(t.row, t.user, t.now)

\* The unique index of active seats: the INSERT of a second one raises.
SeatTaken(t) == t.op = "join" /\ t.user \in seats[t.id]

Ready(h, op) ==
  /\ txn[h].pc = "counted"
  /\ txn[h].op = op
  /\ Allowed(txn[h])

\* Absent fields are written too.
ApplyUpdateWrong(h) ==
  LET t == txn[h] IN
  /\ Ready(h, "update")
  /\ rows' = [rows EXCEPT ![t.id] = [Merged(t.row, t.patch) EXCEPT !.start = t.start]]
  /\ Finish(h)
  /\ UNCHANGED <<clock, seats, sweep>>

ApplyUpdate(h) ==
  LET t == txn[h] IN
  /\ Ready(h, "update")
  /\ rows' = [rows EXCEPT ![t.id] = [Merged(t.row, t.patch) EXCEPT !.start = Over(t.start, @)]]
  /\ Finish(h)
  /\ UNCHANGED <<clock, seats, sweep>>

ApplyJoin(h) ==
  LET t == txn[h] IN
  /\ Ready(h, "join")
  /\ ~SeatTaken(t)
  /\ seats' = [seats EXCEPT ![t.id] = @ \cup {t.user}]
  /\ rows' = [rows EXCEPT ![t.id] = [t.row EXCEPT !.status = StatusFor(t.count + 1, t.row.capacity)]]
  /\ Finish(h)
  /\ UNCHANGED <<clock, sweep>>

\* The seats are counted again after the participant's row is cancelled.
ApplyLeave(h) ==
  LET t == txn[h]
      left == seats[t.id] \ {t.user} IN
  /\ Ready(h, "leave")
  /\ ~SeatsLocked(t.id)
  /\ seats' = [seats EXCEPT ![t.id] = left]
  /\ rows' = [rows EXCEPT ![t.id] =
       [t.row EXCEPT !.status = StatusFor(Cardinality(left), t.row.capacity)]]
  /\ Finish(h)
  /\ UNCHANGED <<clock, sweep>>

ApplyCancel(h) ==
  LET t == txn[h] IN
  /\ Ready(h, "cancel")
  /\ ~SeatsLocked(t.id)
  /\ seats' = [seats EXCEPT ![t.id] = {}]
  /\ rows' = [rows EXCEPT ![t.id] = [t.row EXCEPT !.status = "cancelled"]]
  /\ Finish(h)
  /\ UNCHANGED <<clock, sweep>>

\* The error leaves the transaction open.
RefuseWrong(h) ==
  /\ txn[h].pc = "counted"
  /\ ~Allowed(txn[h]) \/ SeatTaken(txn[h])
  /\ txn' = [txn EXCEPT ![h] = NoTxn]
  /\ UNCHANGED <<clock, rows, seats, lock, sweep>>

\* A rule or the unique index refuses: nothing was written.
Refuse(h) ==
  /\ txn[h].pc = "counted"
  /\ ~Allowed(txn[h]) \/ SeatTaken(txn[h])
  /\ Finish(h)
  /\ UNCHANGED <<clock, rows, seats, sweep>>

\* A lost connection or a dying process: the transaction rolls back.  (A crash
\* of the process is every open transaction doing so.)
Abort(h) ==
  /\ txn[h].pc # "idle"
  /\ Finish(h)
  /\ UNCHANGED <<clock, rows, seats, sweep>>

----------------------------------------------------------------------------
(* The listing, which retires what is finished *)

ListBegin(l) ==
  /\ sweep[l].pc = "idle"
  /\ sweep' = [sweep EXCEPT ![l] =
       [pc |-> "release", now |-> clock, released |-> {}, retiring |-> {}]]
  /\ UNCHANGED <<clock, rows, seats, lock, txn>>

\* First statement of _expire_finished.  It waits for a listing that has
\* cancelled one of the same seats.
ListRelease(l) ==
  LET mine == {s \in Reservations \X Users :
                 Finished(rows[s[1]], sweep[l].now) /\ s[2] \in seats[s[1]]} IN
  /\ sweep[l].pc = "release"
  /\ \A s \in mine : ~SeatsLocked(s[1])
  /\ sweep' = [sweep EXCEPT ![l].pc = "retire", ![l].released = mine]
  /\ UNCHANGED <<clock, rows, seats, lock, txn>>

\* Second statement: it waits for the locked rows, then looks at them again.
ListRetire(l) ==
  LET mine == {r \in Reservations : Finished(rows[r], sweep[l].now)} IN
  /\ sweep[l].pc = "retire"
  /\ \A r \in mine : lock[r] = Free
  /\ lock' = [r \in Reservations |-> IF r \in mine THEN l ELSE lock[r]]
  /\ sweep' = [sweep EXCEPT ![l].pc = "commit", ![l].retiring = mine]
  /\ UNCHANGED <<clock, rows, seats, txn>>

ListCommit(l) ==
  /\ sweep[l].pc = "commit"
  /\ rows' = [r \in Reservations |->
       IF r \in sweep[l].retiring THEN [rows[r] EXCEPT !.status = "ended"] ELSE rows[r]]
  /\ seats' = [r \in Reservations |-> {u \in seats[r] : <<r, u>> \notin sweep[l].released}]
  /\ sweep' = [sweep EXCEPT ![l] = NoTxn]
  /\ lock' = Unlocked(l)
  /\ UNCHANGED <<clock, txn>>

ListAbort(l) ==
  /\ sweep[l].pc # "idle"
  /\ sweep' = [sweep EXCEPT ![l] = NoTxn]
  /\ lock' = Unlocked(l)
  /\ UNCHANGED <<clock, rows, seats, txn>>

----------------------------------------------------------------------------

\* Transactions are short: none is still open TxnSpan after the time it
\* captured.  (Requests take milliseconds, LISTING_GRACE is an hour.)
Tick ==
  /\ clock < MaxTime
  /\ \A h \in Handlers : txn[h].pc # "idle" => clock < txn[h].now + TxnSpan
  /\ \A l \in Listers : sweep[l].pc # "idle" => clock < sweep[l].now + TxnSpan
  /\ clock' = clock + 1
  /\ UNCHANGED <<rows, seats, lock, txn, sweep>>

Handle(h) ==
  Count(h) \/ ApplyUpdate(h) \/ ApplyJoin(h) \/ ApplyLeave(h) \/ ApplyCancel(h) \/ Refuse(h)

ListStep(l) == ListRelease(l) \/ ListRetire(l) \/ ListCommit(l)

Next ==
  \/ \E r \in Reservations, u \in Users, c \in Offers : Create(r, u, c)
  \/ \E h \in Handlers, r \in Reservations, u \in Users :
       \/ \E p \in Patches : BeginUpdate(h, r, u, p)
       \/ \E op \in Ops : Begin(h, op, r, u)
  \/ \E h \in Handlers : Lock(h) \/ Handle(h) \/ Abort(h)
  \/ \E l \in Listers : ListBegin(l) \/ ListStep(l) \/ ListAbort(l)
  \/ Tick

\* PostgreSQL serves the waiters of a row lock in the order they came, so a
\* waiter that could go on again and again is let on; a statement that can run
\* runs.  Nothing makes users act or the clock reach a given time.
Fairness ==
  /\ \A h \in Handlers : SF_vars(Lock(h)) /\ WF_vars(Handle(h))
  /\ \A l \in Listers : SF_vars(ListStep(l))

Spec == Init /\ [][Next]_vars /\ Fairness

----------------------------------------------------------------------------
(* Properties *)

TypeOK ==
  /\ clock \in Nat
  /\ rows \in [Reservations -> Row \cup {NoRow}]
  /\ seats \in [Reservations -> SUBSET Users]
  /\ lock \in [Reservations -> Handlers \cup Listers \cup {Free}]
  /\ txn \in [Handlers -> Txn \cup {NoTxn}]
  /\ sweep \in [Listers -> Sweep \cup {NoTxn}]

\* However joins overlap, a reservation never seats more subjects than its
\* capacity, also not a capacity that was edited down (adapter docstring: "Row
\* locking keeps participant capacity atomic").
CapacityRespected ==
  \A r \in Reservations :
    rows[r] # NoRow => Cardinality(seats[r]) <= rows[r].capacity

\* A live reservation is matched exactly when its seats are full
\* (status_for), and "a reservation that stops being live carries no active
\* participants" (_release_participants), whichever of the host, a joiner and
\* the listing came last.
StatusMatchesSeats ==
  \A r \in Reservations :
    IF rows[r].status \in LIVE_STATUSES
    THEN rows[r].status = StatusFor(Cardinality(seats[r]), rows[r].capacity)
    ELSE seats[r] = {}

\* ensure_editable: the start, the match type, the ranks and the capacity never
\* change under somebody who has a seat, before or after the step.
NoEditUnderParticipant ==
  [][\A r \in Reservations :
       rows[r] # NoRow /\ rows'[r] # [rows[r] EXCEPT !.status = rows'[r].status]
         => seats[r] = {} /\ seats'[r] = {}]_vars

\* A reservation that was cancelled or has ended stays what it is: no request
\* that read it earlier and no listing that found it finished brings it back
\* or renames its end.
EndsOnce ==
  [][\A r \in Reservations :
       rows[r].status \in {"cancelled", "ended"} => rows'[r] = rows[r]]_vars

\* The listing ends a reservation no earlier than LISTING_GRACE after the start
\* it has at that moment, and the host cancels one only if its start was still
\* to come when the request captured the time.
EndsInTime ==
  [][\A r \in Reservations :
       /\ rows'[r].status = "ended" /\ rows[r].status # "ended" =>
            rows[r].start + LISTING_GRACE <= clock
       /\ rows'[r].status = "cancelled" /\ rows[r].status # "cancelled" =>
            clock < rows[r].start + TxnSpan]_vars

\* Handlers and listings lock rows and seats in opposite orders, yet nobody
\* waits for ever: every request and every listing ends.
EveryTransactionEnds ==
  /\ \A h \in Handlers : txn[h].pc # "idle" ~> txn[h].pc = "idle"
  /\ \A l \in Listers : sweep[l].pc # "idle" ~> sweep[l].pc = "idle"

\* update_reservation validates "the reservation as it will end up": no
\* reservation violates ensure_conditions_valid.
ConditionsHold ==
  \A r \in Reservations : rows[r] # NoRow => ConditionsValid(rows[r])

\* Each transaction takes effect as one step of the board.
Board == INSTANCE BookingBoard

ActsOnBoard == Board!Spec
=============================================================================
