----------------------------- MODULE MatchQueue -----------------------------
(***************************************************************************)
(* The queue of finished matches and its consumers (records/service.py,    *)
(* records/workers.py, records/adapters/postgresql.py).                    *)
(*                                                                         *)
(* An event says that a player won or lost a match that ended when the     *)
(* save was written.  A worker claims one in a transaction (FOR UPDATE     *)
(* SKIP LOCKED), looks for the room the player was in, takes the room's    *)
(* advisory lock and fills the open side of the match the other player's   *)
(* event opened, or opens one.  A failure is undone to a savepoint and the *)
(* retry recorded in the same transaction.  Every process has one worker;  *)
(* the locks are there for more, and so are they here.                     *)
(*                                                                         *)
(* events and matches are the committed data.  Nobody sees what a          *)
(* transaction wrote before its commit, so the last statements and the     *)
(* commit are one step.                                                    *)
(***************************************************************************)
EXTENDS Integers, Sequences, FiniteSets

CONSTANTS
  Players,          \* RPCN usernames
  Rooms,            \* ids of room snapshots
  Workers,          \* event consumers
  None, Free,
  MAX_ATTEMPTS, RETRY_DELAY,
  SAME_MATCH_WINDOW, ROOM_END_SLACK,
  MaxEvents, MaxTime, MaxCrashes   \* bounds on arrivals, the clock and crashes

ASSUME QueueAssumption ==
  /\ MAX_ATTEMPTS \in Nat \ {0} /\ RETRY_DELAY \in Nat \ {0}
  /\ SAME_MATCH_WINDOW \in Nat /\ ROOM_END_SLACK \in Nat
  /\ MaxEvents \in Nat /\ MaxTime \in Nat /\ MaxCrashes \in Nat
  /\ Free \notin Workers
  /\ None \notin Players \cup Rooms /\ None \notin Nat

VARIABLES
  clock,    \* now
  rooms,    \* per id, the snapshot of a room as the collector keeps it
  events,   \* the queue in the order of the identity column
  matches,  \* the rows of matches
  lock,     \* per room, the worker with its advisory lock
  work,     \* per worker, its open transaction
  crashes   \* how many so far

vars == <<clock, rooms, events, matches, lock, work, crashes>>

Sides == {1, 2}
\* (Definitions named ...Wrong are mistakes the code does not make.)
OtherWrong(side) == 2 - side
Other(side) == 3 - side
Apart(s, t) == IF s >= t THEN s - t ELSE t - s

NoRoom == [users |-> <<None, None>>]
Room == [users : Players \X Players, created : Nat, last : Nat]
Statuses == {"pending", "done", "dead"}

\* wait is what is left until available_at.
Event == [npid : Players, won : BOOLEAN, saved : Nat, status : Statuses,
          attempts : Nat, wait : Nat]

Match == [room : Rooms \cup {None}, players : (Players \cup {None}) \X (Players \cup {None}),
          winner : Sides, seen : (Nat \cup {None}) \X (Nat \cup {None}), played : Nat]

ASSUME LineAssumption == None \notin Match

Idle == [pc |-> "idle"]
Work == [pc : {"claimed", "looked", "locked", "found"}, event : Nat,
         room : Rooms \cup {None},
         line : Match \cup {None}]   \* the match whose side is open

Init ==
  /\ clock = 0
  /\ rooms = [r \in Rooms |-> NoRoom]
  /\ events = <<>>
  /\ matches = {}
  /\ lock = [r \in Rooms |-> Free]
  /\ work = [w \in Workers |-> Idle]
  /\ crashes = 0

----------------------------------------------------------------------------
(* What the collector and the capture bring *)

\* A cycle of the collector commits what it observed a while ago: a new
\* snapshot, or that a room it keeps is still there.
Sight(r) ==
  /\ \E at \in 0 .. clock :
       \/ /\ rooms[r] = NoRoom
          /\ \E u, v \in Players :
               /\ u # v
               /\ rooms' = [rooms EXCEPT ![r] = [users |-> <<u, v>>, created |-> at, last |-> at]]
       \/ /\ rooms[r] # NoRoom
          /\ at > rooms[r].last
          /\ rooms' = [rooms EXCEPT ![r].last = at]
  /\ UNCHANGED <<clock, events, matches, lock, work, crashes>>

\* add_event: due at once.
Queue(u, won, at) ==
  /\ Len(events) < MaxEvents
  /\ at <= clock
  /\ events' = Append(events, [npid |-> u, won |-> won, saved |-> at, status |-> "pending",
                               attempts |-> 0, wait |-> 0])
  /\ UNCHANGED <<clock, rooms, matches, lock, work, crashes>>

----------------------------------------------------------------------------
(* A worker *)

\* Pending, due, and its row not locked by a worker.
Due(i) ==
  /\ events[i].status = "pending"
  /\ events[i].wait = 0
  /\ \A w \in Workers : work[w].pc # "idle" => work[w].event # i

\* SELECT without FOR UPDATE.
ClaimWrong(w) ==
  /\ work[w].pc = "idle"
  /\ \E i \in DOMAIN events :
       /\ events[i].status = "pending"
       /\ events[i].wait = 0
       /\ work' = [work EXCEPT ![w] = [pc |-> "claimed", event |-> i, room |-> None, line |-> None]]
  /\ UNCHANGED <<clock, rooms, events, matches, lock, crashes>>

\* claim_event: the oldest due event.
Claim(w) ==
  /\ work[w].pc = "idle"
  /\ \E i \in DOMAIN events :
       /\ Due(i)
       /\ \A j \in 1 .. i - 1 : ~Due(j)
       /\ work' = [work EXCEPT ![w] = [pc |-> "claimed", event |-> i, room |-> None, line |-> None]]
  /\ UNCHANGED <<clock, rooms, events, matches, lock, crashes>>

\* find_rank_room: rooms that name the player and were seen around that time.
RoomsOf(u, at) ==
  {r \in Rooms : /\ rooms[r] # NoRoom
                 /\ u \in {rooms[r].users[1], rooms[r].users[2]}
                 /\ rooms[r].created <= at
                 /\ rooms[r].last + ROOM_END_SLACK >= at}

\* The one created last, or none.  The room is read in a session of its own.
Look(w) ==
  LET e == events[work[w].event]
      seen == RoomsOf(e.npid, e.saved)
      latest == {r \in seen : \A q \in seen : rooms[q].created <= rooms[r].created} IN
  /\ work[w].pc = "claimed"
  /\ \E r \in IF seen = {} THEN {None} ELSE latest :
       work' = [work EXCEPT ![w].pc = "looked", ![w].room = r]
  /\ UNCHANGED <<clock, rooms, events, matches, lock, crashes>>

\* The lock is not taken.
LockRoomWrong(w) ==
  /\ work[w].pc = "looked"
  /\ work[w].room # None
  /\ work' = [work EXCEPT ![w].pc = "locked"]
  /\ UNCHANGED <<clock, rooms, events, matches, lock, crashes>>

\* pg_advisory_xact_lock.
LockRoom(w) ==
  LET r == work[w].room IN
  /\ work[w].pc = "looked"
  /\ r # None
  /\ lock[r] = Free
  /\ lock' = [lock EXCEPT ![r] = w]
  /\ work' = [work EXCEPT ![w].pc = "locked"]
  /\ UNCHANGED <<clock, rooms, events, matches, crashes>>

\* side_of and winner.
SideOf(r, u) == IF r = None THEN 1 ELSE IF rooms[r].users[1] = u THEN 1 ELSE 2
WinnerOf(side, won) == IF won THEN side ELSE Other(side)

\* The rows the SELECT of fill_side finds.
Fillable(r, winner, side, at) ==
  {m \in matches : m.room = r /\ m.winner = winner /\ m.seen[side] = None
                     /\ Apart(m.played, at) <= SAME_MATCH_WINDOW}

\* The SELECT of fill_side: the nearest, if any.
Find(w) ==
  LET r == work[w].room
      e == events[work[w].event]
      side == SideOf(r, e.npid)
      open == Fillable(r, WinnerOf(side, e.won), side, e.saved)
      nearest == {m \in open : \A n \in open : Apart(m.played, e.saved) <= Apart(n.played, e.saved)} IN
  /\ work[w].pc = "locked"
  /\ \E m \in IF open = {} THEN {None} ELSE nearest :
       work' = [work EXCEPT ![w].pc = "found", ![w].line = m]
  /\ UNCHANGED <<clock, rooms, events, matches, lock, crashes>>

\* The advisory lock is the session's, not the transaction's.
EndWrong(w) ==
  /\ work' = [work EXCEPT ![w] = Idle]
  /\ UNCHANGED lock

\* A transaction that is over holds neither its event nor its room.
End(w) ==
  /\ work' = [work EXCEPT ![w] = Idle]
  /\ lock' = [r \in Rooms |-> IF lock[r] = w THEN Free ELSE lock[r]]

\* What the transaction writes of its match: add_match or the UPDATE of fill_side.
Written(w) ==
  LET r == work[w].room
      i == work[w].event
      e == events[i]
      side == SideOf(r, e.npid)
      seen(s) == IF s = side THEN i ELSE None IN
  IF work[w].line # None
  THEN (matches \ {work[w].line}) \cup {[work[w].line EXCEPT !.seen[side] = i]}
  ELSE matches \cup
         {[room |-> r, players |-> IF r = None THEN <<e.npid, None>> ELSE rooms[r].users,
           winner |-> WinnerOf(side, e.won), seen |-> <<seen(1), seen(2)>>, played |-> e.saved]}

\* Everything of the match is written, or it needs no room.
ReadyToWrite(w) ==
  \/ work[w].pc = "found"
  \/ work[w].pc = "looked" /\ work[w].room = None

\* The match is written, finish_event marks the event and the transaction
\* commits.
Settle(w) ==
  /\ ReadyToWrite(w)
  /\ matches' = Written(w)
  /\ events' = [events EXCEPT ![work[w].event].status = "done"]
  /\ End(w)
  /\ UNCHANGED <<clock, rooms, crashes>>

\* No savepoint: what was written of the match stays.
FailWrong(w) ==
  LET i == work[w].event
      attempts == events[i].attempts + 1 IN
  /\ work[w].pc # "idle"
  /\ matches' = IF ReadyToWrite(w) THEN Written(w) ELSE matches
  /\ events' = [events EXCEPT ![i].attempts = attempts, ![i].wait = RETRY_DELAY * attempts,
                              ![i].status = IF attempts >= MAX_ATTEMPTS THEN "dead" ELSE @]
  /\ End(w)
  /\ UNCHANGED <<clock, rooms, crashes>>

\* One attempt too many.
FailLateWrong(w) ==
  LET i == work[w].event
      attempts == events[i].attempts + 1 IN
  /\ work[w].pc # "idle"
  /\ events' = [events EXCEPT ![i].attempts = attempts, ![i].wait = RETRY_DELAY * attempts,
                              ![i].status = IF attempts > MAX_ATTEMPTS THEN "dead" ELSE @]
  /\ End(w)
  /\ UNCHANGED <<clock, rooms, matches, crashes>>

\* Any statement of _attempt raises: back to the savepoint, and fail_event
\* commits the retry, or that this was the last.  (The delay counts from the
\* failure; the attempt itself is much shorter.)
Fail(w) ==
  LET i == work[w].event
      attempts == events[i].attempts + 1 IN
  /\ work[w].pc # "idle"
  /\ events' = [events EXCEPT ![i].attempts = attempts, ![i].wait = RETRY_DELAY * attempts,
                              ![i].status = IF attempts >= MAX_ATTEMPTS THEN "dead" ELSE @]
  /\ End(w)
  /\ UNCHANGED <<clock, rooms, matches, crashes>>

\* The process or its connection dies, or fail_event itself raises: the whole
\* transaction is rolled back and leaves the event as it was.
Crash(w) ==
  /\ crashes < MaxCrashes
  /\ work[w].pc # "idle"
  /\ End(w)
  /\ crashes' = crashes + 1
  /\ UNCHANGED <<clock, rooms, events, matches>>

----------------------------------------------------------------------------

\* Time passes for the saves and rooms to come, up to its bound, and for the
\* retries, without one.
Tick ==
  /\ clock < MaxTime \/ \E i \in DOMAIN events : events[i].wait > 0
  /\ clock' = IF clock < MaxTime THEN clock + 1 ELSE clock
  /\ events' = [i \in DOMAIN events |->
                  [events[i] EXCEPT !.wait = IF @ > 0 THEN @ - 1 ELSE 0]]
  /\ UNCHANGED <<rooms, matches, lock, work, crashes>>

Step(w) == Claim(w) \/ Look(w) \/ LockRoom(w) \/ Find(w) \/ Settle(w)

Next ==
  \/ \E r \in Rooms : Sight(r)
  \/ \E u \in Players, won \in BOOLEAN, at \in 0 .. MaxTime : Queue(u, won, at)
  \/ \E w \in Workers : Step(w) \/ Fail(w) \/ Crash(w)
  \/ Tick

\* EventConsumer.run goes on for ever: a worker takes every step it can, and
\* time passes.  Nothing makes players play, attempts fail or workers crash.
Fairness ==
  /\ \A w \in Workers : WF_vars(Step(w))
  /\ WF_vars(Tick)

Spec == Init /\ [][Next]_vars /\ Fairness

----------------------------------------------------------------------------
(* Properties *)

TypeOK ==
  /\ clock \in 0 .. MaxTime /\ crashes \in 0 .. MaxCrashes
  /\ rooms \in [Rooms -> Room \cup {NoRoom}]
  /\ events \in Seq(Event)
  /\ \A m \in matches : m \in Match
  /\ lock \in [Rooms -> Workers \cup {Free}]
  /\ \A w \in Workers :
       \/ work[w] = Idle
       \/ work[w] \in Work /\ work[w].event \in DOMAIN events

\* "A failure rolls back to the savepoint" and "skip locked": however often an
\* event was tried, by however many workers, the matches name it once if it is
\* done, on the side and with the result it had, and never if it is pending or
\* given up.
SettledOnce ==
  \A i \in DOMAIN events :
    LET naming == {m \in matches : i \in {m.seen[1], m.seen[2]}} IN
    IF events[i].status = "done"
    THEN /\ Cardinality(naming) = 1
         /\ \A m \in naming : \E side \in Sides :
              /\ m.seen[side] = i
              /\ m.players[side] = events[i].npid
              /\ (m.winner = side) = events[i].won
    ELSE naming = {}

\* lock_room: the two sides of what could be one match are not in two rows of its
\* room, though each player's event may find no row while the other's opens one.
\* And the two events of a match are of different players, one won and the other
\* lost, and their saves are no further apart than _SAME_MATCH_WINDOW.
SidesAgree ==
  /\ \A m, n \in matches :
       ~ /\ m # n /\ m.room # None /\ m.room = n.room /\ m.winner = n.winner
         /\ m.seen[2] = None /\ n.seen[1] = None
         /\ Apart(m.played, n.played) <= SAME_MATCH_WINDOW
  /\ \A m \in matches : None \notin {m.seen[1], m.seen[2]} =>
       LET e == events[m.seen[1]]
           f == events[m.seen[2]] IN
       /\ e.npid # f.npid
       /\ e.won # f.won
       /\ Apart(e.saved, f.saved) <= SAME_MATCH_WINDOW
       /\ m.played \in {e.saved, f.saved}

\* An event is given up after exactly _MAX_ATTEMPTS failures, and one that is
\* still to be tried has had fewer: crashes use up no attempt.
GivenUpInTime ==
  \A i \in DOMAIN events :
    events[i].status = "dead" <=> events[i].attempts = MAX_ATTEMPTS

\* Every event is settled: recorded or given up, though attempts fail and
\* workers crash, wait for rooms and skip each other's events.
EveryEventSettles ==
  \A i \in 1 .. MaxEvents :
    (i \in DOMAIN events /\ events[i].status = "pending") ~>
      (i \in DOMAIN events /\ events[i].status \in {"done", "dead"})

\* docs/spec/11-records.md: one match is one row of matches.  A player's event
\* whose room was not found makes a row of its own, so there should be no such
\* row beside one of a room that lacks exactly this event.
OneRowPerMatch ==
  \A m, n \in matches :
    ~ /\ m.room = None /\ n.room # None
      /\ \E side \in Sides :
           /\ n.seen[side] = None
           /\ n.players[side] = m.players[1]
           /\ (n.winner = side) = (m.winner = 1)
      /\ Apart(m.played, n.played) <= SAME_MATCH_WINDOW

\* Each transaction is one entry in the book.
Book == INSTANCE MatchBook
  WITH Window <- SAME_MATCH_WINDOW,
       events <- [i \in DOMAIN events |->
                    [npid |-> events[i].npid, won |-> events[i].won, saved |-> events[i].saved,
                     status |-> events[i].status]]

EntersOneByOne == Book!Spec
=============================================================================
