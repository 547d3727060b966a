--------------------------- MODULE MatchQueueProofs ---------------------------
(***************************************************************************)
(* Proofs about MatchQueue for any number of players, rooms, workers,      *)
(* events and crashes.                                                     *)
(*                                                                         *)
(* A transaction reads its event's room and the open line of the room's    *)
(* match long before it writes.  What it read is still so when it writes:  *)
(* its event is its own (FOR UPDATE SKIP LOCKED), a room's players never   *)
(* change, and the lines of a room change under its advisory lock alone.   *)
(* The invariant says this of every open transaction, and of the committed *)
(* lines that each goes back to events that are done.                      *)
(***************************************************************************)
EXTENDS MatchQueue, FiniteSetTheorems, TLAPS

----------------------------------------------------------------------------
(* The invariant *)

Types ==
  /\ rooms \in [Rooms -> Room \cup {NoRoom}]
  /\ events \in Seq(Event)
  /\ matches \subseteq Match
  /\ lock \in [Rooms -> Workers \cup {Free}]
  /\ work \in [Workers -> {Idle} \cup Work]

TwoPlayers == \A r \in Rooms : rooms[r] # NoRoom => rooms[r].users[1] # rooms[r].users[2]

Busy(w) == work[w].pc # "idle"
Locked(w) == work[w].pc \in {"locked", "found"}

\* Whose match it is: the event of a worker, the side and the winner it stands for.
Mine(w) == events[work[w].event]
SideAt(w) == SideOf(work[w].room, Mine(w).npid)
WinnerAt(w) == WinnerOf(SideAt(w), Mine(w).won)
Open(w) == Fillable(work[w].room, WinnerAt(w), SideAt(w), Mine(w).saved)

\* The claimed event is pending, and nobody else's.
Claims ==
  /\ \A w \in Workers : Busy(w) => work[w].event \in DOMAIN events /\ Mine(w).status = "pending"
  /\ \A v, w \in Workers : Busy(v) /\ Busy(w) /\ work[v].event = work[w].event => v = w

\* The room is one the player was in, and locked where it has to be.
Place(w) ==
  Busy(w) =>
    /\ work[w].room # None =>
         /\ rooms[work[w].room] # NoRoom
         /\ Mine(w).npid \in {rooms[work[w].room].users[1], rooms[work[w].room].users[2]}
    /\ Locked(w) => work[w].room # None /\ lock[work[w].room] = w
    /\ work[w].pc # "found" => work[w].line = None

\* What the SELECT found is what it would find now.
Found(w) ==
  work[w].pc = "found" =>
    \/ work[w].line = None /\ Open(w) = {}
    \/ /\ work[w].line \in Open(w)
       /\ \A n \in Open(w) : Apart(work[w].line.played, Mine(w).saved) <= Apart(n.played, Mine(w).saved)

Transactions == \A w \in Workers : Place(w) /\ Found(w)

\* Each side of a line that is taken goes back to an event that is done.
Seen(m, side) ==
  m.seen[side] # None =>
    /\ m.seen[side] \in DOMAIN events
    /\ LET e == events[m.seen[side]] IN
         e.status = "done" /\ m.players[side] = e.npid /\ (m.winner = side <=> e.won)

\* The line has the players of its room, the time of one of its events, and if
\* both were seen they were close.
Line(m) ==
  /\ m.room = None => m.seen[2] = None
  /\ m.room # None => rooms[m.room] # NoRoom /\ m.players = rooms[m.room].users
  /\ \E side \in Sides : m.seen[side] # None /\ m.played = events[m.seen[side]].saved
  /\ (m.seen[1] # None /\ m.seen[2] # None) =>
       Apart(events[m.seen[1]].saved, events[m.seen[2]].saved) <= SAME_MATCH_WINDOW

Lines == \A m \in matches : Line(m) /\ \A side \in Sides : Seen(m, side)

\* An event that is done is on one side of one line.
Entered ==
  /\ \A i \in DOMAIN events : events[i].status = "done" =>
       \E m \in matches, side \in Sides : m.seen[side] = i
  /\ \A m, n \in matches, s, t \in Sides :
       m.seen[s] # None /\ m.seen[s] = n.seen[t] => m = n /\ s = t

\* Two rows that should be one.
Split(m, n) ==
  /\ m # n /\ m.room # None /\ m.room = n.room /\ m.winner = n.winner
  /\ m.seen[2] = None /\ n.seen[1] = None
  /\ Apart(m.played, n.played) <= SAME_MATCH_WINDOW

Joined == \A m, n \in matches : ~Split(m, n)

Attempts ==
  \A i \in DOMAIN events :
    /\ events[i].attempts <= MAX_ATTEMPTS
    /\ events[i].status = "dead" <=> events[i].attempts = MAX_ATTEMPTS

\* The inductive invariant.
QInv ==
  /\ Types /\ TwoPlayers /\ Claims /\ Transactions
  /\ Lines /\ Entered /\ Joined /\ Attempts

----------------------------------------------------------------------------
(* Times, sides and records *)

LEMMA ApartSymmetric ==
  ASSUME NEW s \in Nat, NEW t \in Nat
  PROVE  Apart(s, t) \in Nat /\ Apart(s, t) = Apart(t, s)
BY DEF Apart

LEMMA SideFacts ==
  ASSUME NEW r \in Rooms, NEW u, rooms[r] # NoRoom, TwoPlayers, u \in {rooms[r].users[1], rooms[r].users[2]}
  PROVE  SideOf(r, u) \in Sides /\ rooms[r].users[SideOf(r, u)] = u
BY QueueAssumption DEF SideOf, Sides, TwoPlayers

LEMMA WinnerFacts ==
  ASSUME NEW side \in Sides, NEW won \in BOOLEAN
  PROVE  WinnerOf(side, won) \in Sides /\ (WinnerOf(side, won) = side <=> won)
BY DEF WinnerOf, Sides, Other

\* What a type says of an event, a match and a transaction.
LEMMA EventFacts ==
  ASSUME Types, NEW i \in DOMAIN events
  PROVE  /\ events[i] \in Event /\ i \in Nat /\ events[i].npid \in Players /\ events[i].won \in BOOLEAN
         /\ events[i].saved \in Nat /\ events[i].attempts \in Nat /\ events[i].wait \in Nat
         /\ events[i].status \in Statuses
<1>1. events[i] \in Event /\ i \in Nat
  BY DEF Types
<1> QED
  BY <1>1 DEF Event

LEMMA MatchFacts ==
  ASSUME NEW m \in Match
  PROVE  /\ m.room \in Rooms \cup {None} /\ m.winner \in Sides /\ m.played \in Nat
         /\ \A side \in Sides : m.seen[side] \in Nat \cup {None}
         /\ \A side \in Sides : m.players[side] \in Players \cup {None}
         /\ m # None
BY LineAssumption DEF Match, Sides

LEMMA WorkFacts ==
  ASSUME Types, NEW w \in Workers, Busy(w)
  PROVE  /\ work[w] \in Work /\ work[w].event \in Nat /\ work[w].room \in Rooms \cup {None}
         /\ work[w].line \in Match \cup {None}
         /\ work[w].pc \in {"claimed", "looked", "locked", "found"}
BY DEF Types, Busy, Idle, Work

\* A transaction that begins, goes on, or is over.
LEMMA WorkNext ==
  ASSUME Types, NEW w \in Workers, NEW mine \in {Idle} \cup Work, work' = [work EXCEPT ![w] = mine]
  PROVE  /\ work' \in [Workers -> {Idle} \cup Work] /\ work'[w] = mine
         /\ \A v \in Workers : v # w => work'[v] = work[v]
BY DEF Types

LEMMA WorkAt ==
  ASSUME NEW mine \in Work, NEW pc \in {"claimed", "looked", "locked", "found"},
         NEW more, more = [mine EXCEPT !.pc = pc]
  PROVE  /\ more \in Work /\ more.pc = pc /\ more.event = mine.event /\ more.room = mine.room
         /\ more.line = mine.line
BY DEF Work

LEMMA QueueInit == Init => QInv
BY DEF Init, QInv, Types, TwoPlayers, Claims, Transactions, Place, Found, Lines, Entered,
       Joined, Attempts, Idle, Busy, Locked, Split

----------------------------------------------------------------------------
(* What a step leaves alone *)

\* Events keep what they say, and what is done stays done.
Kept ==
  \A i \in DOMAIN events :
    /\ i \in DOMAIN events'
    /\ events'[i].npid = events[i].npid /\ events'[i].won = events[i].won
    /\ events'[i].saved = events[i].saved
    /\ events[i].status = "done" => events'[i].status = "done"

\* Rooms keep their players.
SameRooms ==
  \A r \in Rooms : rooms[r] # NoRoom => rooms'[r] # NoRoom /\ rooms'[r].users = rooms[r].users

LEMMA LineKept ==
  ASSUME Types, Kept, SameRooms, NEW m \in Match, Line(m), \A side \in Sides : Seen(m, side)
  PROVE  Line(m)' /\ \A side \in Sides : Seen(m, side)'
<1>1. \A side \in Sides : Seen(m, side)'
  BY DEF Seen, Kept
<1>2. \A side \in Sides : m.seen[side] # None => events'[m.seen[side]].saved = events[m.seen[side]].saved
  BY DEF Seen, Kept
<1>3. m.room # None => rooms'[m.room] # NoRoom /\ m.players = rooms'[m.room].users
  BY MatchFacts DEF Line, SameRooms
<1>4. 1 \in Sides /\ 2 \in Sides
  BY DEF Sides
<1> QED
  BY <1>1, <1>2, <1>3, <1>4 DEF Line

LEMMA LinesKept ==
  ASSUME Types, Kept, SameRooms, UNCHANGED matches, Lines
  PROVE  Lines'
<1>1. \A m \in matches : m \in Match
  BY DEF Types
<1> QED
  BY <1>1, LineKept DEF Lines

\* A transaction that does nothing in this step: it still knows what it knew,
\* if the lines of the room it has locked are the same.
LEMMA TransactionKept ==
  ASSUME Types, Claims, Kept, SameRooms, NEW w \in Workers, Place(w), Found(w), work'[w] = work[w],
         Locked(w) => /\ lock'[work[w].room] = lock[work[w].room]
                      /\ {m \in matches' : m.room = work[w].room} = {m \in matches : m.room = work[w].room}
  PROVE  Place(w)' /\ Found(w)'
<1> SUFFICES ASSUME Busy(w) PROVE Place(w)' /\ Found(w)'
  BY DEF Busy, Place, Found
<1>1. Mine(w)'.npid = Mine(w).npid /\ Mine(w)'.saved = Mine(w).saved /\ Mine(w)'.won = Mine(w).won
  BY DEF Claims, Kept, Mine
<1>2. work[w].room \in Rooms \cup {None} /\ (Locked(w)' <=> Locked(w)) /\ (Busy(w)' <=> Busy(w))
  BY WorkFacts DEF Locked, Busy
<1>3. work[w].room # None => rooms'[work[w].room] # NoRoom /\ rooms'[work[w].room].users = rooms[work[w].room].users
  BY <1>2 DEF Place, SameRooms
<1>4. Place(w)'
  BY <1>1, <1>2, <1>3 DEF Place
<1>5. Found(w)'
  <2> SUFFICES ASSUME work[w].pc = "found" PROVE Found(w)'
    BY DEF Found
  <2>1. SideAt(w)' = SideAt(w)
    BY <1>1, <1>2, <1>3 DEF SideAt, SideOf
  <2>2. WinnerAt(w)' = WinnerAt(w)
    BY <1>1, <2>1 DEF WinnerAt, WinnerOf
  <2>3. Locked(w)
    BY DEF Locked
  <2>4. Open(w)' = Open(w)
    BY <1>1, <2>1, <2>2, <2>3 DEF Open, Fillable
  <2> QED
    BY <1>1, <2>4 DEF Found
<1> QED
  BY <1>4, <1>5

----------------------------------------------------------------------------
(* Steps of one transaction that commit nothing *)

\* Of such a step only the worker's own transaction has to be looked at.
LEMMA WorkStep ==
  ASSUME QInv, UNCHANGED <<rooms, events, matches>>, NEW w \in Workers,
         NEW mine \in {Idle} \cup Work, work' = [work EXCEPT ![w] = mine],
         lock' \in [Rooms -> Workers \cup {Free}],
         \A v \in Workers, r \in Rooms : v # w /\ lock[r] = v => lock'[r] = v,
         mine.pc # "idle" =>
           /\ mine.event \in DOMAIN events /\ events[mine.event].status = "pending"
           /\ \A v \in Workers : v # w /\ Busy(v) => work[v].event # mine.event,
         Place(w)', Found(w)'
  PROVE  QInv'
<1>1. /\ work' \in [Workers -> {Idle} \cup Work] /\ work'[w] = mine
      /\ \A v \in Workers : v # w => work'[v] = work[v]
  BY WorkNext DEF QInv
<1>2. Types'
  BY <1>1 DEF QInv, Types
<1>3. Claims'
  BY <1>1 DEF QInv, Claims, Busy, Mine
<1>4. Kept /\ SameRooms
  BY DEF Kept, SameRooms
<1>5. ASSUME NEW v \in Workers, v # w PROVE Place(v)' /\ Found(v)'
  <2>1. Place(v) /\ Found(v) /\ work'[v] = work[v]
    BY <1>1, <1>5 DEF QInv, Transactions
  <2>2. Locked(v) => lock'[work[v].room] = lock[work[v].room]
    BY <1>5, <2>1, WorkFacts DEF QInv, Place, Locked, Busy
  <2> QED
    BY <1>4, <2>1, <2>2, TransactionKept DEF QInv
<1>6. Transactions'
  BY <1>5 DEF Transactions
<1>7. TwoPlayers' /\ Lines' /\ Entered' /\ Joined' /\ Attempts'
  BY <1>4, LinesKept DEF QInv, TwoPlayers, Entered, Joined, Split, Attempts
<1> QED
  BY <1>2, <1>3, <1>6, <1>7 DEF QInv

\* A transaction that goes on with its event keeps its claim.
LEMMA ClaimKept ==
  ASSUME QInv, NEW w \in Workers, Busy(w)
  PROVE  /\ work[w].event \in DOMAIN events /\ events[work[w].event].status = "pending"
         /\ \A v \in Workers : v # w /\ Busy(v) => work[v].event # work[w].event
BY DEF QInv, Claims, Mine

LEMMA ClaimStep ==
  ASSUME QInv, NEW w \in Workers, Claim(w)
  PROVE  QInv'
<1>1. PICK i \in DOMAIN events :
        /\ Due(i)
        /\ work' = [work EXCEPT ![w] = [pc |-> "claimed", event |-> i, room |-> None, line |-> None]]
  BY DEF Claim
<1> DEFINE mine == [pc |-> "claimed", event |-> i, room |-> None, line |-> None]
<1>2. mine \in Work /\ mine.pc = "claimed" /\ mine.event = i /\ mine.room = None /\ mine.line = None
  BY EventFacts DEF Work, QInv
<1>3. work' = [work EXCEPT ![w] = mine]
  BY <1>1
<1> HIDE DEF mine
<1>4. work'[w] = mine
  BY <1>2, <1>3, WorkNext DEF QInv
<1>5. events[i].status = "pending" /\ \A v \in Workers : Busy(v) => work[v].event # i
  BY <1>1 DEF Due, Busy
<1>6. Place(w)' /\ Found(w)'
  BY <1>2, <1>4 DEF Place, Found, Locked
<1>7. UNCHANGED <<rooms, events, matches, lock>> /\ lock \in [Rooms -> Workers \cup {Free}]
  BY DEF Claim, QInv, Types
<1> QED
  BY <1>2, <1>3, <1>5, <1>6, <1>7, WorkStep

LEMMA LookStep ==
  ASSUME QInv, NEW w \in Workers, Look(w)
  PROVE  QInv'
<1>1. Busy(w) /\ UNCHANGED <<rooms, events, matches, lock>> /\ lock \in [Rooms -> Workers \cup {Free}]
  BY DEF Look, Busy, QInv, Types
<1>2. PICK r : /\ r \in IF RoomsOf(Mine(w).npid, Mine(w).saved) = {} THEN {None}
                        ELSE RoomsOf(Mine(w).npid, Mine(w).saved)
               /\ work' = [work EXCEPT ![w].pc = "looked", ![w].room = r]
  BY DEF Look, Mine
<1>3. /\ r \in Rooms \cup {None}
      /\ r # None => rooms[r] # NoRoom /\ Mine(w).npid \in {rooms[r].users[1], rooms[r].users[2]}
  BY <1>2 DEF RoomsOf
<1> DEFINE mine == [work[w] EXCEPT !.pc = "looked", !.room = r]
<1>4. work' = [work EXCEPT ![w] = mine]
  BY <1>2
<1>5. /\ mine \in Work /\ mine.pc = "looked" /\ mine.event = work[w].event /\ mine.room = r
      /\ mine.line = None
  <2>1. work[w] \in Work
    BY <1>1, WorkFacts DEF QInv
  <2>2. work[w].line = None
    BY <1>1 DEF QInv, Transactions, Place, Look
  <2> QED
    BY <1>3, <2>1, <2>2 DEF Work
<1> HIDE DEF mine
<1>6. work'[w] = mine
  BY <1>4, <1>5, WorkNext DEF QInv
<1>7. Place(w)' /\ Found(w)'
  BY <1>1, <1>3, <1>5, <1>6 DEF Place, Found, Locked, Mine
<1> QED
  BY <1>1, <1>4, <1>5, <1>7, ClaimKept, WorkStep

LEMMA LockRoomStep ==
  ASSUME QInv, NEW w \in Workers, LockRoom(w)
  PROVE  QInv'
<1> DEFINE r == work[w].room
           mine == [work[w] EXCEPT !.pc = "locked"]
<1>1. Busy(w) /\ UNCHANGED <<rooms, events, matches>> /\ lock \in [Rooms -> Workers \cup {Free}]
  BY DEF LockRoom, Busy, QInv, Types
<1>2. r # None /\ lock[r] = Free /\ lock' = [lock EXCEPT ![r] = w] /\ work' = [work EXCEPT ![w] = mine]
  BY DEF LockRoom
<1>3. /\ mine \in Work /\ mine.pc = "locked" /\ mine.event = work[w].event /\ mine.room = r
      /\ mine.line = None
  <2>1. work[w].line = None
    BY <1>1 DEF QInv, Transactions, Place, LockRoom
  <2> QED
    BY <1>1, <2>1, WorkFacts, WorkAt DEF QInv
<1>4. r \in Rooms
  BY <1>1, <1>2, WorkFacts DEF QInv
<1>5. Place(w)
  BY DEF QInv, Transactions
<1> HIDE DEF mine
<1>6. work'[w] = mine
  BY <1>2, <1>3, WorkNext DEF QInv
<1>7. /\ lock' \in [Rooms -> Workers \cup {Free}] /\ lock'[r] = w
      /\ \A v \in Workers, q \in Rooms : v # w /\ lock[q] = v => lock'[q] = v
  BY <1>1, <1>2, <1>4, QueueAssumption
<1>8. Place(w)' /\ Found(w)'
  BY <1>1, <1>2, <1>3, <1>5, <1>6, <1>7 DEF Place, Found, Locked, Mine
<1> QED
  <2>1. /\ mine.event \in DOMAIN events /\ events[mine.event].status = "pending"
        /\ \A v \in Workers : v # w /\ Busy(v) => work[v].event # mine.event
    BY <1>1, <1>3, ClaimKept
  <2>2. work' = [work EXCEPT ![w] = mine]
    BY <1>2
  <2> HIDE DEF r
  <2> QED
    BY <1>1, <1>3, <1>7, <1>8, <2>1, <2>2, WorkStep

LEMMA FindStep ==
  ASSUME QInv, NEW w \in Workers, Find(w)
  PROVE  QInv'
<1>1. /\ Busy(w) /\ Locked(w) /\ UNCHANGED <<rooms, events, matches, lock>>
      /\ lock \in [Rooms -> Workers \cup {Free}]
  BY DEF Find, Busy, Locked, QInv, Types
<1>2. PICK m : /\ \/ m = None /\ Open(w) = {}
                  \/ /\ m \in Open(w)
                     /\ \A n \in Open(w) : Apart(m.played, Mine(w).saved) <= Apart(n.played, Mine(w).saved)
               /\ work' = [work EXCEPT ![w].pc = "found", ![w].line = m]
  BY DEF Find, Mine, Open, WinnerAt, SideAt
<1>3. m \in Match \cup {None}
  BY <1>2 DEF Open, Fillable, QInv, Types
<1> DEFINE mine == [work[w] EXCEPT !.pc = "found", !.line = m]
<1>4. work' = [work EXCEPT ![w] = mine]
  BY <1>2
<1>5. /\ mine \in Work /\ mine.pc = "found" /\ mine.event = work[w].event /\ mine.room = work[w].room
      /\ mine.line = m
  <2>1. work[w] \in Work
    BY <1>1, WorkFacts DEF QInv
  <2> QED
    BY <1>3, <2>1 DEF Work
<1> HIDE DEF mine
<1>6. work'[w] = mine
  BY <1>4, <1>5, WorkNext DEF QInv
<1>7. Place(w)
  BY DEF QInv, Transactions
<1>8. Place(w)'
  BY <1>1, <1>5, <1>6, <1>7 DEF Place, Locked, Mine
<1>9. Open(w)' = Open(w) /\ Mine(w)' = Mine(w)
  BY <1>1, <1>5, <1>6 DEF Open, Fillable, WinnerAt, WinnerOf, SideAt, SideOf, Mine
<1>10. Found(w)'
  BY <1>2, <1>5, <1>6, <1>9 DEF Found
<1> QED
  BY <1>1, <1>4, <1>5, <1>8, <1>10, ClaimKept, WorkStep

\* A transaction that ends lets go of its event and its room.
LEMMA EndFacts ==
  ASSUME QInv, NEW w \in Workers, End(w)
  PROVE  /\ work' = [work EXCEPT ![w] = Idle] /\ work' \in [Workers -> {Idle} \cup Work] /\ work'[w] = Idle
         /\ \A v \in Workers : v # w => work'[v] = work[v]
         /\ lock' \in [Rooms -> Workers \cup {Free}]
         /\ \A v \in Workers, r \in Rooms : v # w /\ lock[r] = v => lock'[r] = v
         /\ Place(w)' /\ Found(w)'
<1>1. work' = [work EXCEPT ![w] = Idle] /\ lock' = [r \in Rooms |-> IF lock[r] = w THEN Free ELSE lock[r]]
  BY DEF End
<1>2. /\ work' \in [Workers -> {Idle} \cup Work] /\ work'[w] = Idle
      /\ \A v \in Workers : v # w => work'[v] = work[v]
  BY <1>1, WorkNext DEF QInv
<1>3. /\ lock' \in [Rooms -> Workers \cup {Free}]
      /\ \A v \in Workers, r \in Rooms : v # w /\ lock[r] = v => lock'[r] = v
  BY <1>1 DEF QInv, Types
<1>4. Place(w)' /\ Found(w)'
  BY <1>2 DEF Place, Found, Busy, Idle
<1> QED
  BY <1>1, <1>2, <1>3, <1>4

LEMMA CrashStep ==
  ASSUME QInv, NEW w \in Workers, Crash(w)
  PROVE  QInv'
<1>1. End(w) /\ UNCHANGED <<rooms, events, matches>>
  BY DEF Crash
<1>2. Idle.pc = "idle"
  BY DEF Idle
<1> QED
  BY <1>1, <1>2, EndFacts, WorkStep

----------------------------------------------------------------------------
(* Rooms that are sighted, events that come and wait *)

\* A step in which no transaction moves.
LEMMA DataStep ==
  ASSUME QInv, UNCHANGED <<matches, lock, work>>,
         rooms' \in [Rooms -> Room \cup {NoRoom}], SameRooms, TwoPlayers',
         events' \in Seq(Event), Kept, Attempts',
         \A i \in DOMAIN events : events'[i].status = events[i].status,
         \A i \in DOMAIN events' : events'[i].status = "done" => i \in DOMAIN events
  PROVE  QInv'
<1>1. Types'
  BY DEF QInv, Types
<1>2. Claims'
  BY DEF QInv, Claims, Kept, Busy, Mine
<1>3. Transactions'
  BY TransactionKept DEF QInv, Transactions
<1>4. Lines'
  BY LinesKept DEF QInv
<1>5. Entered' /\ Joined'
  BY DEF QInv, Entered, Joined, Split
<1> QED
  BY <1>1, <1>2, <1>3, <1>4, <1>5 DEF QInv

\* A room that is sighted keeps its players, who are two.
LEMMA SightStep ==
  ASSUME QInv, NEW r \in Rooms, Sight(r)
  PROVE  QInv'
<1>1. UNCHANGED <<events, matches, lock, work>>
  BY DEF Sight
<1>2. PICK at \in 0 .. clock :
        \/ /\ rooms[r] = NoRoom
           /\ \E u, v \in Players :
                /\ u # v
                /\ rooms' = [rooms EXCEPT ![r] = [users |-> <<u, v>>, created |-> at, last |-> at]]
        \/ /\ rooms[r] # NoRoom
           /\ rooms' = [rooms EXCEPT ![r].last = at]
  BY DEF Sight
<1>3. at \in Nat
  OBVIOUS
<1>4. rooms \in [Rooms -> Room \cup {NoRoom}]
  BY DEF QInv, Types
<1>5. /\ rooms' \in [Rooms -> Room \cup {NoRoom}] /\ rooms'[r] # NoRoom /\ rooms'[r].users[1] # rooms'[r].users[2]
      /\ rooms[r] # NoRoom => rooms'[r].users = rooms[r].users
      /\ \A q \in Rooms : q # r => rooms'[q] = rooms[q]
  <2>1. CASE rooms[r] = NoRoom
    <3>1. PICK u \in Players, v \in Players :
            /\ u # v
            /\ rooms' = [rooms EXCEPT ![r] = [users |-> <<u, v>>, created |-> at, last |-> at]]
      BY <1>2, <2>1
    <3> DEFINE new == [users |-> <<u, v>>, created |-> at, last |-> at]
    <3>2. new \in Room /\ new.users = <<u, v>>
      BY <1>3 DEF Room
    <3>3. new # NoRoom
      BY <3>2, QueueAssumption DEF NoRoom
    <3> HIDE DEF new
    <3> QED
      BY <1>4, <2>1, <3>1, <3>2, <3>3 DEF new
  <2>2. CASE rooms[r] # NoRoom
    <3> DEFINE new == [rooms[r] EXCEPT !.last = at]
    <3>1. rooms[r] \in Room
      BY <1>4, <2>2
    <3>2. new \in Room /\ new.users = rooms[r].users
      BY <1>3, <3>1 DEF Room
    <3>3. rooms' = [rooms EXCEPT ![r] = new]
      BY <1>2, <2>2
    <3>4. new.users[1] # new.users[2] /\ new.users[1] \in Players
      BY <2>2, <3>1, <3>2 DEF QInv, TwoPlayers, Room
    <3>5. new # NoRoom
      BY <3>4, QueueAssumption DEF NoRoom
    <3> HIDE DEF new
    <3> QED
      BY <1>4, <2>2, <3>2, <3>3, <3>4, <3>5
  <2> QED
    BY <2>1, <2>2
<1>6. SameRooms /\ TwoPlayers'
  BY <1>5 DEF QInv, SameRooms, TwoPlayers
<1>7. Kept /\ events' \in Seq(Event) /\ Attempts'
  BY <1>1 DEF QInv, Types, Kept, Attempts
<1> QED
  BY <1>1, <1>5, <1>6, <1>7, DataStep

LEMMA QueueStep ==
  ASSUME QInv, NEW u \in Players, NEW won \in BOOLEAN, NEW at \in 0 .. MaxTime, Queue(u, won, at)
  PROVE  QInv'
<1> DEFINE new == [npid |-> u, won |-> won, saved |-> at, status |-> "pending", attempts |-> 0, wait |-> 0]
<1>1. new \in Event /\ new.status = "pending" /\ new.attempts = 0
  BY QueueAssumption DEF Event, Statuses
<1>2. UNCHANGED <<rooms, matches, lock, work>> /\ events' = Append(events, new)
  BY DEF Queue
<1> HIDE DEF new
<1>3. /\ events' \in Seq(Event) /\ DOMAIN events = 1 .. Len(events) /\ Len(events) \in Nat
      /\ DOMAIN events' = 1 .. Len(events) + 1
      /\ \A i \in DOMAIN events : i \in DOMAIN events' /\ events'[i] = events[i]
      /\ events'[Len(events) + 1] = new
  BY <1>1, <1>2 DEF QInv, Types
<1>4. \A i \in DOMAIN events' : i \in DOMAIN events \/ events'[i] = new
  BY <1>3
<1>5. Kept /\ SameRooms /\ TwoPlayers' /\ rooms' \in [Rooms -> Room \cup {NoRoom}]
  BY <1>2, <1>3 DEF Kept, SameRooms, QInv, TwoPlayers, Types
<1>6. Attempts'
  BY <1>1, <1>3, <1>4, QueueAssumption DEF QInv, Attempts
<1> QED
  BY <1>1, <1>2, <1>3, <1>4, <1>5, <1>6, DataStep

\* The event of an attempt that goes on waiting is the same event.
LEMMA WaitChanged ==
  ASSUME NEW e \in Event, NEW n \in Nat, NEW more, more = [e EXCEPT !.wait = n]
  PROVE  /\ more \in Event /\ more.npid = e.npid /\ more.won = e.won /\ more.saved = e.saved
         /\ more.status = e.status /\ more.attempts = e.attempts
BY DEF Event

LEMMA TickStep ==
  ASSUME QInv, Tick
  PROVE  QInv'
<1>1. UNCHANGED <<rooms, matches, lock, work>>
  BY DEF Tick
<1>2. events' = [i \in DOMAIN events |-> [events[i] EXCEPT !.wait = IF @ > 0 THEN @ - 1 ELSE 0]]
  BY DEF Tick
<1>3. DOMAIN events' = DOMAIN events /\ events \in Seq(Event)
  BY <1>2 DEF QInv, Types
<1>4. \A i \in DOMAIN events :
        /\ events'[i] \in Event /\ events'[i].npid = events[i].npid /\ events'[i].won = events[i].won
        /\ events'[i].saved = events[i].saved /\ events'[i].status = events[i].status
        /\ events'[i].attempts = events[i].attempts
  <2> TAKE i \in DOMAIN events
  <2> DEFINE n == IF events[i].wait > 0 THEN events[i].wait - 1 ELSE 0
  <2>1. events[i] \in Event /\ n \in Nat
    BY EventFacts DEF QInv
  <2>2. events'[i] = [events[i] EXCEPT !.wait = n]
    BY <1>2
  <2> HIDE DEF n
  <2> QED
    BY <2>1, <2>2, WaitChanged
<1>5. events' \in Seq(Event)
  <2>1. Len(events) \in Nat /\ DOMAIN events' = 1 .. Len(events)
    BY <1>3
  <2>2. events' = [i \in 1 .. Len(events) |-> events'[i]]
    BY <1>2, <2>1
  <2>3. \A i \in 1 .. Len(events) : events'[i] \in Event
    BY <1>3, <1>4
  <2>4. events' \in [1 .. Len(events) -> Event]
    BY <2>2, <2>3
  <2> QED
    BY <2>1, <2>4
<1>6. Kept /\ SameRooms /\ TwoPlayers' /\ rooms' \in [Rooms -> Room \cup {NoRoom}] /\ Attempts'
  BY <1>1, <1>3, <1>4 DEF Kept, SameRooms, QInv, TwoPlayers, Types, Attempts
<1> QED
  BY <1>1, <1>3, <1>4, <1>5, <1>6, DataStep

----------------------------------------------------------------------------
(* Attempts that fail *)

LEMMA EventReplaced ==
  ASSUME Types, NEW i \in DOMAIN events, NEW e \in Event, events' = [events EXCEPT ![i] = e]
  PROVE  /\ events' \in Seq(Event) /\ DOMAIN events' = DOMAIN events /\ events'[i] = e
         /\ \A j \in DOMAIN events : j # i => events'[j] = events[j]
BY DEF Types

\* What is left to show when a transaction has ended and its event has changed.
LEMMA EndStep ==
  ASSUME QInv, NEW w \in Workers, Busy(w), End(w), UNCHANGED rooms,
         NEW e \in Event, events' = [events EXCEPT ![work[w].event] = e],
         e.npid = Mine(w).npid, e.won = Mine(w).won, e.saved = Mine(w).saved,
         \A v \in Workers : v # w /\ Locked(v) =>
           {m \in matches' : m.room = work[v].room} = {m \in matches : m.room = work[v].room},
         matches' \subseteq Match
  PROVE  Types' /\ TwoPlayers' /\ Claims' /\ Transactions' /\ Kept /\ SameRooms
<1> DEFINE i == work[w].event
<1>1. i \in DOMAIN events /\ events[i].status = "pending"
  BY DEF QInv, Claims, Mine
<1>2. /\ events' \in Seq(Event) /\ DOMAIN events' = DOMAIN events /\ events'[i] = e
      /\ \A j \in DOMAIN events : j # i => events'[j] = events[j]
  BY <1>1, EventReplaced DEF QInv
<1>3. /\ work' \in [Workers -> {Idle} \cup Work] /\ work'[w] = Idle
      /\ \A v \in Workers : v # w => work'[v] = work[v]
      /\ lock' \in [Rooms -> Workers \cup {Free}]
      /\ \A v \in Workers, r \in Rooms : v # w /\ lock[r] = v => lock'[r] = v
      /\ Place(w)' /\ Found(w)'
  BY EndFacts
<1>4. Types'
  BY <1>2, <1>3 DEF QInv, Types
<1>5. Kept
  BY <1>1, <1>2 DEF Kept, Mine
<1>6. SameRooms /\ TwoPlayers'
  BY DEF SameRooms, QInv, TwoPlayers
<1>7. Claims'
  <2>1. \A v \in Workers : Busy(v)' => v # w /\ Busy(v) /\ work'[v] = work[v]
    BY <1>3 DEF Busy, Idle
  <2>2. \A v \in Workers : v # w /\ Busy(v) => /\ work[v].event \in DOMAIN events /\ work[v].event # i
                                               /\ events[work[v].event].status = "pending"
    BY ClaimKept
  <2>3. \A v \in Workers : Busy(v)' => work'[v].event \in DOMAIN events' /\ Mine(v)'.status = "pending"
    BY <1>2, <2>1, <2>2 DEF Mine
  <2> QED
    BY <2>1, <2>3 DEF QInv, Claims
<1>8. ASSUME NEW v \in Workers, v # w PROVE Place(v)' /\ Found(v)'
  <2>1. Place(v) /\ Found(v) /\ work'[v] = work[v]
    BY <1>3, <1>8 DEF QInv, Transactions
  <2>2. Locked(v) => lock'[work[v].room] = lock[work[v].room]
    BY <1>3, <1>8, <2>1, WorkFacts DEF QInv, Place, Locked, Busy
  <2> QED
    BY <1>5, <1>6, <1>8, <2>1, <2>2, TransactionKept DEF QInv
<1> QED
  BY <1>3, <1>4, <1>5, <1>6, <1>7, <1>8 DEF Transactions

\* What fail_event makes of an event.
With(e, a, wait, status) == [e EXCEPT !.attempts = a, !.wait = wait, !.status = status]

LEMMA EventWritten ==
  \A e \in Event, a \in Nat, wait \in Nat, status \in Statuses :
    \E more \in Event :
      /\ more = With(e, a, wait, status)
      /\ more.npid = e.npid /\ more.won = e.won /\ more.saved = e.saved
      /\ more.status = status /\ more.attempts = a
<1> TAKE e \in Event, a \in Nat, wait \in Nat, status \in Statuses
<1>0. PICK more : more = [e EXCEPT !.attempts = a, !.wait = wait, !.status = status]
  OBVIOUS
<1>1. more = [npid |-> e.npid, won |-> e.won, saved |-> e.saved, status |-> status, attempts |-> a, wait |-> wait]
  BY <1>0 DEF Event
<1>2. more.npid = e.npid
  BY <1>1, Zenon
<1>3. more.won = e.won
  BY <1>1, Zenon
<1>4. more.saved = e.saved
  BY <1>1, Zenon
<1>5. more.status = status
  BY <1>1, Zenon
<1>6. more.attempts = a
  BY <1>1, Zenon
<1>7. more \in Event
  BY <1>1 DEF Event
<1>8. more = With(e, a, wait, status)
  BY <1>0 DEF With
<1> QED
  BY <1>2, <1>3, <1>4, <1>5, <1>6, <1>7, <1>8, Zenon

LEMMA FailStep ==
  ASSUME QInv, NEW w \in Workers, Fail(w)
  PROVE  QInv'
<1> DEFINE i == work[w].event
           a == events[i].attempts + 1
           e == [events[i] EXCEPT !.attempts = a, !.wait = RETRY_DELAY * a,
                                  !.status = IF a >= MAX_ATTEMPTS THEN "dead" ELSE @]
<1>1. Busy(w) /\ End(w) /\ UNCHANGED <<rooms, matches>>
  BY DEF Fail, Busy
<1>2. /\ i \in DOMAIN events /\ events[i].status = "pending" /\ events[i] \in Event
      /\ events[i].attempts \in Nat /\ events[i].attempts < MAX_ATTEMPTS
  <2>1. i \in DOMAIN events /\ events[i].status = "pending"
    BY <1>1, ClaimKept
  <2>2. events[i] \in Event /\ events[i].attempts \in Nat
    BY <2>1, EventFacts DEF QInv
  <2> QED
    BY <2>1, <2>2, QueueAssumption DEF QInv, Attempts
<1>3. events' = [events EXCEPT ![i] = e]
  BY DEF Fail
<1>4. /\ e \in Event /\ e.npid = events[i].npid /\ e.won = events[i].won /\ e.saved = events[i].saved
      /\ e.status \in {"pending", "dead"}
      /\ e.attempts <= MAX_ATTEMPTS
      /\ e.status = "dead" <=> e.attempts = MAX_ATTEMPTS
  <2> DEFINE wait == RETRY_DELAY * a
             status == IF a >= MAX_ATTEMPTS THEN "dead" ELSE "pending"
  <2>1. e = With(events[i], a, wait, status)
    BY <1>2 DEF With
  <2>2. /\ a \in Nat /\ status \in {"pending", "dead"} /\ a <= MAX_ATTEMPTS
        /\ status = "dead" <=> a = MAX_ATTEMPTS
    BY <1>2, QueueAssumption
  <2>3. wait \in Nat
    BY <2>2, QueueAssumption
  <2>4. status \in Statuses
    BY <2>2 DEF Statuses
  <2> HIDE DEF a, wait, status, e
  <2>5. PICK more \in Event :
          /\ more = With(events[i], a, wait, status)
          /\ more.npid = events[i].npid /\ more.won = events[i].won /\ more.saved = events[i].saved
          /\ more.status = status /\ more.attempts = a
    <3>1. events[i] \in Event /\ a \in Nat /\ wait \in Nat /\ status \in Statuses
      BY <1>2, <2>2, <2>3, <2>4
    <3> HIDE DEF i
    <3> QED
      BY <3>1, EventWritten
  <2>6. e = more
    BY <2>1, <2>5
  <2> QED
    BY <2>2, <2>5, <2>6
<1> HIDE DEF e
<1>5. /\ DOMAIN events' = DOMAIN events /\ events'[i] = e
      /\ \A j \in DOMAIN events : j # i => events'[j] = events[j]
  BY <1>2, <1>3, <1>4, EventReplaced DEF QInv
<1>6. Types' /\ TwoPlayers' /\ Claims' /\ Transactions' /\ Kept /\ SameRooms
  <2>1. matches' \subseteq Match
    BY <1>1 DEF QInv, Types
  <2> QED
    BY <1>1, <1>3, <1>4, <2>1, EndStep DEF Mine
<1>7. Lines'
  BY <1>1, <1>6, LinesKept DEF QInv
<1>8. Entered' /\ Joined'
  BY <1>1, <1>2, <1>4, <1>5 DEF QInv, Entered, Joined, Split
<1>9. Attempts'
  BY <1>4, <1>5 DEF QInv, Attempts
<1> QED
  BY <1>6, <1>7, <1>8, <1>9 DEF QInv

----------------------------------------------------------------------------
(* A match that is written *)

LEMMA EventDone ==
  ASSUME NEW e \in Event, NEW more, more = [e EXCEPT !.status = "done"]
  PROVE  /\ more \in Event /\ more.npid = e.npid /\ more.won = e.won /\ more.saved = e.saved
         /\ more.status = "done" /\ more.attempts = e.attempts
BY DEF Event, Statuses

\* The side of a line that is filled.
LEMMA LineFilled ==
  ASSUME NEW l \in Match, NEW side \in Sides, NEW i \in Nat, NEW more, more = [l EXCEPT !.seen[side] = i]
  PROVE  /\ more \in Match /\ more.room = l.room /\ more.players = l.players /\ more.winner = l.winner
         /\ more.played = l.played /\ more.seen[side] = i
         /\ \A t \in Sides : t # side => more.seen[t] = l.seen[t]
<1> DEFINE seen == [l.seen EXCEPT ![side] = i]
<1>1. l.seen \in (Nat \cup {None}) \X (Nat \cup {None})
  BY DEF Match
<1>2. /\ seen \in (Nat \cup {None}) \X (Nat \cup {None}) /\ seen[side] = i
      /\ \A t \in Sides : t # side => seen[t] = l.seen[t]
  BY <1>1 DEF Sides
<1>3. more = [l EXCEPT !.seen = seen]
  BY DEF Match
<1> HIDE DEF seen
<1>4. /\ more \in Match /\ more.room = l.room /\ more.players = l.players /\ more.winner = l.winner
      /\ more.played = l.played /\ more.seen = seen
  BY <1>2, <1>3 DEF Match
<1> QED
  BY <1>2, <1>4

\* The line a transaction writes: the one it leaves out, if any, has lost nothing
\* in the one it puts in, which has the event on its side.
Row(w, new, old, side) ==
  LET i == work[w].event IN
  /\ new \in Match /\ old \subseteq matches /\ side \in Sides
  /\ matches' = (matches \ old) \cup {new}
  /\ new.room = work[w].room /\ new.winner = WinnerAt(w) /\ new.players[side] = Mine(w).npid
  /\ new.seen[side] = i
  /\ \A t \in Sides : new.seen[t] # None /\ t # side => \E m \in old : m.seen[t] = new.seen[t]
  /\ \A m \in old : /\ m.room = new.room /\ m.players = new.players /\ m.winner = new.winner
                    /\ m.played = new.played /\ m.seen[side] = None /\ m.room # None
                    /\ Apart(m.played, Mine(w).saved) <= SAME_MATCH_WINDOW
                    /\ \A t \in Sides : t # side => m.seen[t] = new.seen[t]
  /\ \A m, n \in old : m = n
  /\ old = {} => /\ new.played = Mine(w).saved
                 /\ new.room = None => side = 1
                 /\ new.room # None => new.players = rooms[new.room].users /\ Open(w) = {}

LEMMA RowWritten ==
  ASSUME QInv, NEW w \in Workers, Busy(w), ReadyToWrite(w), matches' = Written(w)
  PROVE  \E new, old :
           /\ Row(w, new, old, SideAt(w))
           /\ IF work[w].line = None THEN old = {}
              ELSE old = {work[w].line} /\ new = [work[w].line EXCEPT !.seen[SideAt(w)] = work[w].event]
<1> DEFINE r == work[w].room
           i == work[w].event
           side == SideAt(w)
           l == work[w].line
<1>1. /\ i \in DOMAIN events /\ i \in Nat /\ Mine(w).npid \in Players /\ Mine(w).won \in BOOLEAN
      /\ Mine(w).saved \in Nat /\ r \in Rooms \cup {None} /\ l \in Match \cup {None}
  BY ClaimKept, EventFacts, WorkFacts DEF QInv, Mine
<1>2. Place(w) /\ Found(w)
  BY DEF QInv, Transactions
<1>3. /\ r # None => /\ rooms[r] # NoRoom /\ side \in Sides /\ rooms[r].users[side] = Mine(w).npid
                     /\ rooms[r] \in Room
      /\ r = None => side = 1
  <2>1. r = None => side = 1
    BY DEF SideAt, SideOf
  <2>2. r # None => rooms[r] # NoRoom /\ side \in Sides /\ rooms[r].users[side] = Mine(w).npid
    BY <1>1, <1>2, SideFacts DEF Place, QInv, SideAt
  <2>3. r # None => rooms[r] \in Room
    BY <1>1, <2>2 DEF QInv, Types
  <2> QED
    BY <2>1, <2>2, <2>3
<1>4. side \in Sides /\ WinnerAt(w) \in Sides
  BY <1>1, <1>3, WinnerFacts DEF WinnerAt, Sides
<1>5. CASE l # None
  <2>1. work[w].pc = "found" /\ r # None
    BY <1>2, <1>5 DEF Place, Locked
  <2>2. l \in Open(w)
    BY <1>2, <1>5, <2>1 DEF Found
  <2>3. /\ l \in matches /\ l.room = r /\ l.winner = WinnerAt(w) /\ l.seen[side] = None
        /\ Apart(l.played, Mine(w).saved) <= SAME_MATCH_WINDOW /\ l \in Match
    BY <2>2 DEF Open, Fillable, QInv, Types
  <2>4. PICK new : new = [l EXCEPT !.seen[side] = i]
    OBVIOUS
  <2>5. matches' = (matches \ {l}) \cup {new}
    BY <1>5, <2>4 DEF Written, SideAt, Mine
  <2>6. l.players = rooms[r].users
    BY <2>1, <2>3 DEF QInv, Lines, Line
  <2> HIDE DEF r, i, side, l
  <2>7. /\ new \in Match /\ new.room = l.room /\ new.players = l.players /\ new.winner = l.winner
        /\ new.played = l.played /\ new.seen[side] = i
        /\ \A t \in Sides : t # side => new.seen[t] = l.seen[t]
    BY <1>1, <1>4, <2>3, <2>4, LineFilled
  <2>8. Row(w, new, {l}, side)
    BY <1>3, <1>4, <2>1, <2>3, <2>5, <2>6, <2>7 DEF Row, r, i
  <2> QED
    BY <1>5, <2>4, <2>8 DEF side, l, i
<1>6. CASE l = None
  <2> DEFINE seen(s) == IF s = side THEN i ELSE None
             players == IF r = None THEN <<Mine(w).npid, None>> ELSE rooms[r].users
             new == [room |-> r, players |-> players, winner |-> WinnerAt(w),
                     seen |-> <<seen(1), seen(2)>>, played |-> Mine(w).saved]
  <2>1. matches' = matches \cup {new}
    BY <1>6 DEF Written, SideAt, WinnerAt, Mine
  <2>2. players \in (Players \cup {None}) \X (Players \cup {None}) /\ players[side] = Mine(w).npid
    BY <1>1, <1>3 DEF Room
  <2>3. /\ <<seen(1), seen(2)>> \in (Nat \cup {None}) \X (Nat \cup {None}) /\ <<seen(1), seen(2)>>[side] = i
        /\ \A t \in Sides : t # side => <<seen(1), seen(2)>>[t] = None
    BY <1>1, <1>4 DEF Sides
  <2>4. r # None => players = rooms[r].users /\ Open(w) = {}
    <3>1. \A m \in Open(w) : m # None
      BY LineAssumption DEF Open, Fillable, QInv, Types
    <3>2. r # None => work[w].pc = "found"
      BY DEF ReadyToWrite
    <3>3. r # None => Open(w) = {}
      BY <1>2, <1>6, <3>1, <3>2 DEF Found
    <3> QED
      BY <3>3
  <2> HIDE DEF r, i, side, l, seen, players
  <2>5. /\ new \in Match /\ new.room = r /\ new.players = players /\ new.winner = WinnerAt(w)
        /\ new.seen = <<seen(1), seen(2)>> /\ new.played = Mine(w).saved
    BY <1>1, <1>4, <2>2, <2>3 DEF Match
  <2> HIDE DEF new
  <2>6. Row(w, new, {}, side)
    BY <1>1, <1>3, <1>4, <2>1, <2>2, <2>3, <2>4, <2>5 DEF Row, r, i
  <2> QED
    BY <1>6, <2>6 DEF side, l
<1> QED
  BY <1>5, <1>6

LEMMA SettleStep ==
  ASSUME QInv, NEW w \in Workers, Settle(w)
  PROVE  QInv'
<1> DEFINE i == work[w].event
           side == SideAt(w)
<1>1. Busy(w) /\ ReadyToWrite(w) /\ End(w) /\ UNCHANGED rooms /\ matches' = Written(w)
  BY DEF Settle, ReadyToWrite, Busy
<1>2. PICK new, old : Row(w, new, old, side)
  BY <1>1, RowWritten
<1>3. i \in DOMAIN events /\ events[i] = Mine(w) /\ Mine(w).status = "pending" /\ Mine(w) \in Event /\ i \in Nat
  BY <1>1, ClaimKept, EventFacts DEF QInv, Mine
<1>4. PICK e \in Event : /\ events' = [events EXCEPT ![i] = e] /\ e.npid = Mine(w).npid /\ e.won = Mine(w).won
                         /\ e.saved = Mine(w).saved /\ e.status = "done" /\ e.attempts = Mine(w).attempts
  <2> DEFINE more == [Mine(w) EXCEPT !.status = "done"]
  <2>1. /\ more \in Event /\ more.npid = Mine(w).npid /\ more.won = Mine(w).won
        /\ more.saved = Mine(w).saved /\ more.status = "done" /\ more.attempts = Mine(w).attempts
    BY <1>3, EventDone
  <2>2. events' = [events EXCEPT ![i] = more]
    BY <1>3 DEF Settle, Mine
  <2> HIDE DEF more, i
  <2> QED
    BY <2>1, <2>2
<1>5. /\ DOMAIN events' = DOMAIN events /\ events'[i] = e
      /\ \A j \in DOMAIN events : j # i => events'[j] = events[j]
  BY <1>3, <1>4, EventReplaced DEF QInv
<1>6. /\ new \in Match /\ old \subseteq matches /\ side \in Sides /\ matches' = (matches \ old) \cup {new}
      /\ new.room = work[w].room /\ new.winner = WinnerAt(w) /\ new.players[side] = Mine(w).npid
      /\ new.seen[side] = i
      /\ \A t \in Sides : new.seen[t] # None /\ t # side => \E m \in old : m.seen[t] = new.seen[t]
      /\ \A m \in old : /\ m.room = new.room /\ m.players = new.players /\ m.winner = new.winner
                        /\ m.played = new.played /\ m.seen[side] = None /\ m.room # None
                        /\ Apart(m.played, Mine(w).saved) <= SAME_MATCH_WINDOW
                        /\ \A t \in Sides : t # side => m.seen[t] = new.seen[t]
      /\ \A m, n \in old : m = n
      /\ old = {} => /\ new.played = Mine(w).saved
                     /\ new.room = None => side = 1
                     /\ new.room # None => new.players = rooms[new.room].users /\ Open(w) = {}
  BY <1>2 DEF Row
<1>7. matches \subseteq Match /\ \A m \in matches : Line(m) /\ \A s \in Sides : Seen(m, s)
  BY DEF QInv, Types, Lines
<1>8. i # None /\ WinnerAt(w) \in Sides /\ (WinnerAt(w) = side <=> Mine(w).won)
  BY <1>3, <1>6, WinnerFacts, QueueAssumption DEF WinnerAt, Event
<1> HIDE DEF i, side
<1>9. Types' /\ TwoPlayers' /\ Claims' /\ Transactions' /\ Kept /\ SameRooms
  <2>1. matches' \subseteq Match
    BY <1>6, <1>7
  <2>2. ASSUME NEW v \in Workers, v # w, Locked(v)
        PROVE  {m \in matches' : m.room = work[v].room} = {m \in matches : m.room = work[v].room}
    <3>1. work[v].room # None /\ lock[work[v].room] = v
      BY <2>2 DEF QInv, Transactions, Place, Locked, Busy
    <3>2. work[w].room # None => lock[work[w].room] = w
      BY <1>1 DEF QInv, Transactions, Place, Locked, ReadyToWrite
    <3>3. new.room # work[v].room /\ \A m \in old : m.room # work[v].room
      BY <1>6, <2>2, <3>1, <3>2
    <3> QED
      BY <1>6, <3>3
  <2> QED
    BY <1>1, <1>4, <2>1, <2>2, EndStep DEF i
\* The line that is written is a line, and its sides go back to events that are done.
<1>10. \A t \in Sides : Seen(new, t)'
  <2> TAKE t \in Sides
  <2>1. CASE t = side
    BY <1>3, <1>4, <1>5, <1>6, <1>8, <2>1 DEF Seen
  <2>2. CASE t # side
    <3> SUFFICES ASSUME new.seen[t] # None PROVE Seen(new, t)'
      BY DEF Seen
    <3>1. PICK m \in old : m.seen[t] = new.seen[t]
      BY <1>6, <2>2
    <3>2. Seen(m, t) /\ m.players = new.players /\ m.winner = new.winner
      BY <1>6, <1>7
    <3> QED
      BY <1>9, <3>1, <3>2 DEF Seen, Kept
  <2> QED
    BY <2>1, <2>2
<1>11. Line(new)'
  <2>1. CASE old = {}
    <3>1. \A t \in Sides : t # side => new.seen[t] = None
      BY <1>6, <2>1
    <3>2. new.room = None => new.seen[2] = None
      BY <1>6, <2>1, <3>1 DEF Sides
    <3>3. new.room # None => rooms'[new.room] # NoRoom /\ new.players = rooms'[new.room].users
      BY <1>1, <1>6, <2>1 DEF QInv, Transactions, Place
    <3>4. new.seen[side] # None /\ new.played = events'[new.seen[side]].saved
      BY <1>4, <1>5, <1>6, <1>8, <2>1
    <3>5. ~(new.seen[1] # None /\ new.seen[2] # None)
      BY <1>6, <3>1 DEF Sides
    <3> QED
      BY <1>6, <3>2, <3>3, <3>4, <3>5 DEF Line
  <2>2. CASE old # {}
    <3>1. PICK m \in old : TRUE
      BY <2>2
    <3>2. /\ Line(m) /\ m.room = new.room /\ m.players = new.players /\ m.room # None
          /\ m.played = new.played /\ m.seen[side] = None
          /\ Apart(m.played, Mine(w).saved) <= SAME_MATCH_WINDOW
          /\ \A t \in Sides : t # side => m.seen[t] = new.seen[t]
      BY <1>6, <1>7, <3>1
    <3>3. PICK t \in Sides : m.seen[t] # None /\ m.played = events[m.seen[t]].saved
      BY <3>2 DEF Line
    <3>4. t # side /\ new.seen[t] = m.seen[t]
      BY <3>2, <3>3
    <3>5. m.seen[t] \in DOMAIN events
      BY <1>6, <1>7, <3>1, <3>3 DEF Seen
    <3>6. new.played = events'[new.seen[t]].saved
      BY <1>9, <3>2, <3>3, <3>4, <3>5 DEF Kept
    <3>7. events'[i].saved = Mine(w).saved /\ Mine(w).saved \in Nat /\ m.played \in Nat
      <4>1. Mine(w).saved \in Nat
        BY <1>3 DEF Event
      <4>2. m.played \in Nat
        BY <1>6, <1>7, MatchFacts
      <4> QED
        BY <1>4, <1>5, <4>1, <4>2
    <3>8. Apart(events'[new.seen[1]].saved, events'[new.seen[2]].saved) <= SAME_MATCH_WINDOW
      <4>1. events'[new.seen[side]].saved = Mine(w).saved
        BY <1>6, <3>7
      <4>2. /\ Apart(new.played, Mine(w).saved) <= SAME_MATCH_WINDOW
            /\ Apart(Mine(w).saved, new.played) <= SAME_MATCH_WINDOW
        BY <3>2, <3>7, ApartSymmetric
      <4>3. (side = 1 /\ t = 2) \/ (side = 2 /\ t = 1)
        BY <1>6, <3>4 DEF Sides
      <4> QED
        BY <3>6, <4>1, <4>2, <4>3
    <3>9. new.room # None => rooms'[new.room] # NoRoom /\ new.players = rooms'[new.room].users
      BY <1>1, <3>2 DEF Line
    <3> QED
      BY <3>2, <3>3, <3>4, <3>6, <3>8, <3>9 DEF Line
  <2> QED
    BY <2>1, <2>2
<1>12. Lines'
  <2>1. \A m \in matches : Line(m)' /\ \A s \in Sides : Seen(m, s)'
    BY <1>7, <1>9, LineKept DEF QInv
  <2> QED
    BY <1>6, <1>10, <1>11, <2>1 DEF Lines
\* Its event is on no other side, and the events of the line it replaces stay on it.
<1>13. Entered'
  <2>1. ASSUME NEW j \in DOMAIN events', events'[j].status = "done"
        PROVE  \E m \in matches', s \in Sides : m.seen[s] = j
    <3>1. CASE j = i
      BY <1>6, <3>1
    <3>2. CASE j # i
      <4>1. PICK m \in matches, s \in Sides : m.seen[s] = j
        BY <1>5, <2>1, <3>2 DEF QInv, Entered
      <4>2. CASE m \in old
        <5>1. s # side
          BY <1>5, <1>6, <2>1, <4>1, <4>2, EventFacts, QueueAssumption DEF QInv
        <5> QED
          BY <1>6, <4>1, <4>2, <5>1
      <4>3. CASE m \notin old
        BY <1>6, <4>1, <4>3
      <4> QED
        BY <4>2, <4>3
    <3> QED
      BY <3>1, <3>2
  <2>2. \A m \in matches, s \in Sides : m.seen[s] # i
    <3> TAKE m \in matches, s \in Sides
    <3> SUFFICES ASSUME m.seen[s] = i PROVE FALSE
      OBVIOUS
    <3> QED
      BY <1>3, <1>7, <1>8 DEF Seen
  <2>3. \A t \in Sides : t # side => new.seen[t] # i
    BY <1>6, <1>8, <2>2
  <2>4. ASSUME NEW n \in matches \ old, NEW s \in Sides, NEW t \in Sides,
               new.seen[s] # None, new.seen[s] = n.seen[t]
        PROVE  FALSE
    <3>1. s # side
      BY <1>6, <2>2, <2>4
    <3>2. PICK m \in old : m.seen[s] = new.seen[s]
      BY <1>6, <2>4, <3>1
    <3>3. m = n
      BY <1>6, <2>4, <3>2 DEF QInv, Entered
    <3> QED
      BY <2>4, <3>3
  <2>5. ASSUME NEW s \in Sides, NEW t \in Sides, new.seen[s] # None, new.seen[s] = new.seen[t]
        PROVE  s = t
    BY <1>6, <2>3, <2>5 DEF Sides
  <2>6. \A m, n \in matches', s, t \in Sides :
          m.seen[s] # None /\ m.seen[s] = n.seen[t] => m = n /\ s = t
    <3> TAKE m, n \in matches', s, t \in Sides
    <3> HAVE m.seen[s] # None /\ m.seen[s] = n.seen[t]
    <3>1. CASE m # new /\ n # new
      BY <1>6, <3>1 DEF QInv, Entered
    <3>2. CASE m = new /\ n = new
      BY <2>5, <3>2
    <3>3. CASE m = new /\ n # new
      BY <1>6, <2>4, <3>3
    <3>4. CASE m # new /\ n = new
      BY <1>6, <2>4, <3>4
    <3> QED
      BY <3>1, <3>2, <3>3, <3>4
  <2> QED
    BY <2>1, <2>6 DEF Entered
\* It is not the second half of a match of which another row is the first.
<1>14. Joined'
  <2>1. ASSUME NEW m \in matches, m \notin old PROVE ~Split(new, m) /\ ~Split(m, new)
    <3>1. CASE old = {}
      <4>1. /\ m.played \in Nat /\ Mine(w).saved \in Nat /\ new.played = Mine(w).saved
            /\ Apart(new.played, m.played) = Apart(m.played, new.played)
        <5>1. Mine(w).saved \in Nat
          BY <1>3 DEF Event
        <5>2. m.played \in Nat
          BY <1>7, MatchFacts
        <5> QED
          BY <1>6, <3>1, <5>1, <5>2, ApartSymmetric
      <4>2. new.room # None => m \notin Open(w)
        BY <1>6, <3>1
      <4>3. new.room # None =>
              ~ (m.room = new.room /\ m.winner = new.winner /\ m.seen[side] = None
                 /\ Apart(m.played, new.played) <= SAME_MATCH_WINDOW)
        BY <1>6, <4>1, <4>2 DEF Open, Fillable, side
      <4>4. side = 1 \/ side = 2
        BY <1>6 DEF Sides
      <4> QED
        BY <1>6, <1>8, <4>1, <4>3, <4>4 DEF Split
    <3>2. CASE old # {}
      <4>1. PICK l \in old : TRUE
        BY <3>2
      <4>2. ~Split(l, m) /\ ~Split(m, l) /\ l # m
        BY <1>6, <2>1 DEF QInv, Joined
      <4>3. \A t \in Sides : new.seen[t] = None => l.seen[t] = None
        BY <1>6, <1>8
      <4> QED
        BY <1>6, <4>2, <4>3 DEF Split, Sides
    <3> QED
      BY <3>1, <3>2
  <2>2. \A m, n \in matches : ~Split(m, n)
    BY DEF QInv, Joined
  <2>3. ~Split(new, new)
    BY DEF Split
  <2>4. \A m, n : Split(m, n)' <=> Split(m, n)
    BY DEF Split
  <2> QED
    BY <1>6, <2>1, <2>2, <2>3, <2>4 DEF Joined
<1>15. Attempts'
  BY <1>3, <1>4, <1>5 DEF QInv, Attempts
<1> QED
  BY <1>9, <1>12, <1>13, <1>14, <1>15 DEF QInv

----------------------------------------------------------------------------
(* The theorems *)

\* QInv is an invariant: of every open transaction, that what it read still holds;
\* of every line, that it goes back to events that are done.
THEOREM QueueInvariant == Spec => []QInv
<1>1. QInv /\ [Next]_vars => QInv'
  <2> SUFFICES ASSUME QInv, [Next]_vars PROVE QInv'
    OBVIOUS
  <2>1. ASSUME NEW w \in Workers, Step(w) PROVE QInv'
    BY <2>1, ClaimStep, LookStep, LockRoomStep, FindStep, SettleStep DEF Step
  <2>2. ASSUME UNCHANGED vars PROVE QInv'
    <3>1. UNCHANGED <<rooms, events, matches, lock, work>>
      BY <2>2 DEF vars
    <3>2. Kept /\ SameRooms /\ TwoPlayers' /\ Attempts'
      BY <3>1 DEF Kept, SameRooms, QInv, TwoPlayers, Attempts
    <3> QED
      BY <3>1, <3>2, DataStep DEF QInv, Types
  <2> QED
    BY <2>1, <2>2, SightStep, QueueStep, FailStep, CrashStep, TickStep DEF Next
<1> QED
  BY <1>1, QueueInit, PTL DEF Spec

\* However often an event was tried and by however many workers, the matches name
\* it once if it is done, as what it was, and otherwise not at all.
THEOREM EventsSettleOnce == Spec => []SettledOnce
<1>1. QInv => SettledOnce
  <2> SUFFICES ASSUME QInv, NEW i \in DOMAIN events
               PROVE  LET naming == {m \in matches : i \in {m.seen[1], m.seen[2]}} IN
                      IF events[i].status = "done"
                      THEN /\ Cardinality(naming) = 1
                           /\ \A m \in naming : \E side \in Sides :
                                /\ m.seen[side] = i
                                /\ m.players[side] = events[i].npid
                                /\ (m.winner = side) = events[i].won
                      ELSE naming = {}
    BY DEF SettledOnce
  <2> DEFINE naming == {m \in matches : i \in {m.seen[1], m.seen[2]}}
  <2>1. i # None
    BY EventFacts, QueueAssumption DEF QInv
  <2>2. \A m \in naming : \E side \in Sides : m.seen[side] = i
    BY DEF Sides
  <2>3. \A m \in naming, side \in Sides : m.seen[side] = i =>
          /\ events[i].status = "done" /\ m.players[side] = events[i].npid
          /\ m.winner = side <=> events[i].won
    BY <2>1 DEF QInv, Lines, Seen
  <2>4. CASE events[i].status = "done"
    <3>1. PICK m \in matches, side \in Sides : m.seen[side] = i
      BY <2>4 DEF QInv, Entered
    <3>2. m \in naming
      BY <3>1 DEF Sides
    <3>3. \A n \in naming : n = m
      BY <2>1, <2>2, <3>1 DEF QInv, Entered
    <3>4. naming = {m}
      BY <3>2, <3>3
    <3>5. Cardinality(naming) = 1
      BY <3>4, FS_Singleton
    <3>6. events[i].won \in BOOLEAN
      BY EventFacts DEF QInv
    <3> HIDE DEF naming
    <3>7. \A n \in naming : \E s \in Sides :
            n.seen[s] = i /\ n.players[s] = events[i].npid /\ (n.winner = s) = events[i].won
      <4> TAKE n \in naming
      <4>1. PICK s \in Sides : n.seen[s] = i
        BY <2>2
      <4>2. n.players[s] = events[i].npid /\ (n.winner = s <=> events[i].won)
        BY <2>3, <4>1
      <4>3. (n.winner = s) = events[i].won
        BY <3>6, <4>2
      <4> QED
        BY <4>1, <4>2, <4>3
    <3> QED
      BY <2>4, <3>5, <3>7 DEF naming
  <2>5. CASE events[i].status # "done"
    BY <2>2, <2>3, <2>5
  <2> QED
    BY <2>4, <2>5
<1> QED
  BY <1>1, QueueInvariant, PTL

\* The two sides of one match are one row, whoever came first, and the two events of
\* a row are a winner's and a loser's that ended close to each other.
THEOREM SidesAlwaysAgree == Spec => []SidesAgree
<1>1. QInv => SidesAgree
  <2> SUFFICES ASSUME QInv PROVE SidesAgree
    OBVIOUS
  <2>1. ASSUME NEW m \in matches, m.seen[1] # None, m.seen[2] # None
        PROVE  LET e == events[m.seen[1]]
                   f == events[m.seen[2]] IN
               /\ e.npid # f.npid /\ e.won # f.won
               /\ Apart(e.saved, f.saved) <= SAME_MATCH_WINDOW
               /\ m.played \in {e.saved, f.saved}
    <3>1. Line(m) /\ Seen(m, 1) /\ Seen(m, 2) /\ m \in Match
      BY DEF QInv, Lines, Sides, Types
    <3>2. m.room # None /\ m.room \in Rooms /\ rooms[m.room] # NoRoom /\ m.players = rooms[m.room].users
      BY <2>1, <3>1, MatchFacts DEF Line
    <3>3. m.players[1] # m.players[2]
      BY <3>2 DEF QInv, TwoPlayers
    <3>4. /\ m.seen[1] \in DOMAIN events /\ m.players[1] = events[m.seen[1]].npid
          /\ m.winner = 1 <=> events[m.seen[1]].won
          /\ m.seen[2] \in DOMAIN events /\ m.players[2] = events[m.seen[2]].npid
          /\ m.winner = 2 <=> events[m.seen[2]].won
      BY <2>1, <3>1 DEF Seen
    <3>5. m.winner \in {1, 2}
      BY <3>1, MatchFacts DEF Sides
    <3>6. events[m.seen[1]].won # events[m.seen[2]].won
      BY <3>4, <3>5
    <3>7. m.played \in {events[m.seen[1]].saved, events[m.seen[2]].saved}
      BY <3>1 DEF Line, Sides
    <3> QED
      BY <2>1, <3>1, <3>3, <3>4, <3>6, <3>7 DEF Line
  <2> QED
    BY <2>1 DEF SidesAgree, QInv, Joined, Split
<1> QED
  BY <1>1, QueueInvariant, PTL

\* An event is given up after exactly _MAX_ATTEMPTS failures: crashes use up none.
THEOREM EventsGivenUpInTime == Spec => []GivenUpInTime
<1>1. QInv => GivenUpInTime
  BY DEF QInv, Attempts, GivenUpInTime
<1> QED
  BY <1>1, QueueInvariant, PTL

----------------------------------------------------------------------------
(* The refinement of MatchBook *)

\* What the book shows of the events.
Entry(e) == [npid |-> e.npid, won |-> e.won, saved |-> e.saved, status |-> e.status]
Page == [i \in DOMAIN events |-> Entry(events[i])]

\* Steps that change nothing the book shows.
LEMMA SamePage ==
  ASSUME DOMAIN events' = DOMAIN events,
         \A i \in DOMAIN events : Entry(events'[i]) = Entry(events[i])
  PROVE  Page' = Page
BY DEF Page

LEMMA EntryFacts ==
  ASSUME NEW e, NEW f, f.npid = e.npid, f.won = e.won, f.saved = e.saved
  PROVE  /\ f.status = e.status => Entry(f) = Entry(e)
         /\ Entry(f) = [Entry(e) EXCEPT !.status = f.status]
         /\ Entry(e).npid = e.npid /\ Entry(e).won = e.won /\ Entry(e).saved = e.saved
         /\ Entry(e).status = e.status
BY DEF Entry

\* The event of a transaction that is over changes its status, if anything.
LEMMA PageChanged ==
  ASSUME NEW i \in DOMAIN events, DOMAIN events' = DOMAIN events,
         \A j \in DOMAIN events : j # i => events'[j] = events[j],
         events'[i].npid = events[i].npid, events'[i].won = events[i].won, events'[i].saved = events[i].saved
  PROVE  Page' = [Page EXCEPT ![i].status = events'[i].status]
<1> DEFINE new == [Page[i] EXCEPT !.status = events'[i].status]
<1>1. Page[i] = Entry(events[i]) /\ Page'[i] = Entry(events'[i])
  BY DEF Page
<1>2. Page'[i] = new
  BY <1>1, EntryFacts
<1> HIDE DEF new
<1>3. Page' = [Page EXCEPT ![i] = new]
  BY <1>2 DEF Page
<1> QED
  BY <1>3 DEF new

LEMMA PageFacts ==
  ASSUME NEW i \in DOMAIN events
  PROVE  /\ DOMAIN Page = DOMAIN events /\ Page[i] = Entry(events[i])
         /\ Page[i].npid = events[i].npid /\ Page[i].won = events[i].won /\ Page[i].saved = events[i].saved
         /\ Page[i].status = events[i].status
<1>1. DOMAIN Page = DOMAIN events /\ Page[i] = Entry(events[i])
  BY DEF Page
<1> QED
  BY <1>1, EntryFacts

LEMMA BookApart == \A s, t : Book!Apart(s, t) = Apart(s, t)
BY DEF Apart, Book!Apart

\* What it takes to enter an event into the book.
MarksDone(i) == Page[i].status = "pending" /\ Page' = [Page EXCEPT ![i].status = "done"]

OpensLine(i, room, side, winner) ==
  \E m \in matches' :
    /\ m.room = room /\ m.winner = winner /\ m.played = Page[i].saved
    /\ m.players[side] = Page[i].npid
    /\ m.seen[side] = i /\ m.seen[3 - side] = None
    /\ matches' = matches \cup {m}

FillsLine(i, side, open) ==
  \E m \in open :
    /\ \A n \in open : Apart(m.played, Page[i].saved) <= Apart(n.played, Page[i].saved)
    /\ m.players[side] = Page[i].npid
    /\ matches' = (matches \ {m}) \cup {[m EXCEPT !.seen[side] = i]}

WinnerIs(i, side, winner) == winner = IF Page[i].won THEN side ELSE 3 - side

LEMMA EnterBook ==
  ASSUME NEW i \in DOMAIN Page, NEW room \in Rooms \cup {None}, NEW side \in Sides, NEW winner, NEW open,
         WinnerIs(i, side, winner), MarksDone(i),
         open = IF room = None THEN {} ELSE Book!Fillable(room, winner, side, Page[i].saved),
         IF open = {} THEN OpensLine(i, room, side, winner) ELSE FillsLine(i, side, open)
  PROVE  \E j \in DOMAIN Page, r \in Rooms \cup {None}, s \in Sides : Book!Enter(j, r, s)
<1>1. Book!Enter(i, room, side)
  BY BookApart DEF WinnerIs, MarksDone, OpensLine, FillsLine, Book!Enter, Book!Other, Page, Entry
<1> QED
  BY <1>1, Zenon

\* A transaction that commits a match enters its event into the book.
LEMMA SettleEnters ==
  ASSUME QInv, NEW w \in Workers, Settle(w)
  PROVE  \E i \in DOMAIN Page, room \in Rooms \cup {None}, side \in Sides : Book!Enter(i, room, side)
<1> DEFINE i == work[w].event
           r == work[w].room
           side == SideAt(w)
           l == work[w].line
<1>1. Busy(w) /\ ReadyToWrite(w) /\ matches' = Written(w) /\ events' = [events EXCEPT ![i].status = "done"]
  BY DEF Settle, ReadyToWrite, Busy
<1>2. /\ i \in DOMAIN events /\ Mine(w).status = "pending" /\ events[i] = Mine(w) /\ Mine(w) \in Event
      /\ r \in Rooms \cup {None} /\ events \in Seq(Event) /\ i \in Nat
  BY <1>1, ClaimKept, EventFacts, WorkFacts DEF QInv, Types, Mine
<1>3. PICK new, old : /\ Row(w, new, old, side)
                      /\ IF l = None THEN old = {} ELSE old = {l} /\ new = [l EXCEPT !.seen[side] = i]
  BY <1>1, RowWritten
<1>4. Place(w) /\ Found(w) /\ (r = None => l = None)
  <2>1. Place(w) /\ Found(w)
    BY DEF QInv, Transactions
  <2>2. r = None => work[w].pc # "found"
    BY <1>1, <2>1 DEF Place, Locked
  <2> QED
    BY <1>1, <2>1, <2>2 DEF Place
<1>5. MarksDone(i)
  <2>1. /\ events'[i] = [events[i] EXCEPT !.status = "done"] /\ DOMAIN events' = DOMAIN events
        /\ \A j \in DOMAIN events : j # i => events'[j] = events[j]
    BY <1>1, <1>2
  <2>2. /\ events'[i].npid = events[i].npid /\ events'[i].won = events[i].won
        /\ events'[i].saved = events[i].saved /\ events'[i].status = "done"
    BY <1>2, <2>1, EventDone
  <2> HIDE DEF i
  <2> QED
    BY <1>2, <2>1, <2>2, PageChanged, PageFacts, ZenonT(30) DEF MarksDone
<1>6. /\ i \in DOMAIN Page /\ Page[i].status = "pending" /\ Page[i].npid = Mine(w).npid
      /\ Page[i].saved = Mine(w).saved /\ (Page[i].won = Mine(w).won)
  BY <1>2, PageFacts
<1>7. WinnerIs(i, side, WinnerAt(w))
  BY <1>6 DEF WinnerIs, WinnerAt, WinnerOf, Other
<1>8. Book!Fillable(r, WinnerAt(w), side, Page[i].saved) = Open(w)
  BY <1>6 DEF Book!Fillable, Book!Apart, Open, Fillable, Apart
<1> DEFINE open == IF r = None THEN {} ELSE Open(w)
<1>9. side \in Sides
  BY <1>3 DEF Row
<1>12. open = IF r = None THEN {} ELSE Book!Fillable(r, WinnerAt(w), side, Page[i].saved)
  BY <1>8
<1>10. CASE l = None
  <2>1. open = {}
    <3>1. \A m \in Open(w) : m # None
      BY LineAssumption DEF Open, Fillable, QInv, Types
    <3>2. r # None => work[w].pc = "found"
      BY <1>1 DEF ReadyToWrite
    <3> QED
      BY <1>4, <1>10, <3>1, <3>2 DEF Found
  <2>2. /\ matches' = matches \cup {new}
        /\ new.room = r /\ new.winner = WinnerAt(w) /\ new.played = Mine(w).saved
        /\ new.players[side] = Mine(w).npid /\ new.seen[side] = i
        /\ \A t \in Sides : t # side => new.seen[t] = None
    BY <1>3, <1>10 DEF Row
  <2>3. new.seen[3 - side] = None
    BY <1>9, <2>2 DEF Sides
  <2> HIDE DEF i, r, side, l
  <2>4. OpensLine(i, r, side, WinnerAt(w))
    BY <1>6, <2>2, <2>3 DEF OpensLine
  <2> HIDE DEF open
  <2> QED
    BY <1>2, <1>5, <1>6, <1>7, <1>9, <1>12, <2>1, <2>4, EnterBook
<1>11. CASE l # None
  <2>1. r # None /\ open = Open(w)
    BY <1>4, <1>11
  <2>2. /\ l \in Open(w)
        /\ \A n \in Open(w) : Apart(l.played, Mine(w).saved) <= Apart(n.played, Mine(w).saved)
    BY <1>1, <1>4, <1>11, <2>1 DEF Found, ReadyToWrite
  <2>3. /\ matches' = (matches \ {l}) \cup {[l EXCEPT !.seen[side] = i]}
        /\ l.players[side] = Mine(w).npid
    <3>1. new.players[side] = Mine(w).npid /\ \A m \in old : m.players = new.players
      BY <1>3 DEF Row
    <3> QED
      BY <1>3, <1>11, <3>1 DEF Row
  <2> HIDE DEF i, r, side, l
  <2>4. FillsLine(i, side, open)
    BY <1>6, <2>1, <2>2, <2>3 DEF FillsLine
  <2>5. open # {}
    BY <2>1, <2>2
  <2> HIDE DEF open
  <2> QED
    BY <1>2, <1>5, <1>6, <1>7, <1>9, <1>12, <2>4, <2>5, EnterBook
<1> QED
  BY <1>10, <1>11

LEMMA FailGivesUp ==
  ASSUME QInv, NEW w \in Workers, Fail(w)
  PROVE  UNCHANGED <<Page, matches>> \/ \E i \in DOMAIN Page : Book!GiveUp(i)
<1> DEFINE i == work[w].event
           a == events[i].attempts + 1
<1>1. Busy(w) /\ UNCHANGED matches
  BY DEF Fail, Busy
<1>2. /\ i \in DOMAIN events /\ events[i].status = "pending" /\ events[i] \in Event
      /\ events \in Seq(Event)
  BY <1>1, ClaimKept, EventFacts DEF QInv, Types
<1>3. /\ DOMAIN events' = DOMAIN events
      /\ \A j \in DOMAIN events : j # i => events'[j] = events[j]
      /\ events'[i] = [events[i] EXCEPT !.attempts = a, !.wait = RETRY_DELAY * a,
                                        !.status = IF a >= MAX_ATTEMPTS THEN "dead" ELSE @]
  BY <1>2 DEF Fail
<1>4. /\ events'[i].npid = events[i].npid /\ events'[i].saved = events[i].saved
      /\ events'[i].status \in {"pending", "dead"}
  BY <1>2, <1>3 DEF Event
<1>5. events'[i].won = events[i].won
  BY <1>2, <1>3, Zenon DEF Event
<1> HIDE DEF i, a
<1>6. Page' = [Page EXCEPT ![i].status = events'[i].status]
  BY <1>2, <1>3, <1>4, <1>5, PageChanged
<1>7. i \in DOMAIN Page /\ Page[i].status = "pending"
  BY <1>2, PageFacts
<1>8. CASE events'[i].status = "dead"
  BY <1>1, <1>6, <1>7, <1>8 DEF Book!GiveUp, Page, Entry
<1>9. CASE events'[i].status = "pending"
  <2>1. Entry(events'[i]) = Entry(events[i])
    BY <1>2, <1>4, <1>5, <1>9, EntryFacts
  <2> QED
    BY <1>1, <1>2, <1>3, <2>1, SamePage
<1> QED
  BY <1>4, <1>8, <1>9

LEMMA QueueArrives ==
  ASSUME QInv, NEW u \in Players, NEW won \in BOOLEAN, NEW at \in 0 .. MaxTime, Queue(u, won, at)
  PROVE  Book!Arrive
<1> DEFINE new == [npid |-> u, won |-> won, saved |-> at, status |-> "pending", attempts |-> 0, wait |-> 0]
           n == Len(events) + 1
<1>1. UNCHANGED matches /\ events' = Append(events, new) /\ events \in Seq(Event)
  BY DEF Queue, QInv, Types
<1>2. Entry(new).status = "pending"
  BY DEF Entry
<1> HIDE DEF new
<1>3. /\ Len(events) \in Nat /\ DOMAIN events = 1 .. Len(events) /\ DOMAIN events' = 1 .. n
      /\ \A i \in DOMAIN events : events'[i] = events[i]
      /\ events'[n] = new
  BY <1>1
<1>4. /\ Page = [i \in 1 .. Len(events) |-> Entry(events[i])]
      /\ Page' = [i \in 1 .. n |-> Entry(events'[i])]
  BY <1>3 DEF Page
<1>5. Page \in Seq({Entry(events[i]) : i \in DOMAIN events}) /\ Len(Page) = Len(events)
  BY <1>3, <1>4
<1>6. Page'[n] = Entry(new)
  BY <1>3, <1>4
<1>7. Page' = Append(Page, Page'[n])
  BY <1>3, <1>4, <1>5
<1>8. Len(Page') = n
  BY <1>5, <1>7
<1>9. /\ Len(Page') = Len(Page) + 1 /\ Page'[Len(Page')].status = "pending"
      /\ Page' = Append(Page, Page'[Len(Page')])
  BY <1>2, <1>5, <1>6, <1>7, <1>8
<1> QED
  BY <1>1, <1>9 DEF Book!Arrive, Page, Entry

\* Every step of the queue is a step of the book, or none.
LEMMA BookStep ==
  ASSUME QInv, [Next]_vars
  PROVE  [Book!Next]_(Book!vars)
<1>1. UNCHANGED <<Page, matches>> => UNCHANGED Book!vars
  BY DEF Book!vars, Page, Entry
<1>2. UNCHANGED <<events, matches>> => UNCHANGED <<Page, matches>>
  BY DEF Page
<1>3. ASSUME NEW w \in Workers, Step(w) \/ Crash(w) PROVE [Book!Next]_(Book!vars)
  <2>1. CASE Settle(w)
    BY <2>1, SettleEnters DEF Book!Next, Page, Entry, Sides, Book!Sides
  <2>2. CASE ~Settle(w)
    BY <1>1, <1>2, <1>3, <2>2 DEF Step, Claim, Look, LockRoom, Find, Crash
  <2> QED
    BY <2>1, <2>2
<1>4. ASSUME NEW w \in Workers, Fail(w) PROVE [Book!Next]_(Book!vars)
  BY <1>1, <1>4, FailGivesUp DEF Book!Next, Page, Entry
<1>5. ASSUME NEW u \in Players, NEW won \in BOOLEAN, NEW at \in 0 .. MaxTime, Queue(u, won, at)
      PROVE  [Book!Next]_(Book!vars)
  BY <1>5, QueueArrives DEF Book!Next
<1>6. CASE Tick
  <2>1. events' = [i \in DOMAIN events |-> [events[i] EXCEPT !.wait = IF @ > 0 THEN @ - 1 ELSE 0]]
    BY <1>6 DEF Tick
  <2>2. DOMAIN events' = DOMAIN events /\ UNCHANGED matches
    BY <1>6, <2>1 DEF Tick
  <2>3. ASSUME NEW i \in DOMAIN events PROVE Entry(events'[i]) = Entry(events[i])
    <3> DEFINE n == IF events[i].wait > 0 THEN events[i].wait - 1 ELSE 0
    <3>1. events[i] \in Event /\ n \in Nat
      BY EventFacts DEF QInv
    <3>2. events'[i] = [events[i] EXCEPT !.wait = n]
      BY <2>1
    <3> HIDE DEF n
    <3>3. /\ events'[i].npid = events[i].npid /\ events'[i].won = events[i].won
          /\ events'[i].saved = events[i].saved /\ events'[i].status = events[i].status
      BY <3>1, <3>2, WaitChanged
    <3> QED
      BY <3>3, EntryFacts
  <2>4. UNCHANGED Page
    BY <2>2, <2>3, SamePage
  <2> QED
    BY <1>1, <2>2, <2>4
<1>7. CASE (\E r \in Rooms : Sight(r)) \/ UNCHANGED vars
  BY <1>1, <1>2, <1>7 DEF Sight, vars
<1> QED
  BY <1>3, <1>4, <1>5, <1>6, <1>7 DEF Next

\* The workers' transactions, with their failures, retries and crashes, enter the
\* finished matches into the book one at a time.
THEOREM QueueKeepsTheBook == Spec => EntersOneByOne
<1>1. Init => Book!Init
  BY DEF Init, Book!Init
<1>2. QInv /\ [Next]_vars => [Book!Next]_(Book!vars)
  BY BookStep
<1> QED
  BY <1>1, <1>2, QueueInvariant, PTL DEF Spec, EntersOneByOne, Book!Spec
=============================================================================
