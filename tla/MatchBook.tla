----------------------------- MODULE MatchBook -----------------------------
(***************************************************************************)
(* What the match records promise: the events, one finished match as one   *)
(* player's save showed it, are entered into the book one at a time.  Each *)
(* either opens a line or fills the open side of the line the other        *)
(* player's event opened, is entered once, or is given up and leaves no    *)
(* trace.  No workers, transactions, locks or retries.                     *)
(***************************************************************************)
EXTENDS Integers, Sequences

CONSTANTS Rooms,   \* ids of room snapshots
          Window,  \* how far apart the two saves of one match may be
          None     \* no room, no player, no event

VARIABLES events,  \* [npid, won, saved, status] in the order they were queued
          matches  \* the lines: [room, players, winner, seen, played]

vars == <<events, matches>>

Sides == {1, 2}
Other(side) == 3 - side
Apart(s, t) == IF s >= t THEN s - t ELSE t - s

Init ==
  /\ events = <<>>
  /\ matches = {}

Arrive ==
  /\ Len(events') = Len(events) + 1
  /\ events'[Len(events')].status = "pending"
  /\ events' = Append(events, events'[Len(events')])
  /\ UNCHANGED matches

\* Lines of the room with the same winner whose side is still open.
Fillable(room, winner, side, at) ==
  {m \in matches : m.room = room /\ m.winner = winner /\ m.seen[side] = None
                     /\ Apart(m.played, at) <= Window}

Enter(i, room, side) ==
  LET e == events[i]
      winner == IF e.won THEN side ELSE Other(side)
      open == IF room = None THEN {} ELSE Fillable(room, winner, side, e.saved) IN
  /\ e.status = "pending"
  /\ events' = [events EXCEPT ![i].status = "done"]
  /\ IF open = {}
     THEN \E m \in matches' :
            /\ m.room = room /\ m.winner = winner /\ m.played = e.saved
            /\ m.players[side] = e.npid
            /\ m.seen[side] = i /\ m.seen[Other(side)] = None
            /\ matches' = matches \cup {m}
     ELSE \E m \in open :
            /\ \A n \in open : Apart(m.played, e.saved) <= Apart(n.played, e.saved)
            /\ m.players[side] = e.npid
            /\ matches' = (matches \ {m}) \cup {[m EXCEPT !.seen[side] = i]}

GiveUp(i) ==
  /\ events[i].status = "pending"
  /\ events' = [events EXCEPT ![i].status = "dead"]
  /\ UNCHANGED matches

Next ==
  \/ Arrive
  \/ \E i \in DOMAIN events :
       \/ \E room \in Rooms \cup {None}, side \in Sides : Enter(i, room, side)
       \/ GiveUp(i)

Spec == Init /\ [][Next]_vars
=============================================================================
