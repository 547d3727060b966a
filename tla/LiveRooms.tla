----------------------------- MODULE LiveRooms -----------------------------
(***************************************************************************)
(* The room list with its searching players: MatchingService.get_rooms_all *)
(* (matching/service.py) and the tracker that compares every list with the *)
(* one before (matching/matchmaking_tracker.py).  A visit that finds the   *)
(* cache empty fetches and compares in a thread of its own; nothing keeps  *)
(* two of them apart, so the tracker's statements are steps.               *)
(***************************************************************************)
EXTENDS Naturals, Sequences, FiniteSets

CONSTANTS
  Seekers,
  Lists,       \* the room lists RPCN may answer: room id -> its kind and its users
  Visits,      \* concurrent requests for the room list
  ROOMS_TTL,   \* cache_ttl_rooms_all
  SEARCH_TTL,  \* matchmaking_ttl
  MaxUpdates,  \* bound on the lists the tracker is given
  MaxClock,    \* bound on the clock
  Unseen       \* no list yet

\* A room has one or two users, and nobody is in two rooms of one list.
ASSUME ListsAssumption ==
  \A rooms \in Lists : \A i \in DOMAIN rooms :
    /\ rooms[i].rank \in BOOLEAN
    /\ rooms[i].users \subseteq Seekers /\ Cardinality(rooms[i].users) \in 1 .. 2
    /\ \A j \in DOMAIN rooms \ {i} : rooms[i].users \cap rooms[j].users = {}

ASSUME LiveRoomsAssumption ==
  /\ ROOMS_TTL \in Nat /\ SEARCH_TTL \in Nat /\ MaxUpdates \in Nat /\ MaxClock \in Nat
  /\ Unseen \notin Lists

VARIABLES
  minute,
  fresh,       \* until when the cached list is served
  previous,    \* _prev_rooms, a list or Unseen
  searching,   \* _searching_players: player -> last_seen
  visit,       \* per request, the number of its list and how far it is
  seen,        \* history: the lists given to the tracker, with their time
  overlapped   \* history: two updates have overlapped

roomvars == <<minute, fresh, previous, searching, visit, seen, overlapped>>

Away == [pc |-> "away"]

InRooms(rooms) == UNION {rooms[r].users : r \in DOMAIN rooms}
RankUsers(rooms, ids) == UNION {rooms[r].users : r \in {i \in ids : rooms[i].rank}}

\* The list a visit is about, and when it was fetched.
Rooms(v) == seen[visit[v].n].rooms
At(v) == seen[visit[v].n].at

Without(f, keys) == [k \in DOMAIN f \ keys |-> f[k]]
Updating == {v \in Visits : visit[v].pc \in {"compare", "depart", "return", "list", "expire", "advance", "show"}}

LInit ==
  /\ minute = 0 /\ fresh = 0
  /\ previous = Unseen
  /\ searching = <<>>
  /\ visit = [v \in Visits |-> Away]
  /\ seen = <<>>
  /\ overlapped = FALSE

----------------------------------------------------------------------------
(* The tracker: update_and_get_phantoms, statement by statement *)

Go(v, pc) == visit' = [visit EXCEPT ![v].pc = pc]

\* The visit ends: with the list, or with the error that a dictionary changed
\* by another thread raises.
AnswerVisit(v, phantoms, ok) ==
  visit' = [visit EXCEPT ![v] = [pc |-> "answered", n |-> @.n, alone |-> @.alone,
                                 ok |-> ok, phantoms |-> phantoms]]

\* _fetch_rooms_all gets a list.  Players come and go at will between two lists,
\* and a lobby that did not answer takes its rooms out of one.
Fetch(v) ==
  /\ visit[v].pc = "miss"
  /\ Len(seen) < MaxUpdates
  /\ \E rooms \in Lists : seen' = Append(seen, [rooms |-> rooms, at |-> minute])
  /\ overlapped' = (overlapped \/ Updating # {})
  /\ visit' = [w \in Visits |->
       CASE w = v -> [pc |-> "compare", n |-> Len(seen) + 1, alone |-> Updating = {}]
         [] w \in Updating -> [visit[w] EXCEPT !.alone = FALSE]
         [] OTHER -> visit[w]]
  /\ UNCHANGED <<minute, fresh, previous, searching>>

\* Lines 72-77: a first list is only remembered.
CompareLists(v) ==
  /\ visit[v].pc = "compare"
  /\ IF previous = Unseen
     THEN previous' = Rooms(v) /\ AnswerVisit(v, {}, TRUE)
     ELSE /\ visit' = [visit EXCEPT ![v] = [pc |-> "depart", n |-> @.n, alone |-> @.alone,
                                            gone |-> DOMAIN previous \ DOMAIN Rooms(v)]]
          /\ UNCHANGED previous
  /\ UNCHANGED <<minute, fresh, searching, seen, overlapped>>

\* Also for player matches.
DepartedWrong(rooms, ids) == UNION {rooms[r].users : r \in ids}

Departed(rooms, ids) == RankUsers(rooms, ids)

\* Lines 79-80; _prev_rooms is read again for every room that is gone.
Depart(v) ==
  /\ visit[v].pc = "depart"
  /\ LET gone == visit[v].gone
         send(ids) == searching' = [p \in DOMAIN searching \cup Departed(previous, ids) |->
                                      IF p \in Departed(previous, ids) THEN At(v) ELSE searching[p]]
     IN IF gone \subseteq DOMAIN previous
        THEN send(gone) /\ Go(v, "return")
        ELSE /\ \E done \in SUBSET (gone \cap DOMAIN previous) : send(done)
             /\ AnswerVisit(v, {}, FALSE)
  /\ UNCHANGED <<minute, fresh, previous, seen, overlapped>>

\* Only the hosts of solo rooms.
ReturnWrong(v) ==
  /\ visit[v].pc = "return"
  /\ searching' = Without(searching, {p \in InRooms(Rooms(v)) : \E r \in DOMAIN Rooms(v) : Rooms(v)[r].users = {p}})
  /\ Go(v, "list")
  /\ UNCHANGED <<minute, fresh, previous, seen, overlapped>>

Return(v) ==
  /\ visit[v].pc = "return"
  /\ searching' = Without(searching, InRooms(Rooms(v)))
  /\ Go(v, "list")
  /\ UNCHANGED <<minute, fresh, previous, seen, overlapped>>

\* Lines 90-93: the players are listed, then looked up one by one.
List(v) ==
  /\ visit[v].pc = "list"
  /\ visit' = [visit EXCEPT ![v] = [pc |-> "expire", n |-> @.n, alone |-> @.alone,
                                    listed |-> DOMAIN searching]]
  /\ UNCHANGED <<minute, fresh, previous, searching, seen, overlapped>>

Expire(v) ==
  /\ visit[v].pc = "expire"
  /\ LET listed == visit[v].listed
         here == listed \cap DOMAIN searching
         old == {p \in here : At(v) > searching[p] + SEARCH_TTL}
     IN IF listed = here
        THEN searching' = Without(searching, old) /\ Go(v, "advance")
        ELSE /\ \E done \in SUBSET old : searching' = Without(searching, done)
             /\ AnswerVisit(v, {}, FALSE)
  /\ UNCHANGED <<minute, fresh, previous, seen, overlapped>>

AdvancePrevious(v) ==
  /\ visit[v].pc = "advance"
  /\ previous' = Rooms(v)
  /\ Go(v, "show")
  /\ UNCHANGED <<minute, fresh, searching, seen, overlapped>>

\* A phantom room per searching player, and the list is cached.  Another
\* thread's change of the dictionary during the loop raises.
Show(v) ==
  /\ visit[v].pc = "show"
  /\ \/ /\ AnswerVisit(v, DOMAIN searching, TRUE)
        /\ fresh' = minute + ROOMS_TTL
     \/ /\ Updating # {v}
        /\ AnswerVisit(v, {}, FALSE)
        /\ UNCHANGED fresh
  /\ UNCHANGED <<minute, previous, searching, seen, overlapped>>

\* get_rooms_all looks into the cache and then goes to a thread; an RPCN that is
\* unavailable ends the visit with 502, without the tracker knowing.
Visit(v) ==
  /\ \/ visit[v].pc \in {"away", "answered"} /\ minute >= fresh /\ visit' = [visit EXCEPT ![v] = [pc |-> "miss"]]
     \/ visit[v].pc = "miss" /\ visit' = [visit EXCEPT ![v] = Away]
  /\ UNCHANGED <<minute, fresh, previous, searching, seen, overlapped>>

PassTime ==
  /\ minute < MaxClock
  /\ minute' = minute + 1
  /\ UNCHANGED <<fresh, previous, searching, visit, seen, overlapped>>

LNext ==
  \/ PassTime
  \/ \E v \in Visits : \/ Visit(v) \/ Fetch(v) \/ CompareLists(v) \/ Depart(v) \/ Return(v)
                       \/ List(v) \/ Expire(v) \/ AdvancePrevious(v) \/ Show(v)

LSpec == LInit /\ [][LNext]_roomvars

----------------------------------------------------------------------------
(* Properties *)

LTypeOK ==
  /\ minute \in 0 .. MaxClock /\ fresh \in 0 .. MaxClock + ROOMS_TTL
  /\ \A p \in DOMAIN searching : p \in Seekers /\ searching[p] \in 0 .. MaxClock

\* An update that no other overlapped never fails and never shows a player twice,
\* in a room and as searching, whatever state earlier overlaps left behind.
AloneIsRight ==
  \A v \in Visits : visit[v].pc = "answered" /\ visit[v].alone =>
    visit[v].ok /\ visit[v].phantoms \cap InRooms(Rooms(v)) = {}

\* Who is searching, from the lists alone: their rank room was in one list and not
\* in the next, at most SEARCH_TTL ago, and no list since then has them.
Expected(lists) ==
  LET n == Len(lists)
  IN {p \in Seekers : \E k \in 1 .. n - 1 :
        /\ \E r \in DOMAIN lists[k].rooms \ DOMAIN lists[k + 1].rooms :
             lists[k].rooms[r].rank /\ p \in lists[k].rooms[r].users
        /\ \A j \in k + 1 .. n : p \notin InRooms(lists[j].rooms)
        /\ lists[n].at <= lists[k + 1].at + SEARCH_TTL}

\* "Each searching player is shown as a phantom room until they appear in a real
\* room again or matchmaking_ttl passes": as long as updates do not overlap, the
\* tracker's incremental state shows exactly the players the lists say.
PhantomsExplained ==
  \A v \in Visits : visit[v].pc = "answered" /\ ~overlapped =>
    visit[v].phantoms = Expected(SubSeq(seen, 1, visit[v].n))
=============================================================================
