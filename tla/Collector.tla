----------------------------- MODULE Collector -----------------------------
(***************************************************************************)
(* The history collector (history/collector.py) with the service and the   *)
(* tables it writes (history/service.py, history/adapters/postgresql.py).  *)
(* A cycle observes the rank rooms, writes in four transactions of which   *)
(* any may fail, and remembers in memory the ids of the rooms that had a   *)
(* match.  A restart forgets them.  RPCN gives a free id to the next room, *)
(* and a room keeps its id when somebody else takes a seat in it.          *)
(***************************************************************************)
EXTENDS Integers, Sequences, FiniteSets

CONSTANTS
  Observations,       \* what RPCN may answer: room id -> [rank, members, users]; the users it
                      \* lists, in slot order, need not be as many as the members it counts
  NoUser,             \* "", the name in an empty slot
  DAY,                \* a statistics day, in polling intervals
  LIVE_ROOM_WINDOW,   \* _LIVE_ROOM_WINDOW
  RETENTION,          \* _ACTIVITY_RETENTION_DAYS
  MaxCycles           \* bound on the clock

ASSUME CollectorAssumption ==
  DAY \in Nat \ {0} /\ LIVE_ROOM_WINDOW \in Nat /\ RETENTION \in Nat /\ MaxCycles \in Nat

\* A room's users come as a list, and have names.
ASSUME ObservationsAssumption ==
  \A obs \in Observations : \A r \in DOMAIN obs :
    /\ obs[r].members \in Nat
    /\ Len(obs[r].users) \in Nat /\ DOMAIN obs[r].users = 1 .. Len(obs[r].users)
    /\ \A i \in DOMAIN obs[r].users : obs[r].users[i] # NoUser

VARIABLES
  hour,       \* now, in polling intervals
  known,      \* _prev_rank_match_ids
  cycle,      \* the cycle under way: how far it is, what it observed and when
  meetings,   \* rank_match_snapshots
  players,    \* daily_matched_players: <<date, npid>>
  samples,    \* activity_snapshots, without rank_rooms, which nothing reads
  sighted,    \* history: every match observed, <<room, users, when>>
  holders,    \* history: the matches of the last recorded cycle, <<room, users>>
  takenOver   \* history: matches that took over the id of a match of the cycle before

cvars == <<hour, known, cycle, meetings, players, samples, sighted, holders, takenOver>>

stat_day(t) == t \div DAY

Asleep == [pc |-> "asleep"]

\* ActivityObservation: its rank rooms and their players, the two-member ones
\* (rank_matches) with whom _to_snapshot_record names, and the users of a set of rooms.
RankRooms(obs) == {r \in DOMAIN obs : obs[r].rank /\ obs[r].members >= 1}
RankPlayers(obs) == UNION {{obs[r].users[i] : i \in DOMAIN obs[r].users} : r \in RankRooms(obs)}
Slot(users, i) == IF i <= Len(users) THEN users[i] ELSE NoUser
Pair(users) == <<Slot(users, 1), Slot(users, 2)>>
Matches(obs) == {<<r, Pair(obs[r].users)>> : r \in {i \in RankRooms(obs) : obs[i].members = 2}}
Seats(obs, rooms) == UNION {{r} \X DOMAIN obs[r].users : r \in rooms}
HeadCount(obs, rooms) == Cardinality(Seats(obs, rooms))

CoInit ==
  /\ hour = 0
  /\ known = {}
  /\ cycle = Asleep
  /\ meetings = {} /\ players = {} /\ samples = {}
  /\ sighted = {} /\ holders = {} /\ takenOver = {}

----------------------------------------------------------------------------
(* collect_once *)

On(pc) == cycle' = [cycle EXCEPT !.pc = pc]

\* collect_activity_observation; a failure leaves nothing behind but the time.
Observe ==
  /\ cycle.pc \in {"asleep", "done"}
  /\ hour < MaxCycles
  /\ hour' = hour + 1
  /\ \/ \E obs \in Observations :
          /\ cycle' = [pc |-> "players", obs |-> obs, at |-> hour + 1]
          /\ sighted' = sighted \cup {<<m[1], m[2], hour + 1>> : m \in Matches(obs)}
     \/ cycle' = Asleep /\ UNCHANGED sighted
  /\ UNCHANGED <<known, meetings, players, samples, holders, takenOver>>

\* Only those who have an opponent.
RecordPlayersWrong ==
  /\ cycle.pc = "players"
  /\ players' = players \cup {<<stat_day(cycle.at), m[2][i]>> :
                                m \in {x \in Matches(cycle.obs) : NoUser \notin {x[2][1], x[2][2]}}, i \in 1 .. 2}
  /\ On("sample")
  /\ UNCHANGED <<hour, known, meetings, samples, sighted, holders, takenOver>>

\* Whoever is in a rank room.  The unique key on (date, npid) keeps one row per
\* player and day.
RecordPlayers ==
  /\ cycle.pc = "players"
  /\ players' = players \cup {<<stat_day(cycle.at), p>> : p \in RankPlayers(cycle.obs)}
  /\ On("sample")
  /\ UNCHANGED <<hour, known, meetings, samples, sighted, holders, takenOver>>

\* The sample, and the end of those older than the retention.
RecordSample ==
  /\ cycle.pc = "sample"
  /\ LET new == [at |-> cycle.at,
                 total_players |-> HeadCount(cycle.obs, DOMAIN cycle.obs),
                 total_rooms |-> Cardinality(DOMAIN cycle.obs),
                 rank_players |-> HeadCount(cycle.obs, RankRooms(cycle.obs))]
     IN samples' = {s \in samples : s.at >= hour - RETENTION} \cup {new}
  /\ On("new")
  /\ UNCHANGED <<hour, known, meetings, players, sighted, holders, takenOver>>

\* INSERT ... ON CONFLICT (room_id, user1_npid, user2_npid, match_date) DO NOTHING
Insert(ms, at) ==
  LET taken(m) == \E row \in meetings : row.room = m[1] /\ row.users = m[2] /\ row.day = stat_day(at)
  IN meetings \cup {[room |-> m[1], users |-> m[2], day |-> stat_day(at), from |-> at, till |-> at] :
                      m \in {x \in ms : ~taken(x)}}

\* _record_new_rank_matches: the known ids advance after the commit.
RecordNew ==
  /\ cycle.pc = "new"
  /\ LET ms == Matches(cycle.obs)
         inherits(m) == m \in takenOver \/ \E h \in holders : h[1] = m[1] /\ h[2] # m[2]
     IN /\ meetings' = Insert({m \in ms : m[1] \notin known}, cycle.at)
        /\ known' = {m[1] : m \in ms}
        /\ holders' = ms
        /\ takenOver' = {m \in ms : inherits(m)}
  /\ On("touch")
  /\ UNCHANGED <<hour, players, samples, sighted>>

\* By room id alone.
TouchWrong ==
  /\ cycle.pc = "touch"
  /\ meetings' = {[row EXCEPT !.till = IF /\ row.room \in {m[1] : m \in Matches(cycle.obs)}
                                          /\ row.from >= cycle.at - LIVE_ROOM_WINDOW
                                       THEN cycle.at ELSE @] : row \in meetings}
  /\ On("done")
  /\ UNCHANGED <<hour, known, players, samples, sighted, holders, takenOver>>

\* touch_rank_matches
Touch ==
  /\ cycle.pc = "touch"
  /\ meetings' = {[row EXCEPT !.till = IF /\ <<row.room, row.users>> \in Matches(cycle.obs)
                                          /\ row.from >= cycle.at - LIVE_ROOM_WINDOW
                                       THEN cycle.at ELSE @] : row \in meetings}
  /\ On("done")
  /\ UNCHANGED <<hour, known, players, samples, sighted, holders, takenOver>>

\* The known ids advance although the write failed.
FailCycleWrong ==
  /\ cycle.pc \in {"players", "sample", "new", "touch"}
  /\ cycle' = Asleep
  /\ known' = {m[1] : m \in Matches(cycle.obs)}
  /\ UNCHANGED <<hour, meetings, players, samples, sighted, holders, takenOver>>

\* A transaction fails: run() logs and sleeps.  What was committed stays.
FailCycle ==
  /\ cycle.pc \in {"players", "sample", "new", "touch"}
  /\ cycle' = Asleep
  /\ UNCHANGED <<hour, known, meetings, players, samples, sighted, holders, takenOver>>

Restart ==
  /\ known # {}
  /\ known' = {} /\ holders' = {} /\ takenOver' = {}
  /\ cycle' = Asleep
  /\ UNCHANGED <<hour, meetings, players, samples, sighted>>

CoNext == Observe \/ RecordPlayers \/ RecordSample \/ RecordNew \/ Touch \/ FailCycle \/ Restart

CoSpec == CoInit /\ [][CoNext]_cvars

----------------------------------------------------------------------------
(* Properties *)

CoTypeOK ==
  /\ hour \in 0 .. MaxCycles
  /\ \A row \in meetings : row.day = stat_day(row.from) /\ row.from <= row.till /\ row.till <= hour
  /\ cycle.pc \in {"asleep", "players", "sample", "new", "touch", "done"}

\* "A match is written once, on the cycle it first appears", and a failed write or
\* a restart repeats it: when a cycle has gone through, every match it saw has a
\* row that reaches to this cycle.  The one exception the code leaves: a match in
\* a room whose id held another match in the recorded cycle before.
MeetingsRecorded ==
  cycle.pc = "done" =>
    \A m \in Matches(cycle.obs) \ takenOver :
      \E row \in meetings : row.room = m[1] /\ row.users = m[2]
                            /\ (row.till = cycle.at \/ row.from < cycle.at - LIVE_ROOM_WINDOW)

\* A row is about those two players in that room, at both its ends: neither a reused
\* id nor a repeated write stretches it to a time when they were not seen there
\* (records pairs uploaded results with rooms by these ends).  And whoever is in a
\* match on record by name is counted among the participants of its day, whichever of
\* the four transactions failed.
RowsExplained ==
  \A row \in meetings :
    /\ <<row.room, row.users, row.from>> \in sighted
    /\ <<row.room, row.users, row.till>> \in sighted
    /\ \A i \in 1 .. 2 : row.users[i] = NoUser \/ <<row.day, row.users[i]>> \in players
=============================================================================
