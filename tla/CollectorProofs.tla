---------------------------- MODULE CollectorProofs ----------------------------
(***************************************************************************)
(* Proofs about Collector for any observations, windows and bounds, about  *)
(* HistoryStats, what is read of its tables, and about Lifespan, the       *)
(* process that runs it.                                                   *)
(***************************************************************************)
EXTENDS HistoryStats, Lifespan, FiniteSetTheorems, WellFoundedInduction, TLAPS

Underway == {"players", "sample", "new", "touch", "done"}

\* A row is what Insert makes, and lies in the past.
Rows ==
  /\ hour \in Nat
  /\ \A row \in meetings :
       /\ row = [room |-> row.room, users |-> row.users, day |-> row.day,
                 from |-> row.from, till |-> row.till]
       /\ row.from \in Nat /\ row.till \in Nat

\* What the cycle under way has observed is on the history's record, and once its
\* first transaction is through, so are the participants.
CycleSeen ==
  /\ cycle.pc \in Underway \cup {"asleep"}
  /\ cycle.pc \in Underway =>
       /\ cycle = [pc |-> cycle.pc, obs |-> cycle.obs, at |-> cycle.at]
       /\ cycle.obs \in Observations /\ cycle.at \in Nat
       /\ \A m \in Matches(cycle.obs) : <<m[1], m[2], cycle.at>> \in sighted
  /\ cycle.pc \in Underway \ {"players"} =>
       \A p \in RankPlayers(cycle.obs) : <<stat_day(cycle.at), p>> \in players

HasRow(m) == \E row \in meetings : row.room = m[1] /\ row.users = m[2]

\* The ids in memory are those of the last recorded matches, and each of these has
\* a row, but for those that took an id over.
Memory ==
  /\ known = {m[1] : m \in holders}
  /\ \A m \in holders : m = <<m[1], m[2]>>
  /\ \A m \in holders \ takenOver : HasRow(m)
  /\ cycle.pc \in {"touch", "done"} => holders = Matches(cycle.obs)

\* The inductive invariant.
CoInv == Rows /\ CycleSeen /\ Memory /\ RowsExplained /\ MeetingsRecorded

----------------------------------------------------------------------------

\* Where a match names somebody, the name is of a player in a rank room.
LEMMA SeatsAreRankPlayers ==
  ASSUME NEW obs \in Observations, NEW m \in Matches(obs), NEW i \in 1 .. 2, m[2][i] # NoUser
  PROVE  m[2][i] \in RankPlayers(obs)
<1>1. PICK r \in RankRooms(obs) : m = <<r, Pair(obs[r].users)>>
  BY DEF Matches
<1>2. m[2][i] = Slot(obs[r].users, i)
  BY <1>1 DEF Pair
<1>3. r \in DOMAIN obs /\ i \in DOMAIN obs[r].users /\ m[2][i] = obs[r].users[i]
  BY <1>2, ObservationsAssumption DEF RankRooms, Slot
<1> QED
  BY <1>3 DEF RankPlayers

LEMMA MatchesArePairs ==
  ASSUME NEW obs, NEW m \in Matches(obs)
  PROVE  m = <<m[1], m[2]>>
BY DEF Matches

LEMMA CollectorInit == CoInit => CoInv
BY DEF CoInit, CoInv, Rows, CycleSeen, Memory, RowsExplained, MeetingsRecorded, Asleep, Underway

\* What RecordNew leaves in the table: the rows it had, and those of new matches.
LEMMA Inserted ==
  ASSUME NEW ms, NEW at \in Nat
  PROVE  /\ meetings \subseteq Insert(ms, at)
         /\ \A row \in Insert(ms, at) \ meetings :
              \E m \in ms : row = [room |-> m[1], users |-> m[2], day |-> stat_day(at), from |-> at, till |-> at]
         /\ \A m \in ms : \E row \in Insert(ms, at) : row.room = m[1] /\ row.users = m[2]
<1> DEFINE taken(m) == \E row \in meetings : row.room = m[1] /\ row.users = m[2] /\ row.day = stat_day(at)
           new(m) == [room |-> m[1], users |-> m[2], day |-> stat_day(at), from |-> at, till |-> at]
<1>1. Insert(ms, at) = meetings \cup {new(m) : m \in {x \in ms : ~taken(x)}}
  BY DEF Insert
<1>2. ASSUME NEW m \in ms PROVE \E row \in Insert(ms, at) : row.room = m[1] /\ row.users = m[2]
  <2>1. CASE taken(m)
    BY <1>1, <2>1
  <2>2. CASE ~taken(m)
    <3>1. new(m) \in Insert(ms, at)
      BY <1>1, <2>2
    <3> QED
      BY <3>1
  <2> QED
    BY <2>1, <2>2
<1> QED
  BY <1>1, <1>2

\* What Touch leaves: each row, its end moved if its own match was seen now.
TouchedRow(row) ==
  [row EXCEPT !.till = IF /\ <<row.room, row.users>> \in Matches(cycle.obs)
                          /\ row.from >= cycle.at - LIVE_ROOM_WINDOW
                       THEN cycle.at ELSE @]

LEMMA Touched ==
  ASSUME Rows, NEW row \in meetings
  PROVE  /\ TouchedRow(row).room = row.room /\ TouchedRow(row).users = row.users
         /\ TouchedRow(row).day = row.day /\ TouchedRow(row).from = row.from
         /\ TouchedRow(row) = [room |-> row.room, users |-> row.users, day |-> row.day, from |-> row.from,
                               till |-> TouchedRow(row).till]
         /\ TouchedRow(row).till = IF /\ <<row.room, row.users>> \in Matches(cycle.obs)
                                      /\ row.from >= cycle.at - LIVE_ROOM_WINDOW
                                   THEN cycle.at ELSE row.till
<1> DEFINE t == IF /\ <<row.room, row.users>> \in Matches(cycle.obs)
                   /\ row.from >= cycle.at - LIVE_ROOM_WINDOW
                THEN cycle.at ELSE row.till
<1>1. row = [room |-> row.room, users |-> row.users, day |-> row.day, from |-> row.from, till |-> row.till]
  BY DEF Rows
<1>2. TouchedRow(row) = [row EXCEPT !.till = t]
  BY DEF TouchedRow
<1> HIDE DEF t
<1>3. [row EXCEPT !.till = t] = [room |-> row.room, users |-> row.users, day |-> row.day, from |-> row.from, till |-> t]
  BY <1>1
<1> QED
  BY <1>2, <1>3 DEF t

----------------------------------------------------------------------------
(* One lemma per action *)

LEMMA ObserveStep == CoInv /\ Observe => CoInv'
<1> SUFFICES ASSUME CoInv, Observe PROVE CoInv'
  OBVIOUS
<1>1. UNCHANGED <<known, meetings, players, holders, takenOver>> /\ hour' = hour + 1 /\ sighted \subseteq sighted'
  BY DEF Observe
<1>2. CASE cycle' = Asleep
  BY <1>1, <1>2 DEF CoInv, Rows, CycleSeen, Memory, HasRow, RowsExplained, MeetingsRecorded, Asleep, Underway
<1>3. ASSUME NEW obs \in Observations,
             cycle' = [pc |-> "players", obs |-> obs, at |-> hour + 1],
             sighted' = sighted \cup {<<m[1], m[2], hour + 1>> : m \in Matches(obs)}
      PROVE  CoInv'
  <2>1. Rows' /\ RowsExplained'
    BY <1>1 DEF CoInv, Rows, RowsExplained
  <2>2. Memory' /\ MeetingsRecorded'
    BY <1>1, <1>3 DEF CoInv, Memory, HasRow, MeetingsRecorded
  <2>3. CycleSeen'
    <3>1. \A m \in Matches(cycle'.obs) : <<m[1], m[2], cycle'.at>> \in sighted'
      BY <1>3
    <3>2. hour + 1 \in Nat
      BY DEF CoInv, Rows
    <3> QED
      BY <1>3, <3>1, <3>2 DEF CycleSeen, Underway
  <2> QED
    BY <2>1, <2>2, <2>3 DEF CoInv
<1> QED
  BY <1>2, <1>3 DEF Observe

\* The steps of a cycle under way that write no meeting.
LEMMA RecordPlayersStep == CoInv /\ RecordPlayers => CoInv'
<1> SUFFICES ASSUME CoInv, RecordPlayers PROVE CoInv'
  OBVIOUS
<1>1. cycle.pc = "players" /\ cycle' = [cycle EXCEPT !.pc = "sample"]
  BY DEF RecordPlayers, On
<1>2. cycle' = [pc |-> "sample", obs |-> cycle.obs, at |-> cycle.at]
  BY <1>1 DEF CoInv, CycleSeen, Underway
<1>3. UNCHANGED <<hour, known, meetings, sighted, holders, takenOver>>
      /\ players' = players \cup {<<stat_day(cycle.at), p>> : p \in RankPlayers(cycle.obs)}
  BY DEF RecordPlayers
<1>4. CycleSeen'
  <2>1. \A p \in RankPlayers(cycle'.obs) : <<stat_day(cycle'.at), p>> \in players'
    BY <1>2, <1>3
  <2> QED
    BY <1>1, <1>2, <1>3, <2>1 DEF CoInv, CycleSeen, Underway
<1> QED
  BY <1>1, <1>2, <1>3, <1>4 DEF CoInv, Rows, Memory, HasRow, RowsExplained, MeetingsRecorded

LEMMA RecordSampleStep == CoInv /\ RecordSample => CoInv'
<1> SUFFICES ASSUME CoInv, RecordSample PROVE CoInv'
  OBVIOUS
<1>1. cycle.pc = "sample" /\ cycle' = [cycle EXCEPT !.pc = "new"]
  BY DEF RecordSample, On
<1>2. cycle' = [pc |-> "new", obs |-> cycle.obs, at |-> cycle.at]
  BY <1>1 DEF CoInv, CycleSeen, Underway
<1>3. UNCHANGED <<hour, known, meetings, players, sighted, holders, takenOver>>
  BY DEF RecordSample
<1> QED
  BY <1>1, <1>2, <1>3 DEF CoInv, Rows, CycleSeen, Memory, HasRow, RowsExplained, MeetingsRecorded, Underway

LEMMA RecordNewStep == CoInv /\ RecordNew => CoInv'
<1> SUFFICES ASSUME CoInv, RecordNew PROVE CoInv'
  OBVIOUS
<1> DEFINE ms == Matches(cycle.obs)
           fresh == {m \in ms : m[1] \notin known}
           inherits(m) == m \in takenOver \/ \E h \in holders : h[1] = m[1] /\ h[2] # m[2]
<1>1. cycle.pc = "new" /\ cycle' = [cycle EXCEPT !.pc = "touch"]
  BY DEF RecordNew, On
<1>2. cycle' = [pc |-> "touch", obs |-> cycle.obs, at |-> cycle.at] /\ cycle.obs \in Observations /\ cycle.at \in Nat
  BY <1>1 DEF CoInv, CycleSeen, Underway
<1>3. /\ UNCHANGED <<hour, players, sighted>>
      /\ meetings' = Insert(fresh, cycle.at)
      /\ known' = {m[1] : m \in ms} /\ holders' = ms
      /\ takenOver' = {m \in ms : inherits(m)}
  BY DEF RecordNew
<1>4. /\ meetings \subseteq meetings'
      /\ \A row \in meetings' \ meetings :
           \E m \in ms : row = [room |-> m[1], users |-> m[2], day |-> stat_day(cycle.at),
                                from |-> cycle.at, till |-> cycle.at]
      /\ \A m \in fresh : \E row \in meetings' : row.room = m[1] /\ row.users = m[2]
  <2>1. /\ meetings \subseteq Insert(fresh, cycle.at)
        /\ \A row \in Insert(fresh, cycle.at) \ meetings :
             \E m \in fresh : row = [room |-> m[1], users |-> m[2], day |-> stat_day(cycle.at),
                                    from |-> cycle.at, till |-> cycle.at]
        /\ \A m \in fresh : \E row \in Insert(fresh, cycle.at) : row.room = m[1] /\ row.users = m[2]
    <3> HIDE DEF fresh
    <3> QED
      BY <1>2, Inserted
  <2> QED
    BY <1>3, <2>1
<1>5. Rows'
  BY <1>2, <1>3, <1>4 DEF CoInv, Rows
<1>6. CycleSeen'
  BY <1>1, <1>2, <1>3 DEF CoInv, CycleSeen, Underway
<1>7. RowsExplained'
  <2> SUFFICES ASSUME NEW row \in meetings'
               PROVE  /\ <<row.room, row.users, row.from>> \in sighted
                      /\ <<row.room, row.users, row.till>> \in sighted
                      /\ \A i \in 1 .. 2 : row.users[i] = NoUser \/ <<row.day, row.users[i]>> \in players
    BY <1>3 DEF RowsExplained
  <2>1. CASE row \in meetings
    BY <2>1 DEF CoInv, RowsExplained
  <2>2. CASE row \notin meetings
    <3>1. PICK m \in ms : row = [room |-> m[1], users |-> m[2], day |-> stat_day(cycle.at),
                                 from |-> cycle.at, till |-> cycle.at]
      BY <1>4, <2>2
    <3>2. <<m[1], m[2], cycle.at>> \in sighted
      BY <1>1 DEF CoInv, CycleSeen, Underway
    <3>3. ASSUME NEW i \in 1 .. 2, m[2][i] # NoUser PROVE <<stat_day(cycle.at), m[2][i]>> \in players
      BY <1>1, <1>2, <3>3, SeatsAreRankPlayers DEF CoInv, CycleSeen, Underway
    <3> QED
      BY <3>1, <3>2, <3>3
  <2> QED
    BY <2>1, <2>2
<1>8. Memory'
  <2>1. \A m \in ms : m = <<m[1], m[2]>>
    BY MatchesArePairs
  <2>2. ASSUME NEW m \in ms, ~inherits(m) PROVE HasRow(m)'
    <3>1. CASE m \in fresh
      BY <1>4, <3>1 DEF HasRow
    <3>2. CASE m \notin fresh
      <4>1. PICK h \in holders : h[1] = m[1]
        BY <3>2 DEF CoInv, Memory
      <4>2. h = m /\ m \notin takenOver
        BY <2>1, <2>2, <4>1 DEF CoInv, Memory
      <4>3. HasRow(m)
        BY <4>2 DEF CoInv, Memory
      <4> QED
        BY <1>4, <4>3 DEF HasRow
    <3> QED
      BY <3>1, <3>2
  <2> QED
    BY <1>2, <1>3, <2>1, <2>2 DEF Memory
<1>9. MeetingsRecorded'
  BY <1>2 DEF MeetingsRecorded
<1> QED
  BY <1>5, <1>6, <1>7, <1>8, <1>9 DEF CoInv

LEMMA TouchStep == CoInv /\ Touch => CoInv'
<1> SUFFICES ASSUME CoInv, Touch PROVE CoInv'
  OBVIOUS
<1>1. cycle.pc = "touch" /\ cycle' = [cycle EXCEPT !.pc = "done"]
  BY DEF Touch, On
<1>2. cycle' = [pc |-> "done", obs |-> cycle.obs, at |-> cycle.at] /\ cycle.at \in Nat
  BY <1>1 DEF CoInv, CycleSeen, Underway
<1>3. /\ UNCHANGED <<hour, known, players, sighted, holders, takenOver>>
      /\ meetings' = {TouchedRow(row) : row \in meetings}
  BY DEF Touch, TouchedRow
<1>4. \A row \in meetings :
        /\ TouchedRow(row).room = row.room /\ TouchedRow(row).users = row.users
        /\ TouchedRow(row).day = row.day /\ TouchedRow(row).from = row.from
        /\ TouchedRow(row) = [room |-> row.room, users |-> row.users, day |-> row.day, from |-> row.from,
                              till |-> TouchedRow(row).till]
        /\ TouchedRow(row).till = IF /\ <<row.room, row.users>> \in Matches(cycle.obs)
                                     /\ row.from >= cycle.at - LIVE_ROOM_WINDOW
                                  THEN cycle.at ELSE row.till
  <2>1. Rows
    BY DEF CoInv
  <2> QED
    BY <2>1, Touched
<1>5. Rows'
  <2> SUFFICES ASSUME NEW new \in meetings'
               PROVE  /\ new = [room |-> new.room, users |-> new.users, day |-> new.day,
                                from |-> new.from, till |-> new.till]
                      /\ new.from \in Nat /\ new.till \in Nat
    BY <1>3, Zenon DEF CoInv, Rows
  <2>1. PICK row \in meetings : new = TouchedRow(row)
    BY <1>3
  <2>2. row.from \in Nat /\ row.till \in Nat
    BY DEF CoInv, Rows
  <2> QED
    BY <1>2, <1>4, <2>1, <2>2
<1>6. CycleSeen'
  BY <1>1, <1>2, <1>3 DEF CoInv, CycleSeen, Underway
<1>7. RowsExplained'
  <2> SUFFICES ASSUME NEW new \in meetings'
               PROVE  /\ <<new.room, new.users, new.from>> \in sighted
                      /\ <<new.room, new.users, new.till>> \in sighted
                      /\ \A i \in 1 .. 2 : new.users[i] = NoUser \/ <<new.day, new.users[i]>> \in players
    BY <1>3 DEF RowsExplained
  <2>1. PICK row \in meetings : new = TouchedRow(row)
    BY <1>3
  <2>2. <<row.room, row.users>> \in Matches(cycle.obs) => <<row.room, row.users, cycle.at>> \in sighted
    BY <1>1 DEF CoInv, CycleSeen, Underway
  <2> QED
    BY <1>4, <2>1, <2>2 DEF CoInv, RowsExplained
<1>8. ASSUME NEW m, HasRow(m) PROVE HasRow(m)'
  BY <1>3, <1>4, <1>8, ZenonT(30) DEF HasRow
<1>9. Memory'
  BY <1>1, <1>2, <1>3, <1>8 DEF CoInv, Memory
<1>10. MeetingsRecorded'
  <2> SUFFICES ASSUME NEW m \in Matches(cycle.obs) \ takenOver
               PROVE  \E row \in meetings' :
                        /\ row.room = m[1] /\ row.users = m[2]
                        /\ row.till = cycle.at \/ row.from < cycle.at - LIVE_ROOM_WINDOW
    BY <1>2, <1>3 DEF MeetingsRecorded
  <2>1. PICK row \in meetings : row.room = m[1] /\ row.users = m[2]
    BY <1>1 DEF CoInv, Memory, HasRow
  <2>2. <<row.room, row.users>> \in Matches(cycle.obs)
    BY <2>1, MatchesArePairs
  <2>3. TouchedRow(row) \in meetings' /\ row.from \in Nat
    BY <1>3 DEF CoInv, Rows
  <2> QED
    BY <1>2, <1>4, <2>1, <2>2, <2>3, CollectorAssumption
<1> QED
  BY <1>5, <1>6, <1>7, <1>9, <1>10 DEF CoInv

LEMMA InterruptionStep == CoInv /\ (FailCycle \/ Restart \/ UNCHANGED cvars) => CoInv'
<1> USE DEF CoInv, Rows, CycleSeen, Memory, HasRow, RowsExplained, MeetingsRecorded, Underway
<1>1. CoInv /\ FailCycle => CoInv'
  BY DEF FailCycle, Asleep
<1>2. CoInv /\ Restart => CoInv'
  BY DEF Restart, Asleep
<1>3. CoInv /\ UNCHANGED cvars => CoInv'
  BY DEF cvars
<1> QED
  BY <1>1, <1>2, <1>3

----------------------------------------------------------------------------

LEMMA CollectorInvariant == CoSpec => []CoInv
<1>1. CoInv /\ [CoNext]_cvars => CoInv'
  BY ObserveStep, RecordPlayersStep, RecordSampleStep, RecordNewStep, TouchStep, InterruptionStep DEF CoNext
<1> QED
  BY <1>1, CollectorInit, PTL DEF CoSpec

\* Every match a finished cycle saw has a row that reaches to it, although polls
\* failed, writes failed and the process was restarted; matches in a room id that
\* passed on since the last recorded cycle excepted (history/collector.py).
THEOREM MatchesAreRecorded == CoSpec => []MeetingsRecorded
<1>1. CoInv => MeetingsRecorded
  BY DEF CoInv
<1> QED
  BY <1>1, CollectorInvariant, PTL

\* A row says nothing of a time at which those two were not seen in that room, and
\* its players are participants of its day (insert_rank_matches, touch_rank_matches).
THEOREM RowsAreExplained == CoSpec => []RowsExplained
<1>1. CoInv => RowsExplained
  BY DEF CoInv
<1> QED
  BY <1>1, CollectorInvariant, PTL

----------------------------------------------------------------------------
(* The life of the process *)

Order == Resources \o Workers
Things == {"database", "rpcn_api", "save_server", "chzzk", "game_server",
           "match-history-collector", "save-capture", "match-event-consumer"}

LifeInv ==
  /\ stack \in Seq(Things) /\ Len(stack) <= 8
  /\ \A i \in 1 .. Len(stack) : stack[i] = Order[i]
  /\ worker \in [ToSet(Workers) -> {"off", "on"}]
  /\ \A k \in 1 .. 3 : worker[Workers[k]] = "on" => k + 5 <= Len(stack)
  /\ session = "ours" => 5 <= Len(stack)
  /\ phase = "pinging" => Len(stack) = 0
  /\ phase = "opening" => Len(stack) <= 5
  /\ phase = "exited" => Len(stack) = 0

LEMMA OrderIs ==
  /\ Len(Order) = 8 /\ Len(Resources) = 5 /\ Len(Workers) = 3
  /\ Order \in Seq(Things)
  /\ Order[1] = "database" /\ Order[2] = "rpcn_api" /\ Order[3] = "save_server" /\ Order[4] = "chzzk"
  /\ Order[5] = "game_server" /\ Order[6] = Workers[1] /\ Order[7] = Workers[2] /\ Order[8] = Workers[3]
  /\ \A i \in 1 .. 5 : Order[i] = Resources[i] /\ Order[i] \notin ToSet(Workers)
  /\ \A i \in 1 .. 8 : Order[i] = "game_server" => i = 5
  /\ Workers[1] = "match-history-collector" /\ Workers[2] = "save-capture"
  /\ Workers[3] = "match-event-consumer"
  /\ ToSet(Workers) = {Workers[1], Workers[2], Workers[3]}
<1>1. Len(Resources) = 5 /\ Len(Workers) = 3 /\ Resources \in Seq(Things) /\ Workers \in Seq(Things)
  BY DEF Resources, Workers, Things
<1>2. Workers[1] = "match-history-collector" /\ Workers[2] = "save-capture"
      /\ Workers[3] = "match-event-consumer"
  BY DEF Workers
<1>3. /\ Resources[1] = "database" /\ Resources[2] = "rpcn_api" /\ Resources[3] = "save_server"
      /\ Resources[4] = "chzzk" /\ Resources[5] = "game_server"
  BY DEF Resources
<1>4. Order \in Seq(Things) /\ Len(Order) = 8 /\ (\A i \in 1 .. 5 : Order[i] = Resources[i])
      /\ \A i \in 1 .. 3 : Order[5 + i] = Workers[i]
  <2>1. \A a, b \in Seq(Things) :
          /\ a \o b \in Seq(Things) /\ Len(a \o b) = Len(a) + Len(b)
          /\ \A i \in 1 .. Len(a) : (a \o b)[i] = a[i]
          /\ \A i \in 1 .. Len(b) : (a \o b)[Len(a) + i] = b[i]
    OBVIOUS
  <2>2. /\ Order \in Seq(Things) /\ Len(Order) = Len(Resources) + Len(Workers)
        /\ \A i \in 1 .. Len(Resources) : Order[i] = Resources[i]
        /\ \A i \in 1 .. Len(Workers) : Order[Len(Resources) + i] = Workers[i]
    BY <1>1, <2>1, Zenon DEF Order
  <2>3. QED
    BY <1>1, <2>2
<1>5. Order[6] = Workers[1] /\ Order[7] = Workers[2] /\ Order[8] = Workers[3]
  BY <1>4
<1>6. ToSet(Workers) = {Workers[1], Workers[2], Workers[3]}
  <2>1. DOMAIN Workers = {1, 2, 3}
    BY <1>1
  <2>2. QED
    BY <2>1 DEF ToSet
<1>7. \A i \in 1 .. 5 : i = 1 \/ i = 2 \/ i = 3 \/ i = 4 \/ i = 5
  OBVIOUS
<1>8. \A i \in 1 .. 8 : i \in 1 .. 5 \/ i = 6 \/ i = 7 \/ i = 8
  OBVIOUS
<1>9. \A i \in 1 .. 5 : Order[i] \notin ToSet(Workers)
  BY <1>2, <1>3, <1>4, <1>6, <1>7
<1>10. \A i \in 1 .. 8 : Order[i] = "game_server" => i = 5
  BY <1>2, <1>3, <1>4, <1>5, <1>7, <1>8
<1>11. QED
  BY <1>1, <1>2, <1>3, <1>4, <1>5, <1>6, <1>9, <1>10

\* What is open, by how far the stack reaches.
LEMMA OpenIs ==
  ASSUME LifeInv, NEW i \in 1 .. 8
  PROVE  i <= Len(stack) => IsOpen(Order[i])
<1>1. DOMAIN stack = 1 .. Len(stack) /\ Len(stack) \in Nat
  BY DEF LifeInv
<1>2. QED
  BY <1>1, SMTT(30) DEF LifeInv, IsOpen, ToSet

LEMMA LifeInvImplies == LifeInv => ClosedInOrder
<1> SUFFICES ASSUME LifeInv PROVE ClosedInOrder
  OBVIOUS
<1>1. IsPrefix(stack, Resources \o Workers)
  <2>1. stack \in Seq(Things) /\ Len(stack) <= Len(Order) /\ Len(stack) \in Nat
    BY OrderIs DEF LifeInv
  <2>2. \A i \in 1 .. Len(stack) : stack[i] = Order[i]
    BY DEF LifeInv
  <2>3. QED
    BY <2>1, <2>2, OrderIs, SMTT(30) DEF IsPrefix, Order
<1>2. ASSUME NEW w \in DOMAIN worker, worker[w] = "on", NEW r \in Needs(w) PROVE IsOpen(r)
  <2>1. Len(stack) \in Nat /\ DOMAIN worker = {Workers[1], Workers[2], Workers[3]}
    BY OrderIs DEF LifeInv
  <2>2. PICK k \in 1 .. 3 : w = Workers[k] /\ k + 5 <= Len(stack)
    BY <1>2, <2>1 DEF LifeInv
  <2>3. IsOpen("database") /\ IsOpen("save_server") /\ IsOpen("game_server")
    BY <2>1, <2>2, OpenIs, OrderIs
  <2>4. r \in {"database", "save_server", "game_server"}
    BY <1>2 DEF Needs
  <2>5. QED
    BY <2>3, <2>4
<1>3. session = "ours" => IsOpen("game_server")
  BY OpenIs, OrderIs DEF LifeInv
<1>4. phase = "exited" => stack = <<>> /\ \A w \in DOMAIN worker : worker[w] = "off"
  <2> SUFFICES ASSUME phase = "exited" PROVE stack = <<>> /\ \A w \in DOMAIN worker : worker[w] = "off"
    OBVIOUS
  <2>1. Len(stack) = 0 /\ stack \in Seq(Things)
    BY DEF LifeInv
  <2>2. \A k \in 1 .. 3 : worker[Workers[k]] # "on"
    BY <2>1 DEF LifeInv
  <2>3. \A w \in DOMAIN worker : worker[w] \in {"off", "on"} /\ \E k \in 1 .. 3 : w = Workers[k]
    BY OrderIs DEF LifeInv
  <2>4. QED
    BY <2>1, <2>2, <2>3
<1>5. QED
  BY <1>1, <1>2, <1>3, <1>4 DEF ClosedInOrder

LEMMA LifeInitInv == LifeInit => LifeInv
<1> SUFFICES ASSUME LifeInit PROVE LifeInv
  OBVIOUS
<1>1. stack \in Seq(Things) /\ Len(stack) = 0
  BY DEF LifeInit
<1>2. worker \in [ToSet(Workers) -> {"off", "on"}] /\ \A k \in 1 .. 3 : worker[Workers[k]] = "off"
  BY OrderIs DEF LifeInit
<1>3. QED
  BY <1>1, <1>2 DEF LifeInit, LifeInv

\* The stack grows by the next resource, by the workers, and shrinks from its end.
LEMMA StackStep ==
  ASSUME LifeInv, OpenNext \/ StartWorkers \/ Unwind
  PROVE  LifeInv'
<1>1. PICK n \in Nat : n = Len(stack)
  BY DEF LifeInv
<1>2. /\ stack \in Seq(Things) /\ n <= 8 /\ \A i \in 1 .. n : stack[i] = Order[i]
      /\ worker \in [ToSet(Workers) -> {"off", "on"}]
      /\ \A k \in 1 .. 3 : worker[Workers[k]] = "on" => k + 5 <= n
  BY <1>1 DEF LifeInv
<1>3. CASE OpenNext
  <2>1. CASE UNCHANGED stack
    BY <1>3, <2>1 DEF OpenNext, LifeInv
  <2>2. CASE stack' = Append(stack, Resources[Len(stack) + 1]) /\ UNCHANGED phase
    <3>1. n < 5 /\ n + 1 \in 1 .. 5 /\ UNCHANGED <<worker, session, phase>> /\ phase = "opening"
      BY <1>1, <1>3, <2>2, OrderIs DEF OpenNext
    <3>2. PICK r \in Things : r = Resources[n + 1] /\ r = Order[n + 1]
      <4>1. Resources[n + 1] = Order[n + 1]
        BY <3>1, OrderIs
      <4>2. n + 1 \in 1 .. Len(Order) /\ Order \in Seq(Things)
        BY <3>1, OrderIs
      <4>3. Order[n + 1] \in Things
        BY <4>2
      <4>4. QED
        BY <4>1, <4>3
    <3>3. stack' = Append(stack, r)
      BY <1>1, <2>2, <3>2
    <3>4. stack' \in Seq(Things) /\ Len(stack') = n + 1 /\ stack'[n + 1] = r
          /\ \A i \in 1 .. n : stack'[i] = stack[i]
      BY <1>1, <1>2, <3>3
    <3>5. \A i \in 1 .. n + 1 : i = n + 1 \/ i \in 1 .. n
      OBVIOUS
    <3>6. \A i \in 1 .. n + 1 : stack'[i] = Order[i]
      BY <1>2, <3>2, <3>4, <3>5
    <3>7. session = "ours" => 5 <= n
      BY <1>1 DEF LifeInv
    <3>8. QED
      BY <1>2, <3>1, <3>4, <3>6, <3>7 DEF LifeInv
  <2>3. QED
    BY <1>3, <2>1, <2>2 DEF OpenNext
<1>4. CASE StartWorkers
  <2>1. stack' = Order /\ UNCHANGED session /\ phase' = "serving"
        /\ worker' = [w \in ToSet(Workers) |-> "on"]
    BY <1>4 DEF StartWorkers, Order
  <2>2. QED
    BY <2>1, OrderIs DEF LifeInv
<1>5. CASE Unwind
  <2>1. /\ n > 0 /\ n \in 1 .. n /\ phase = "closing" /\ UNCHANGED phase
        /\ stack' = Front(stack) /\ Last(stack) = Order[n]
        /\ worker' = IF Order[n] \in DOMAIN worker THEN [worker EXCEPT ![Order[n]] = "off"] ELSE worker
        /\ session' = IF Order[n] = "game_server" THEN "none" ELSE session
    <3>1. n > 0
      BY <1>1, <1>2, <1>5 DEF Unwind
    <3>2. Last(stack) = Order[n]
      BY <1>1, <1>2, <3>1 DEF Last
    <3>3. QED
      BY <1>5, <3>1, <3>2 DEF Unwind
  <2>2. stack' \in Seq(Things) /\ Len(stack') = n - 1 /\ \A i \in 1 .. n - 1 : stack'[i] = stack[i]
    <3>1. stack' = SubSeq(stack, 1, n - 1)
      BY <1>1, <2>1 DEF Front
    <3>2. QED
      BY <1>1, <1>2, <2>1, <3>1
  <2>3. \A i \in 1 .. n - 1 : stack'[i] = Order[i]
    BY <1>2, <2>2
  <2>4. worker' \in [ToSet(Workers) -> {"off", "on"}]
    BY <1>2, <2>1
  <2>5. ASSUME NEW k \in 1 .. 3, worker'[Workers[k]] = "on" PROVE k + 5 <= n - 1
    <3>1. Workers[k] \in ToSet(Workers) /\ Order[k + 5] = Workers[k]
      BY OrderIs
    <3>2. worker[Workers[k]] = "on" /\ Order[n] # Workers[k]
      BY <1>2, <2>1, <2>5, <3>1
    <3>3. k + 5 <= n /\ k + 5 # n
      BY <1>2, <3>1, <3>2
    <3>4. QED
      BY <3>3
  <2>6. session' = "ours" => 5 <= n - 1
    <3>1. n = 5 => Order[n] = "game_server"
      BY OrderIs
    <3>2. QED
      BY <1>1, <2>1, <3>1 DEF LifeInv
  <2>7. QED
    BY <1>2, <2>1, <2>2, <2>3, <2>4, <2>5, <2>6 DEF LifeInv
<1>6. QED
  BY <1>3, <1>4, <1>5

LEMMA LifeStep ==
  ASSUME LifeInv, [LifeNext]_lifevars
  PROVE  LifeInv'
<1>1. CASE Ping \/ Quit \/ Stop
  <2>1. Len(stack) \in Nat /\ UNCHANGED <<stack, worker, session>>
    BY <1>1 DEF LifeInv, Ping, Quit, Stop
  <2>2. phase' = "exited" => Len(stack) = 0
    BY <1>1, <2>1 DEF LifeInv, Ping, Quit, Stop
  <2>3. phase' = "opening" => Len(stack) <= 5
    BY <1>1, <2>1 DEF LifeInv, Ping, Quit, Stop
  <2>4. phase' = "pinging" => Len(stack) = 0
    BY <1>1, <2>1 DEF LifeInv, Ping, Quit, Stop
  <2>5. QED
    BY <2>1, <2>2, <2>3, <2>4 DEF LifeInv
<1>2. CASE TakeSession
  <2>1. UNCHANGED <<phase, stack, worker>>
        /\ (session' = "ours" => session = "ours" \/ IsOpen("game_server"))
    BY <1>2 DEF TakeSession
  <2>2. IsOpen("game_server") => 5 <= Len(stack)
    <3> SUFFICES ASSUME IsOpen("game_server") PROVE 5 <= Len(stack)
      OBVIOUS
    <3>1. DOMAIN stack = 1 .. Len(stack) /\ Len(stack) \in Nat /\ Len(stack) <= 8
      BY DEF LifeInv
    <3>2. PICK i \in 1 .. Len(stack) : stack[i] = "game_server"
      BY <3>1 DEF IsOpen, ToSet
    <3>3. i = 5
      BY <3>1, <3>2, OrderIs DEF LifeInv
    <3>4. QED
      BY <3>1, <3>2, <3>3
  <2>3. QED
    BY <2>1, <2>2 DEF LifeInv
<1>3. CASE Collect \/ LeaveSession \/ UNCHANGED lifevars
  BY <1>3 DEF Collect, LeaveSession, lifevars, LifeInv
<1>4. QED
  BY <1>1, <1>2, <1>3, StackStep DEF LifeNext

\* In every life of the process: whatever fails on the way up or whenever it ends,
\* what is open is a beginning of the order of opening, no worker runs without what it
\* reads from, and all is closed at the end, save a session that the thread of a
\* cancelled collection opens late.
THEOREM ClosesInOrder == LifeSpec => []ClosedInOrder
BY LifeInitInv, LifeStep, LifeInvImplies, PTL DEF LifeSpec

----------------------------------------------------------------------------
(* Days and hours *)

LEMMA Quotient ==
  ASSUME NEW t \in Nat, NEW d \in Nat \ {0}
  PROVE  t \div d \in Nat /\ t % d \in 0 .. d - 1 /\ t = d * (t \div d) + (t % d)
OBVIOUS

LEMMA QuotientIs ==
  ASSUME NEW t \in Nat, NEW d \in Nat \ {0}, NEW q \in Int, d * q <= t, t < d * q + d
  PROVE  t \div d = q
<1>1. t \div d \in Nat /\ t % d \in 0 .. d - 1 /\ t = d * (t \div d) + (t % d)
  BY Quotient
<1> DEFINE k == t \div d
<1> HIDE DEF k
<1>2. k \in Int /\ d * k <= t /\ t < d * k + d
  BY <1>1 DEF k
<1>3. CASE k < q
  <2>1. d * (k + 1) <= d * q
    BY <1>2, <1>3
  <2> QED
    BY <1>2, <2>1
<1>4. CASE q < k
  <2>1. d * (q + 1) <= d * k
    BY <1>2, <1>4
  <2> QED
    BY <1>2, <2>1
<1> QED
  BY <1>2, <1>3, <1>4 DEF k

\* Days are in the order of their moments, and so many back is so many hours back.
LEMMA DaysAscend ==
  ASSUME NEW s \in Nat, NEW t \in Nat, s <= t
  PROVE  stat_day(s) \in Nat /\ stat_day(s) <= stat_day(t)
<1>1. /\ stat_day(s) \in Nat /\ s % DAY \in 0 .. DAY - 1 /\ s = DAY * stat_day(s) + (s % DAY)
      /\ stat_day(t) \in Nat /\ t % DAY \in 0 .. DAY - 1 /\ t = DAY * stat_day(t) + (t % DAY)
  BY Quotient, CollectorAssumption DEF stat_day
<1>2. CASE stat_day(t) < stat_day(s)
  <2>1. DAY * (stat_day(t) + 1) <= DAY * stat_day(s)
    BY <1>1, <1>2, CollectorAssumption
  <2> QED
    BY <1>1, <2>1, CollectorAssumption
<1> QED
  BY <1>1, <1>2

LEMMA DaysBack ==
  ASSUME NEW s \in Nat, NEW t \in Nat, NEW n \in Nat
  PROVE  /\ stat_day(s) >= stat_day(t) - n + 1 => s >= t - n * DAY
         /\ s >= t - n * DAY => stat_day(s) >= stat_day(t) - n
<1>1. /\ stat_day(s) \in Nat /\ s % DAY \in 0 .. DAY - 1 /\ s = DAY * stat_day(s) + (s % DAY)
      /\ stat_day(t) \in Nat /\ t % DAY \in 0 .. DAY - 1 /\ t = DAY * stat_day(t) + (t % DAY)
  BY Quotient, CollectorAssumption DEF stat_day
<1>2. ASSUME stat_day(s) >= stat_day(t) - n + 1 PROVE s >= t - n * DAY
  <2>1. DAY * stat_day(s) >= DAY * (stat_day(t) - n + 1)
    BY <1>1, <1>2, CollectorAssumption
  <2> QED
    BY <1>1, <2>1, CollectorAssumption
<1>3. ASSUME s >= t - n * DAY, stat_day(s) < stat_day(t) - n PROVE FALSE
  <2>1. DAY * (stat_day(s) + 1) <= DAY * (stat_day(t) - n)
    BY <1>1, <1>3, CollectorAssumption
  <2> QED
    BY <1>1, <1>3, <2>1, CollectorAssumption
<1> QED
  BY <1>1, <1>2, <1>3

LEMMA HourOfDay ==
  ASSUME NEW t \in Nat
  PROVE  hour_of(t) \in HoursOfDay
<1>1. t % DAY \in 0 .. DAY - 1
  BY Quotient, CollectorAssumption
<1>2. DAY \div HOUR \in Nat /\ DAY = HOUR * (DAY \div HOUR)
  BY Quotient, CollectorAssumption, StatsAssumption
<1> DEFINE u == t % DAY
           h == u \div HOUR
           n == DAY \div HOUR
<1>3. u \in Nat /\ h \in Nat /\ HOUR * h <= u /\ u < HOUR * n
  <2>1. u \in Nat /\ u < DAY
    BY <1>1, CollectorAssumption
  <2>2. h \in Nat /\ u % HOUR \in 0 .. HOUR - 1 /\ u = HOUR * h + (u % HOUR)
    BY <2>1, Quotient, StatsAssumption
  <2> QED
    BY <1>2, <2>1, <2>2, StatsAssumption, CollectorAssumption
<1> HIDE DEF u, h, n
<1>4. n \in Nat
  BY <1>2 DEF n
<1>5. h < n
  <2>1. CASE n <= h
    <3>1. HOUR * n <= HOUR * h
      BY <1>3, <1>4, <2>1, StatsAssumption
    <3> QED
      BY <1>3, <1>4, <3>1, StatsAssumption
  <2> QED
    BY <1>3, <1>4, <2>1
<1> QED
  BY <1>3, <1>4, <1>5 DEF hour_of, HoursOfDay, h, n, u

----------------------------------------------------------------------------
(* Peaks and counts *)

\* The greatest of the values of a finite set is one of them.
LEMMA GreatestValue ==
  ASSUME NEW S, IsFiniteSet(S), S # {}, NEW f \in [S -> Nat]
  PROVE  \E x \in S : Max({f[y] : y \in S}) = f[x] /\ \A y \in S : f[y] <= f[x]
<1> DEFINE Above(x) == {y \in S : f[y] > f[x]}
           Sets == {Above(x) : x \in S}
           R == StrictSubsetOrdering(S)
           F == FiniteSubsetsOf(S)
<1>1. Sets \subseteq F /\ Sets # {}
  <2>1. \A T \in SUBSET S : T \in F
    BY FS_Subset DEF FiniteSubsetsOf
  <2>2. \A x \in S : Above(x) \in SUBSET S
    OBVIOUS
  <2>3. \A a \in Sets : a \in SUBSET S
    BY <2>2, Zenon
  <2> HIDE DEF Above, F
  <2> QED
    BY <2>1, <2>3
<1>2. PICK a \in Sets : \A b \in Sets : <<b, a>> \notin R
  <2>1. IsWellFoundedOn(R, F)
    BY FS_StrictSubsetOrderingWellFounded
  <2> HIDE DEF Sets, R, F
  <2> QED
    BY <1>1, <2>1, WFMin
<1>3. PICK x \in S : a = Above(x)
  OBVIOUS
<1>4. ASSUME NEW y \in S, f[y] > f[x] PROVE FALSE
  <2>1. Above(y) \subseteq Above(x) /\ y \in Above(x) /\ y \notin Above(y)
    BY <1>4
  <2>2. <<Above(y), a>> \in R
    BY <1>3, <2>1 DEF StrictSubsetOrdering
  <2> QED
    BY <1>2, <2>2
<1>5. \A y \in S : f[y] <= f[x] /\ f[y] \in Nat
  BY <1>4
<1>6. Max({f[y] : y \in S}) = f[x]
  <2> DEFINE V == {f[y] : y \in S}
  <2>1. f[x] \in V /\ \A v \in V : f[x] >= v /\ v \in Nat
    BY <1>5
  <2> HIDE DEF V
  <2>2. \A m \in V : (\A v \in V : m >= v) => m = f[x]
    BY <2>1
  <2> QED
    BY <2>1, <2>2 DEF Max, V
<1> QED
  BY <1>5, <1>6

\* Two of a finite set are two.
LEMMA TwoOf ==
  ASSUME NEW S, IsFiniteSet(S), NEW x \in S, NEW y \in S, x # y
  PROVE  Cardinality(S) >= 2
<1>1. Cardinality({x}) = 1 /\ IsFiniteSet({x})
  BY FS_Singleton
<1>2. IsFiniteSet({x} \cup {y}) /\ Cardinality({x} \cup {y}) = 2
  <2> DEFINE T == {x}
  <2>1. y \notin T
    OBVIOUS
  <2> HIDE DEF T
  <2>2. Cardinality(T) = 1 /\ IsFiniteSet(T)
    BY <1>1 DEF T
  <2>3. IsFiniteSet(T \cup {y}) /\ Cardinality(T \cup {y}) = Cardinality(T) + 1
    BY <2>1, <2>2, FS_AddElement
  <2> QED
    BY <2>2, <2>3 DEF T
<1>3. Cardinality({x} \cup {y}) <= Cardinality(S) /\ Cardinality(S) \in Nat
  BY FS_Subset, FS_CardinalityType
<1> QED
  BY <1>2, <1>3

LEMMA TwoIn ==
  ASSUME NEW S, IsFiniteSet(S), Cardinality(S) >= 2
  PROVE  \E x, y \in S : x # y
<1>1. S # {}
  BY FS_EmptySet
<1>2. PICK x \in S : TRUE
  BY <1>1
<1>3. S # {x}
  <2>1. Cardinality({x}) = 1
    BY FS_Singleton
  <2> QED
    BY <2>1
<1> QED
  BY <1>2, <1>3

----------------------------------------------------------------------------
(* The three tables *)

Sample(s) ==
  /\ s = [at |-> s.at, total_players |-> s.total_players, total_rooms |-> s.total_rooms,
          rank_players |-> s.rank_players]
  /\ s.at \in Nat /\ s.at <= hour /\ s.total_players \in Nat /\ s.rank_players \in Nat

Present(d) == {row \in players : row[1] = d}

\* The rows of a day's participants are there before its samples, and stay.
Samples ==
  /\ IsFiniteSet(samples) /\ IsFiniteSet(players)
  /\ \A s \in samples : Sample(s) /\ s.rank_players <= Cardinality(Present(stat_day(s.at)))

\* The two names of a match differ, if there are two.
Opponents == \A m \in sighted : m[2][1] # m[2][2] \/ NoUser \in {m[2][1], m[2][2]}

\* A cycle writes before the next poll, so that no row is of a later time than its own.
Times ==
  /\ cycle.pc \in Underway => cycle.at = hour
  /\ \A row \in meetings : row.day = stat_day(row.from) /\ row.from <= row.till /\ row.till <= hour

\* The inductive invariant.
StatsInv == CoInv /\ Samples /\ Opponents /\ Times

LEMMA StatsInitInv == CoInit => StatsInv
BY CollectorInit, FS_EmptySet DEF CoInit, StatsInv, Samples, Opponents, Times, Asleep, Underway

\* A day keeps its participants.
LEMMA PresentGrows ==
  ASSUME IsFiniteSet(players), IsFiniteSet(players'), players \subseteq players', NEW d
  PROVE  /\ IsFiniteSet(Present(d)) /\ Cardinality(Present(d)) \in Nat
         /\ Cardinality(Present(d)') \in Nat
         /\ Cardinality(Present(d)) <= Cardinality(Present(d)')
<1>1. IsFiniteSet(Present(d)) /\ IsFiniteSet(Present(d)') /\ Present(d) \in SUBSET Present(d)'
  <2>1. Present(d) \in SUBSET players /\ Present(d)' \in SUBSET players' /\ Present(d) \subseteq Present(d)'
    BY DEF Present
  <2> QED
    BY <2>1, FS_Subset
<1> QED
  BY <1>1, FS_Subset, FS_CardinalityType

LEMMA SeatsFinite ==
  ASSUME NEW obs \in Observations
  PROVE  /\ HeadCount(obs, DOMAIN obs) \in Nat /\ HeadCount(obs, RankRooms(obs)) \in Nat
         /\ IsFiniteSet(Seats(obs, RankRooms(obs)))
         /\ Seats(obs, RankRooms(obs)) \subseteq Seats(obs, DOMAIN obs)
<1>1. Seats(obs, RankRooms(obs)) \in SUBSET Seats(obs, DOMAIN obs)
  BY DEF Seats, RankRooms
<1>2. IsFiniteSet(Seats(obs, DOMAIN obs))
  BY SeatsAssumption
<1> QED
  BY <1>1, <1>2, FS_Subset, FS_CardinalityType DEF HeadCount

\* There are finitely many to record.
LEMMA RankPlayersFinite ==
  ASSUME NEW obs \in Observations, NEW d
  PROVE  IsFiniteSet({<<d, p>> : p \in RankPlayers(obs)})
<1> DEFINE S == Seats(obs, RankRooms(obs))
           T == {<<d, p>> : p \in RankPlayers(obs)}
           f == [x \in S |-> <<d, obs[x[1]].users[x[2]]>>]
<1>1. \A x \in S : f[x] \in T
  BY DEF Seats, RankPlayers
<1>2. ASSUME NEW t \in T PROVE \E x \in S : f[x] = t
  <2>1. PICK p \in RankPlayers(obs) : t = <<d, p>>
    OBVIOUS
  <2>2. PICK r \in RankRooms(obs) : \E i \in DOMAIN obs[r].users : p = obs[r].users[i]
    BY DEF RankPlayers
  <2>3. PICK i \in DOMAIN obs[r].users : p = obs[r].users[i]
    BY <2>2
  <2>4. <<r, i>> \in S
    BY DEF Seats
  <2>5. f[<<r, i>>] = t
    BY <2>1, <2>3, <2>4
  <2> QED
    BY <2>4, <2>5
<1>3. f \in Surjection(S, T)
  <2> HIDE DEF S, T
  <2> QED
    BY <1>1, <1>2 DEF Surjection
<1> QED
  BY <1>3, SeatsFinite, FS_Surjection

\* Every seat of a rank room is another participant of the day.
LEMMA HeadsAreParticipants ==
  ASSUME NEW obs \in Observations, NEW d, IsFiniteSet(players),
         \A p \in RankPlayers(obs) : <<d, p>> \in players
  PROVE  HeadCount(obs, RankRooms(obs)) <= Cardinality(Present(d))
<1> DEFINE S == Seats(obs, RankRooms(obs))
           f == [x \in S |-> <<d, obs[x[1]].users[x[2]]>>]
<1>1. \A x \in S : f[x] \in Present(d)
  BY DEF Seats, RankPlayers, Present
<1>2. \A x, y \in S : f[x] = f[y] => x = y
  BY SeatsAssumption, SeatsFinite
<1>3. f \in Injection(S, Present(d))
  <2> HIDE DEF S
  <2> QED
    BY <1>1, <1>2 DEF Injection, IsInjective
<1>4. IsFiniteSet(Present(d))
  BY FS_Subset DEF Present
<1> QED
  BY <1>3, <1>4, FS_Injection DEF HeadCount

LEMMA StatsObserve == StatsInv /\ Observe => Samples' /\ Opponents' /\ Times'
<1> SUFFICES ASSUME StatsInv, Observe PROVE Samples' /\ Opponents' /\ Times'
  OBVIOUS
<1>1. hour \in Nat /\ hour' = hour + 1 /\ UNCHANGED <<meetings, players, samples>>
  BY DEF Observe, StatsInv, CoInv, Rows
<1>2. Samples'
  <2>1. \A d : Present(d)' = Present(d)
    BY <1>1 DEF Present
  <2> QED
    BY <1>1, <2>1 DEF StatsInv, Samples, Sample, stat_day
<1>3. ASSUME NEW obs \in Observations, NEW m \in Matches(obs)
      PROVE  m[2][1] # m[2][2] \/ NoUser \in {m[2][1], m[2][2]}
  <2>1. PICK r \in RankRooms(obs) : m = <<r, Pair(obs[r].users)>>
    BY DEF Matches
  <2>2. r \in DOMAIN obs /\ Len(obs[r].users) \in Nat /\ DOMAIN obs[r].users = 1 .. Len(obs[r].users)
    BY ObservationsAssumption DEF RankRooms
  <2>3. m[2][1] = Slot(obs[r].users, 1) /\ m[2][2] = Slot(obs[r].users, 2)
    BY <2>1 DEF Pair
  <2>4. CASE ~(2 <= Len(obs[r].users))
    BY <2>3, <2>4 DEF Slot
  <2>5. CASE 2 <= Len(obs[r].users)
    <3>1. <<r, 1>> \in Seats(obs, DOMAIN obs) /\ <<r, 2>> \in Seats(obs, DOMAIN obs)
      BY <2>2, <2>5 DEF Seats
    <3>2. obs[r].users[1] # obs[r].users[2]
      BY <2>2, <3>1, SeatsAssumption
    <3> QED
      BY <2>2, <2>3, <2>5, <3>2 DEF Slot
  <2> QED
    BY <2>4, <2>5
<1>4. Opponents'
  BY <1>3 DEF Opponents, Observe, StatsInv
<1>5. Times'
  BY <1>1 DEF Observe, Times, StatsInv, CoInv, Rows, Asleep, Underway, stat_day
<1> QED
  BY <1>2, <1>4, <1>5

LEMMA StatsRecordPlayers == StatsInv /\ RecordPlayers => Samples' /\ Opponents' /\ Times'
<1> SUFFICES ASSUME StatsInv, RecordPlayers PROVE Samples' /\ Opponents' /\ Times'
  OBVIOUS
<1>1. cycle.obs \in Observations /\ cycle.at \in Nat /\ cycle.pc \in Underway
  BY DEF StatsInv, CoInv, CycleSeen, RecordPlayers, Underway
<1>2. IsFiniteSet(players') /\ players \subseteq players'
  BY <1>1, RankPlayersFinite, FS_Union DEF RecordPlayers, StatsInv, Samples
<1>3. \A d : Cardinality(Present(d)) <= Cardinality(Present(d)')
             /\ Cardinality(Present(d)) \in Nat /\ Cardinality(Present(d)') \in Nat
  BY <1>2, PresentGrows DEF StatsInv, Samples
<1>4. Samples'
  BY <1>2, <1>3 DEF RecordPlayers, StatsInv, Samples, Sample, stat_day
<1>5. Opponents' /\ Times'
  BY <1>1 DEF RecordPlayers, On, StatsInv, Opponents, Times, CoInv, CycleSeen, Underway, stat_day
<1> QED
  BY <1>4, <1>5

LEMMA StatsRecordSample == StatsInv /\ RecordSample => Samples' /\ Opponents' /\ Times'
<1> SUFFICES ASSUME StatsInv, RecordSample PROVE Samples' /\ Opponents' /\ Times'
  OBVIOUS
<1> DEFINE kept == {s \in samples : s.at >= hour - RETENTION}
           new == [at |-> cycle.at,
                   total_players |-> HeadCount(cycle.obs, DOMAIN cycle.obs),
                   total_rooms |-> Cardinality(DOMAIN cycle.obs),
                   rank_players |-> HeadCount(cycle.obs, RankRooms(cycle.obs))]
<1>1. /\ cycle.obs \in Observations /\ cycle.at \in Nat /\ cycle.at <= hour
      /\ \A p \in RankPlayers(cycle.obs) : <<stat_day(cycle.at), p>> \in players
  BY DEF StatsInv, CoInv, CycleSeen, RecordSample, Underway, Times
<1>2. samples' = kept \cup {new} /\ UNCHANGED <<hour, meetings, players, sighted>>
  BY DEF RecordSample
<1>3. new.rank_players <= Cardinality(Present(stat_day(new.at)))
  BY <1>1, HeadsAreParticipants DEF StatsInv, Samples
<1>4. Sample(new)
  BY <1>1, SeatsFinite DEF Sample
<1>5. IsFiniteSet(samples')
  <2>1. IsFiniteSet(kept)
    BY FS_Subset DEF StatsInv, Samples
  <2> HIDE DEF kept, new
  <2> QED
    BY <1>2, <2>1, FS_AddElement
<1>6. Samples'
  <2> HIDE DEF new
  <2>1. \A s \in samples' : Sample(s) /\ s.rank_players <= Cardinality(Present(stat_day(s.at)))
    BY <1>2, <1>3, <1>4 DEF StatsInv, Samples
  <2>2. \A d : Present(d)' = Present(d)
    BY <1>2 DEF Present
  <2>3. \A s : Sample(s)' <=> Sample(s)
    BY <1>2 DEF Sample
  <2> QED
    BY <1>2, <1>5, <2>1, <2>2, <2>3 DEF StatsInv, Samples, stat_day
<1>7. Opponents' /\ Times'
  BY <1>1, <1>2 DEF RecordSample, On, StatsInv, Opponents, Times, CoInv, CycleSeen, Underway, stat_day
<1> QED
  BY <1>6, <1>7

\* The tables of participants and samples are as they were.
LEMMA SamplesKept ==
  ASSUME Samples, UNCHANGED <<hour, players, samples>>
  PROVE  Samples'
<1>1. \A d : Present(d)' = Present(d)
  BY DEF Present
<1> QED
  BY <1>1 DEF Samples, Sample, stat_day

LEMMA StatsRecordNew == StatsInv /\ RecordNew => Samples' /\ Opponents' /\ Times'
<1> SUFFICES ASSUME StatsInv, RecordNew PROVE Samples' /\ Opponents' /\ Times'
  OBVIOUS
<1>1. cycle.at \in Nat /\ cycle.at <= hour /\ hour \in Nat
  BY DEF StatsInv, CoInv, Rows, CycleSeen, RecordNew, Underway, Times
<1>2. PICK ms : meetings' = Insert(ms, cycle.at)
  BY DEF RecordNew
<1>3. \A row \in meetings' : row.day = stat_day(row.from) /\ row.from <= row.till /\ row.till <= hour
  <2> TAKE row \in meetings'
  <2>1. CASE row \in meetings
    BY <2>1 DEF StatsInv, Times
  <2>2. CASE row \notin meetings
    BY <1>1, <1>2, <2>2, Inserted
  <2> QED
    BY <2>1, <2>2
<1>4. Opponents' /\ Times'
  BY <1>1, <1>3 DEF RecordNew, On, StatsInv, Opponents, Times, CoInv, CycleSeen, Underway, stat_day
<1> QED
  BY <1>4, SamplesKept DEF StatsInv, RecordNew

LEMMA StatsTouch == StatsInv /\ Touch => Samples' /\ Opponents' /\ Times'
<1> SUFFICES ASSUME StatsInv, Touch PROVE Samples' /\ Opponents' /\ Times'
  OBVIOUS
<1>1. cycle.at \in Nat /\ cycle.at = hour /\ hour \in Nat /\ Rows
  BY DEF StatsInv, CoInv, Rows, CycleSeen, Touch, Underway, Times
<1>2. meetings' = {TouchedRow(row) : row \in meetings}
  BY DEF Touch, TouchedRow
<1>3. \A row \in meetings' : row.day = stat_day(row.from) /\ row.from <= row.till /\ row.till <= hour
  <2> TAKE new \in meetings'
  <2>1. PICK row \in meetings : new = TouchedRow(row)
    BY <1>2
  <2>2. /\ row.day = stat_day(row.from) /\ row.from <= row.till /\ row.till <= hour
        /\ row.from \in Nat /\ row.till \in Nat
    BY <1>1 DEF StatsInv, Times, Rows
  <2>3. new.day = row.day /\ new.from = row.from /\ (new.till = cycle.at \/ new.till = row.till)
    BY <1>1, <2>1, Touched
  <2> QED
    BY <1>1, <2>2, <2>3
<1>4. Opponents' /\ Times'
  BY <1>1, <1>3 DEF Touch, On, StatsInv, Opponents, Times, CoInv, CycleSeen, Underway, stat_day
<1> QED
  BY <1>4, SamplesKept DEF StatsInv, Touch

LEMMA StatsInterruption ==
  StatsInv /\ (FailCycle \/ Restart \/ UNCHANGED cvars) => Samples' /\ Opponents' /\ Times'
<1> SUFFICES ASSUME StatsInv, FailCycle \/ Restart \/ UNCHANGED cvars
             PROVE  Samples' /\ Opponents' /\ Times'
  OBVIOUS
<1>1. /\ UNCHANGED <<hour, meetings, players, samples, sighted>>
      /\ cycle' = Asleep \/ UNCHANGED cycle
  BY DEF FailCycle, Restart, cvars
<1>2. Opponents' /\ Times'
  BY <1>1 DEF StatsInv, Opponents, Times, Asleep, Underway, stat_day
<1> QED
  BY <1>1, <1>2, SamplesKept DEF StatsInv

LEMMA StatsInvariant == CoSpec => []StatsInv
<1>1. StatsInv /\ [CoNext]_cvars => StatsInv'
  <2> SUFFICES ASSUME StatsInv, [CoNext]_cvars PROVE StatsInv'
    OBVIOUS
  <2>1. CoInv'
    BY ObserveStep, RecordPlayersStep, RecordSampleStep, RecordNewStep, TouchStep, InterruptionStep
       DEF CoNext, StatsInv
  <2>2. Samples' /\ Opponents' /\ Times'
    BY StatsObserve, StatsRecordPlayers, StatsRecordSample, StatsRecordNew, StatsTouch, StatsInterruption
       DEF CoNext
  <2> QED
    BY <2>1, <2>2 DEF StatsInv
<1> QED
  BY <1>1, StatsInitInv, PTL DEF CoSpec

----------------------------------------------------------------------------
(* What is read of them *)

Sampled(d) == {s \in samples : stat_day(s.at) = d}

LEMMA SummaryIs ==
  ASSUME NEW first
  PROVE  /\ DOMAIN SummarySince(first) =
              {d \in first .. stat_day(hour) : Sampled(d) # {} \/ Present(d) # {}}
         /\ \A d \in DOMAIN SummarySince(first) :
              /\ SummarySince(first)[d].peak_players = IF Sampled(d) = {} THEN {} ELSE {PeakOf(Sampled(d))}
              /\ SummarySince(first)[d].unique_players = Cardinality(Present(d))
BY DEF SummarySince, Sampled, Present

LEMMA PeakIs ==
  ASSUME Samples, NEW R \in SUBSET samples, R # {}
  PROVE  /\ PeakOf(R) \in Nat /\ \A s \in R : s.total_players <= PeakOf(R)
         /\ \E s \in R : PeakOf(R) = s.total_players
<1> DEFINE f == [s \in R |-> s.total_players]
<1>1. IsFiniteSet(R)
  BY FS_Subset DEF Samples
<1>2. f \in [R -> Nat]
  BY DEF Samples, Sample
<1>3. {s.total_players : s \in R} = {f[s] : s \in R}
  OBVIOUS
<1>4. \A s \in R : f[s] = s.total_players
  OBVIOUS
<1> HIDE DEF f
<1>5. PICK s \in R : Max({f[t] : t \in R}) = f[s] /\ \A t \in R : f[t] <= f[s]
  BY <1>1, <1>2, GreatestValue
<1> QED
  BY <1>2, <1>3, <1>4, <1>5 DEF PeakOf

During(days, h) == {s \in {x \in samples : x.at >= hour - days * DAY} : hour_of(s.at) = h}

LEMMA HourIs ==
  ASSUME NEW days, NEW h \in HoursOfDay
  PROVE  HourlyActivity(days)[h] = IF During(days, h) = {} THEN 0 ELSE PeakOf(During(days, h))
BY DEF HourlyActivity, During

\* A day's peak was reached at some hour of it, and an hour's on some day.
LEMMA PeaksMeet ==
  ASSUME StatsInv
  PROVE  HoursMatchDays
<1> SUFFICES ASSUME NEW days \in 1 .. 1 + stat_day(hour)
             PROVE  /\ \A k \in Peaks(DailySummary(days)) : \E h \in HoursOfDay : k <= HourlyActivity(days)[h]
                    /\ \A h \in HoursOfDay : HourlyActivity(days)[h] > 0 =>
                         \E k \in Peaks(DailySummary(days + 1)) : HourlyActivity(days)[h] <= k
  BY DEF HoursMatchDays
<1>1. hour \in Nat /\ stat_day(hour) \in Nat /\ days \in Nat
  <2>1. hour \in Nat
    BY DEF StatsInv, CoInv, Rows
  <2> QED
    BY <2>1, DaysAscend
<1>2. Samples
  BY DEF StatsInv
<1>3. \A s \in samples : s.at \in Nat /\ s.at <= hour /\ stat_day(s.at) \in Nat /\ stat_day(s.at) <= stat_day(hour)
  <2> TAKE s \in samples
  <2>1. s.at \in Nat /\ s.at <= hour
    BY <1>2 DEF Samples, Sample
  <2> QED
    BY <1>1, <2>1, DaysAscend
<1>4. ASSUME NEW k \in Peaks(DailySummary(days))
      PROVE  \E h \in HoursOfDay : k <= HourlyActivity(days)[h]
  <2> DEFINE first == stat_day(hour) - (days - 1)
  <2>1. PICK d \in DOMAIN SummarySince(first) : k \in SummarySince(first)[d].peak_players
    BY DEF Peaks, DailySummary
  <2>2. d \in first .. stat_day(hour) /\ Sampled(d) # {} /\ k = PeakOf(Sampled(d))
    <3> HIDE DEF first
    <3>1. d \in first .. stat_day(hour)
      BY SummaryIs
    <3>2. k \in IF Sampled(d) = {} THEN {} ELSE {PeakOf(Sampled(d))}
      BY <2>1, SummaryIs, Zenon
    <3> QED
      BY <3>1, <3>2
  <2>3. PICK s \in Sampled(d) : k = s.total_players
    BY <1>2, <2>2, PeakIs DEF Sampled
  <2>4. s \in samples /\ stat_day(s.at) >= stat_day(hour) - days + 1
    BY <1>1, <2>2 DEF Sampled
  <2>5. s.at >= hour - days * DAY
    BY <1>1, <1>3, <2>4, DaysBack
  <2>6. hour_of(s.at) \in HoursOfDay /\ s \in During(days, hour_of(s.at))
    BY <1>3, <2>4, <2>5, HourOfDay DEF During
  <2>7. s.total_players <= PeakOf(During(days, hour_of(s.at)))
    BY <1>2, <2>6, PeakIs DEF During
  <2>8. k <= HourlyActivity(days)[hour_of(s.at)]
    BY <2>3, <2>6, <2>7, HourIs
  <2> QED
    BY <2>6, <2>8
<1>5. ASSUME NEW h \in HoursOfDay, HourlyActivity(days)[h] > 0
      PROVE  \E k \in Peaks(DailySummary(days + 1)) : HourlyActivity(days)[h] <= k
  <2> DEFINE first == stat_day(hour) - (days + 1 - 1)
  <2>1. During(days, h) # {} /\ HourlyActivity(days)[h] = PeakOf(During(days, h))
    BY <1>5, HourIs
  <2>2. PICK s \in During(days, h) : HourlyActivity(days)[h] = s.total_players
    BY <1>2, <2>1, PeakIs DEF During
  <2>3. s \in samples /\ s.at >= hour - days * DAY
    BY DEF During
  <2>4. stat_day(s.at) \in first .. stat_day(hour)
    BY <1>1, <1>3, <2>3, DaysBack
  <2>5. s \in Sampled(stat_day(s.at))
    BY <2>3 DEF Sampled
  <2>6. PeakOf(Sampled(stat_day(s.at))) >= s.total_players
    BY <1>2, <2>5, PeakIs DEF Sampled
  <2>7. stat_day(s.at) \in DOMAIN SummarySince(first)
    BY <2>4, <2>5, SummaryIs
  <2>8. PeakOf(Sampled(stat_day(s.at))) \in SummarySince(first)[stat_day(s.at)].peak_players
    <3> DEFINE d == stat_day(s.at)
    <3> HIDE DEF first, d
    <3>1. d \in DOMAIN SummarySince(first) /\ Sampled(d) # {}
      BY <2>5, <2>7 DEF d
    <3>2. SummarySince(first)[d].peak_players = IF Sampled(d) = {} THEN {} ELSE {PeakOf(Sampled(d))}
      BY <3>1, SummaryIs, Zenon
    <3> QED
      BY <3>1, <3>2 DEF d
  <2>9. PeakOf(Sampled(stat_day(s.at))) \in Peaks(DailySummary(days + 1))
    BY <2>7, <2>8 DEF Peaks, DailySummary
  <2> QED
    BY <1>2, <2>2, <2>3, <2>5, <2>6, <2>9 DEF Samples, Sample
<1> QED
  BY <1>4, <1>5

LEMMA SamplesAreCovered ==
  ASSUME StatsInv
  PROVE  SamplesCovered
<1> DEFINE today == stat_day(hour)
<1> SUFFICES ASSUME NEW s \in samples
             PROVE  s.rank_players <= DailySummary(1 + today)[stat_day(s.at)].unique_players
  BY DEF SamplesCovered
<1>1. hour \in Nat /\ s.at \in Nat /\ s.at <= hour
      /\ s.rank_players <= Cardinality(Present(stat_day(s.at)))
  BY DEF StatsInv, CoInv, Rows, Samples, Sample
<1>2. stat_day(s.at) \in Nat /\ today \in Nat /\ stat_day(s.at) <= today
  BY <1>1, DaysAscend
<1>3. DailySummary(1 + today) = SummarySince(0)
  BY <1>2 DEF DailySummary
<1>4. stat_day(s.at) \in 0 .. today /\ Sampled(stat_day(s.at)) # {}
  BY <1>2 DEF Sampled
<1>5. stat_day(s.at) \in DOMAIN SummarySince(0)
  BY <1>4, SummaryIs
<1>6. SummarySince(0)[stat_day(s.at)].unique_players = Cardinality(Present(stat_day(s.at)))
  BY <1>5, SummaryIs
<1> QED
  BY <1>1, <1>3, <1>6

LEMMA TimesOfMeeting ==
  ASSUME StatsInv, NEW row \in meetings
  PROVE  row.from \in Nat /\ row.till \in Nat /\ row.from <= row.till /\ row.till <= hour /\ hour \in Nat
BY DEF StatsInv, CoInv, Rows, Times

\* A player named in a row is among the participants of its day, and if the row names
\* two, so is another.
LEMMA DayOfMeeting ==
  ASSUME StatsInv, NEW row \in meetings, NEW p \in {row.users[1], row.users[2]}, p # NoUser
  PROVE  /\ IsFiniteSet(Present(stat_day(row.from)))
         /\ Cardinality(Present(stat_day(row.from))) \in Nat
         /\ Cardinality(Present(stat_day(row.from))) >= 1
         /\ ~Unnamed(row) => Cardinality(Present(stat_day(row.from))) >= 2
<1>1. row.day = stat_day(row.from)
  BY DEF StatsInv, Times
<1>2. ASSUME NEW i \in 1 .. 2, row.users[i] # NoUser PROVE <<row.day, row.users[i]>> \in Present(row.day)
  BY <1>2 DEF StatsInv, CoInv, RowsExplained, Present
<1>3. IsFiniteSet(Present(row.day)) /\ Cardinality(Present(row.day)) \in Nat
  BY FS_Subset, FS_CardinalityType DEF Present, StatsInv, Samples
<1>4. Cardinality(Present(row.day)) >= 1
  <2>1. Present(row.day) # {}
    BY <1>2
  <2> QED
    BY <1>3, <2>1, FS_EmptySet
<1>5. ASSUME ~Unnamed(row) PROVE Cardinality(Present(row.day)) >= 2
  <2>1. row.users[1] # row.users[2]
    BY <1>5 DEF Unnamed, StatsInv, CoInv, RowsExplained, Opponents
  <2>2. <<row.day, row.users[1]>> \in Present(row.day) /\ <<row.day, row.users[2]>> \in Present(row.day)
    BY <1>2, <1>5 DEF Unnamed
  <2> QED
    BY <1>3, <2>1, <2>2, TwoOf
<1> QED
  BY <1>1, <1>3, <1>4, <1>5

DaysMet(p, days) == {stat_day(t) : t \in {row.from : row \in MeetingsOf(p, hour - days * DAY)}}

LEMMA DaysActive == ASSUME NEW p, NEW days PROVE PlayerStats(p, days).days_active = Cardinality(DaysMet(p, days))
BY DEF PlayerStats, DaysMet

LEMMA MeetingsAreCovered ==
  ASSUME StatsInv, NEW p, p # NoUser
  PROVE  MeetingsCovered(p)
<1> DEFINE today == stat_day(hour)
           least == IF \E row \in MeetingsOf(p, 0) : Unnamed(row) THEN 1 ELSE 2
<1> SUFFICES ASSUME NEW days \in 1 .. 1 + today
             PROVE  Cardinality(DaysMet(p, days)) <= Cardinality(BusyDays(DailySummary(days + 1), least))
  BY DaysActive DEF MeetingsCovered
<1>1. hour \in Nat /\ today \in Nat /\ days \in Nat
  <2>1. hour \in Nat
    BY DEF StatsInv, CoInv, Rows
  <2> QED
    BY <2>1, DaysAscend
<1> DEFINE summary == SummarySince(today - days)
<1>2. DailySummary(days + 1) = summary
  BY <1>1 DEF DailySummary
<1>3. IsFiniteSet(BusyDays(summary, least))
  <2>1. BusyDays(summary, least) \in SUBSET ((today - days) .. today)
    BY SummaryIs DEF BusyDays
  <2>2. today - days \in Int /\ today \in Int
    BY <1>1
  <2> HIDE DEF summary, today
  <2>3. IsFiniteSet((today - days) .. today)
    BY <2>2, FS_Interval
  <2> QED
    BY <2>1, <2>3, FS_Subset
<1>4. ASSUME NEW d \in DaysMet(p, days) PROVE d \in BusyDays(summary, least)
  <2>1. PICK row \in MeetingsOf(p, hour - days * DAY) : d = stat_day(row.from)
    BY DEF DaysMet
  <2>2. row \in meetings /\ row.from >= hour - days * DAY
    BY DEF MeetingsOf
  <2>3. /\ row.from \in Nat /\ row.from <= hour
        /\ IsFiniteSet(Present(d)) /\ Cardinality(Present(d)) >= 1 /\ Cardinality(Present(d)) >= least
    <3>1. p \in {row.users[1], row.users[2]}
      BY DEF MeetingsOf
    <3>2. row.from \in Nat /\ row.from <= hour
      BY <1>1, <2>2, TimesOfMeeting
    <3>3. row \in MeetingsOf(p, 0)
      BY <2>2, <3>1, <3>2 DEF MeetingsOf
    <3>4. /\ IsFiniteSet(Present(d)) /\ Cardinality(Present(d)) \in Nat /\ Cardinality(Present(d)) >= 1
          /\ ~Unnamed(row) => Cardinality(Present(d)) >= 2
      BY <2>1, <2>2, <3>1, DayOfMeeting
    <3> QED
      BY <3>2, <3>3, <3>4
  <2>4. d \in (today - days) .. today
    <3>1. d \in Nat /\ d <= today
      BY <1>1, <2>1, <2>3, DaysAscend
    <3>2. d >= today - days
      BY <1>1, <2>1, <2>2, <2>3, DaysBack
    <3> QED
      BY <1>1, <3>1, <3>2
  <2>5. Present(d) # {}
    BY <2>3, FS_EmptySet
  <2>6. d \in DOMAIN summary
    BY <2>4, <2>5, SummaryIs
  <2>7. summary[d].unique_players = Cardinality(Present(d))
    BY <2>6, SummaryIs
  <2> HIDE DEF summary
  <2> QED
    BY <2>3, <2>6, <2>7 DEF BusyDays
<1>5. DaysMet(p, days) \in SUBSET BusyDays(summary, least)
  BY <1>4
<1> QED
  BY <1>2, <1>3, <1>5, FS_Subset

\* A covered hour of a room that ended on the day it began is an hour of that day:
\* the day begins with an hour.
LEMMA CoveredDay ==
  ASSUME StatsInv, NEW row \in meetings, NEW t \in CoveredHours(row),
         ~(stat_day(row.till) > stat_day(row.from))
  PROVE  stat_day(t) = stat_day(row.from)
<1> DEFINE d == stat_day(row.from)
           k == t \div HOUR
           n == DAY \div HOUR
<1>1. row.from \in Nat /\ row.till \in Nat /\ row.from <= row.till
  BY TimesOfMeeting
<1>2. t \in Nat /\ t <= row.till /\ t % HOUR = 0 /\ t + HOUR > row.from
  BY <1>1, StatsAssumption DEF CoveredHours
<1>3. d \in Nat /\ row.from % DAY \in 0 .. DAY - 1 /\ row.from = DAY * d + (row.from % DAY)
  BY <1>1, Quotient, CollectorAssumption DEF stat_day
<1>4. stat_day(t) <= d
  <2>1. stat_day(t) \in Nat /\ stat_day(t) <= stat_day(row.till) /\ stat_day(row.till) \in Nat
    BY <1>1, <1>2, DaysAscend
  <2> QED
    BY <1>3, <2>1
<1>5. DAY * d <= t
  <2>1. k \in Nat /\ t = HOUR * k
    <3>1. k \in Nat /\ t = HOUR * k + (t % HOUR)
      BY <1>2, Quotient, StatsAssumption
    <3> QED
      BY <1>2, <3>1, StatsAssumption
  <2>2. n \in Nat /\ DAY = HOUR * n
    <3>1. n \in Nat /\ DAY = HOUR * n + (DAY % HOUR)
      BY Quotient, StatsAssumption, CollectorAssumption
    <3> QED
      BY <3>1, StatsAssumption, CollectorAssumption
  <2> HIDE DEF k, n, d
  <2>3. n * d \in Nat /\ DAY * d = HOUR * (n * d)
    BY <1>3, <2>2, StatsAssumption
  <2> DEFINE m == n * d
  <2>4. m \in Nat /\ DAY * d = HOUR * m
    BY <2>3
  <2> HIDE DEF m
  <2>5. HOUR * m <= row.from
    BY <1>1, <1>3, <2>4, CollectorAssumption
  <2>6. HOUR * m < HOUR * (k + 1)
    BY <1>1, <1>2, <2>1, <2>4, <2>5, StatsAssumption
  <2>7. m <= k
    <3>1. CASE k + 1 <= m
      <4>1. HOUR * (k + 1) <= HOUR * m
        BY <2>1, <2>4, <3>1, StatsAssumption
      <4> QED
        BY <2>1, <2>4, <2>6, <4>1, StatsAssumption
    <3> QED
      BY <2>1, <2>4, <3>1
  <2> QED
    BY <2>1, <2>4, <2>7, StatsAssumption
<1>6. d <= stat_day(t)
  <2>1. DAY * d \in Nat
    BY <1>3, CollectorAssumption
  <2>2. stat_day(DAY * d) = d
    BY <1>3, <2>1, QuotientIs, CollectorAssumption DEF stat_day
  <2>3. stat_day(DAY * d) <= stat_day(t)
    BY <1>2, <1>5, <2>1, DaysAscend
  <2> QED
    BY <2>2, <2>3
<1>7. stat_day(t) \in Nat
  BY <1>2, DaysAscend
<1> QED
  BY <1>3, <1>4, <1>6, <1>7

LEMMA HoursAreExplained ==
  ASSUME StatsInv, NEW p
  PROVE  HoursExplained(p)
<1> DEFINE met == MeetingsOf(p, hour - WEEK)
           covered == UNION {CoveredHours(row) : row \in met}
           On2(h) == {stat_day(t) : t \in {u \in covered : hour_of(u) = h}}
           Days == DaysMet(p, 1 + hour)
<1> SUFFICES ASSUME PlayerStats(p, 1 + hour).active_hours # {},
                    \A row \in met : ~(stat_day(row.till) > stat_day(row.from))
             PROVE  PlayerStats(p, 1 + hour).days_active >= 2
  BY DEF HoursExplained
<1>1. hour \in Nat
  BY DEF StatsInv, CoInv, Rows
<1>2. PICK h \in HoursOfDay : Cardinality(On2(h)) >= 2
  BY DEF PlayerStats, ActiveHours
<1>3. \A row \in met : row \in meetings /\ row \in MeetingsOf(p, hour - (1 + hour) * DAY)
  <2> TAKE row \in met
  <2>1. row \in meetings /\ p \in {row.users[1], row.users[2]}
    BY DEF MeetingsOf
  <2>2. row.from \in Nat
    BY <2>1, TimesOfMeeting
  <2>3. hour - (1 + hour) * DAY <= 0
    <3>1. (1 + hour) * DAY >= 1 + hour
      BY <1>1, CollectorAssumption
    <3> QED
      BY <1>1, <3>1, CollectorAssumption
  <2>4. hour - (1 + hour) * DAY \in Int
    BY <1>1, CollectorAssumption
  <2> QED
    BY <2>1, <2>2, <2>3, <2>4 DEF MeetingsOf
<1>4. \A d \in On2(h) : d \in Days
  <2> TAKE d \in On2(h)
  <2>1. PICK t \in covered : d = stat_day(t)
    OBVIOUS
  <2>2. PICK row \in met : t \in CoveredHours(row)
    BY <2>1
  <2>3. d = stat_day(row.from)
    BY <1>3, <2>1, <2>2, CoveredDay
  <2> QED
    BY <1>3, <2>3 DEF DaysMet
<1>5. IsFiniteSet(Days)
  <2>1. ASSUME NEW d \in Days PROVE d \in 0 .. stat_day(hour)
    <3>1. PICK row \in MeetingsOf(p, hour - (1 + hour) * DAY) : d = stat_day(row.from)
      BY DEF DaysMet
    <3>2. row.from \in Nat /\ row.from <= hour
      <4>1. row \in meetings
        BY DEF MeetingsOf
      <4> QED
        BY <4>1, TimesOfMeeting
    <3> QED
      BY <1>1, <3>1, <3>2, DaysAscend
  <2>2. Days \in SUBSET (0 .. stat_day(hour)) /\ stat_day(hour) \in Nat
    BY <1>1, <2>1, DaysAscend
  <2>3. IsFiniteSet(0 .. stat_day(hour))
    BY <2>2, FS_Interval
  <2> HIDE DEF Days
  <2> QED
    BY <2>2, <2>3, FS_Subset
<1> HIDE DEF On2, Days
<1>6. On2(h) \in SUBSET Days
  BY <1>4
<1>7. Cardinality(Days) >= 2
  BY <1>2, <1>5, <1>6, FS_Subset, FS_CardinalityType
<1> QED
  BY <1>7, DaysActive DEF Days

\* The hours of the day, the days and a player's days, read from tables that four
\* transactions wrote of which any may have failed, agree; for any observations in
\* which a user sits in one room at a time, any length of an hour and a day, and any
\* retention (history/adapters/postgresql.py).
THEOREM StatisticsAgree == CoSpec => []StatsAgree
<1>1. StatsInv => StatsAgree
  BY PeaksMeet, SamplesAreCovered, MeetingsAreCovered, HoursAreExplained DEF StatsAgree
<1> QED
  BY <1>1, StatsInvariant, PTL
=============================================================================
