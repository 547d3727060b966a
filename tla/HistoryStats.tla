---------------------------- MODULE HistoryStats ----------------------------
(***************************************************************************)
(* What the history service answers from the collector's three tables      *)
(* (get_hourly_activity, get_daily_summary and get_player_stats of         *)
(* history/adapters/postgresql.py).  Time starts with a statistics day.    *)
(* Averages are left out; they are taken over the rows of the peaks.       *)
(***************************************************************************)
EXTENDS Collector, FiniteSetsExt

CONSTANTS
  HOUR,   \* an hour of the clock, in polling intervals
  WEEK    \* the days whose active hours are shown

ASSUME StatsAssumption == HOUR \in Nat \ {0} /\ DAY % HOUR = 0 /\ WEEK \in Nat

\* A user sits in one room at a time.
ASSUME SeatsAssumption ==
  \A obs \in Observations :
    /\ IsFiniteSet(DOMAIN obs) /\ IsFiniteSet(Seats(obs, DOMAIN obs))
    /\ \A x, y \in Seats(obs, DOMAIN obs) : obs[x[1]].users[x[2]] = obs[y[1]].users[y[2]] => x = y

\* The hours of a statistics day, counted from its start.
HoursOfDay == 0 .. (DAY \div HOUR) - 1
hour_of(t) == (t % DAY) \div HOUR

PeakOf(rows) == Max({s.total_players : s \in rows})
MostRooms(rows) == Max({s.total_rooms : s \in rows})

\* Samples of the last days by hour of the day; an hour without one is zero.
HourlyActivity(days) ==
  LET recent == {s \in samples : s.at >= hour - days * DAY}
      during(h) == {s \in recent : hour_of(s.at) = h}
  IN [h \in HoursOfDay |-> IF during(h) = {} THEN 0 ELSE PeakOf(during(h))]

\* The full outer join lists a day that has samples or participants, with no peak
\* ({}) or no participants (0) for the other.
SummarySince(first) ==
  LET sampled(d) == {s \in samples : stat_day(s.at) = d}
      present(d) == {row \in players : row[1] = d}
      listed == {d \in first .. stat_day(hour) : sampled(d) # {} \/ present(d) # {}}
  IN [d \in listed |-> [peak_players |-> IF sampled(d) = {} THEN {} ELSE {PeakOf(sampled(d))},
                        peak_rooms |-> IF sampled(d) = {} THEN {} ELSE {MostRooms(sampled(d))},
                        unique_players |-> Cardinality(present(d))]]

\* As many days as asked for, today among them.
DailySummary(days) == SummarySince(stat_day(hour) - (days - 1))

MeetingsOf(p, since) == {row \in meetings : p \in {row.users[1], row.users[2]} /\ row.from >= since}

\* generate_series from the hour a meeting began to its last sighting.
CoveredHours(row) == {t \in 0 .. row.till : t % HOUR = 0 /\ t + HOUR > row.from}

\* The hours of the day on which the player was met on two statistics days.
ActiveHours(p, since) ==
  LET covered == UNION {CoveredHours(row) : row \in MeetingsOf(p, since)}
  IN {h \in HoursOfDay : Cardinality({stat_day(t) : t \in {u \in covered : hour_of(u) = h}}) >= 2}

\* The active hours are those of the last week, whatever days is asked for.
PlayerStats(p, days) ==
  LET met == MeetingsOf(p, hour - days * DAY)
      starts == {row.from : row \in met}
  IN [days_active |-> Cardinality({stat_day(t) : t \in starts}),
      times_seen |-> Cardinality(met),
      first_seen |-> IF met = {} THEN {} ELSE {Min(starts)},
      last_seen |-> IF met = {} THEN {} ELSE {Max(starts)},
      active_hours |-> ActiveHours(p, hour - WEEK)]

----------------------------------------------------------------------------

\* "An hour's peak here and a day's peak there are the same measurement": the highest
\* hour of the days a summary spans is its highest day.
Peaks(summary) == UNION {summary[d].peak_players : d \in DOMAIN summary}
HoursMatchDays ==
  \A days \in 1 .. 1 + stat_day(hour) :
    LET hourly == HourlyActivity(days) IN
    /\ \A k \in Peaks(DailySummary(days)) : \E h \in HoursOfDay : k <= hourly[h]
    /\ \A h \in HoursOfDay : hourly[h] > 0 => \E k \in Peaks(DailySummary(days + 1)) : hourly[h] <= k

\* A day shows at least as many participants as any sample of it had players in rank
\* rooms (a user sits in one room at a time).
SamplesCovered ==
  LET everything == DailySummary(1 + stat_day(hour))
  IN \A s \in samples : s.rank_players <= everything[stat_day(s.at)].unique_players

\* Who met somebody on some of the days is among the participants of as many, and
\* not alone, unless RPCN listed one player only of a match of theirs.
BusyDays(summary, n) == {d \in DOMAIN summary : summary[d].unique_players >= n}
Unnamed(row) == NoUser \in {row.users[1], row.users[2]}
MeetingsCovered(p) ==
  LET least == IF \E row \in MeetingsOf(p, 0) : Unnamed(row) THEN 1 ELSE 2 IN
  \A days \in 1 .. 1 + stat_day(hour) :
    PlayerStats(p, days).days_active <= Cardinality(BusyDays(DailySummary(days + 1), least))

\* Who has an active hour was met on two days or in a room that lasted into the next
\* one.
HoursExplained(p) ==
  PlayerStats(p, 1 + hour).active_hours # {} =>
    \/ PlayerStats(p, 1 + hour).days_active >= 2
    \/ \E row \in MeetingsOf(p, hour - WEEK) : stat_day(row.till) > stat_day(row.from)

\* Three queries over three tables, written by different transactions of which any
\* may fail, and cut at days that begin at 06:00 by different means, agree.
StatsAgree ==
  samples # {} \/ meetings # {} =>
    /\ HoursMatchDays
    /\ SamplesCovered
    /\ \A p \in {row.users[1] : row \in meetings} \ {NoUser} : MeetingsCovered(p) /\ HoursExplained(p)
=============================================================================
