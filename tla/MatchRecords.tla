---------------------------- MODULE MatchRecords ----------------------------
(***************************************************************************)
(* Reading recorded matches (records/service.py, records/adapters/         *)
(* postgresql.py): the list, paged by id while matches go on being         *)
(* recorded, and the two tallies.  How matches come to be recorded is      *)
(* MatchQueue's; here a line appears when its transaction commits, under   *)
(* an id that the sequence gave out before.                                *)
(***************************************************************************)
EXTENDS Integers, Sequences, SequencesExt, FiniteSetsExt, Sorting

CONSTANTS
  Names,       \* usernames, as places in their order
  Lines,       \* lines that may be recorded
  Limit,       \* matches on a page
  MaxMatches,  \* bound on the ids given out
  NoOne        \* no opponent known, or no name asked for

Sides == {"p1", "p2"}
Match == [p1 : Names, p2 : Names \cup {NoOne}, winner : Sides, seen : SUBSET Sides, recent : BOOLEAN]

\* A line names its opponent only from a room, two players are not one, and a new
\* line has one side's event.
ASSUME RecordsAssumption ==
  /\ Names \subseteq Nat /\ IsFiniteSet(Names) /\ NoOne \notin Names /\ Limit \in Nat \ {0} /\ MaxMatches \in Nat
  /\ \A m \in Lines : /\ m \in Match /\ m.p1 # m.p2 /\ m.seen \in {{"p1"}, {"p2"}}
                      /\ m.p2 = NoOne => m.seen = {"p1"}

VARIABLES
  match,    \* matches, by id, whether committed or not
  born,     \* ids whose transaction has committed
  reader    \* who is paging: [who, before, shown, there, done]

recvars == <<match, born, reader>>

NoReader == [who |-> NoOne, before |-> 0, shown |-> <<>>, there |-> {}, done |-> TRUE]

RecInit == match = <<>> /\ born = {} /\ reader = NoReader

----------------------------------------------------------------------------
(* Lines appear *)

\* add_match: the id is given out before the commit.
Add ==
  /\ Len(match) < MaxMatches
  /\ \E m \in Lines : match' = Append(match, m)
  /\ UNCHANGED <<born, reader>>

Commit(i) ==
  /\ i \in DOMAIN match \ born
  /\ born' = born \cup {i}
  /\ UNCHANGED <<match, reader>>

\* fill_side
FillSide(i) ==
  /\ i \in born /\ match[i].p2 # NoOne /\ match[i].seen # Sides
  /\ match' = [match EXCEPT ![i].seen = Sides]
  /\ UNCHANGED <<born, reader>>

----------------------------------------------------------------------------
(* list_matches *)

LinesOf(who) == {i \in born : who = NoOne \/ who \in {match[i].p1, match[i].p2}}

BeginReading(who) ==
  /\ reader = NoReader
  /\ reader' = [who |-> who, before |-> MaxMatches + 1, shown |-> <<>>, there |-> LinesOf(who), done |-> FALSE]
  /\ UNCHANGED <<match, born>>

\* The next page starts before the first line that was not shown: one is skipped.
NextBeforeWrong(found) == found[Limit + 1]

\* next_before: the last line shown.
NextBefore(found) == found[Limit]

\* ORDER BY id DESC LIMIT limit + 1: the newest of the lines, newest first.
Newest(ids) ==
  {found \in UNION {[1 .. n -> ids] : n \in 0 .. Limit + 1} :
     /\ \A j, k \in DOMAIN found : j < k => found[j] > found[k]
     /\ \A i \in ids \ ToSet(found) : Len(found) > Limit /\ \A k \in DOMAIN found : i < found[k]}

\* One line more than a page is read, to know if there is a next page.
ReadPage ==
  /\ ~reader.done
  /\ \E found \in Newest({i \in LinesOf(reader.who) : i < reader.before}) :
       LET more == Len(found) > Limit
       IN reader' = [who |-> reader.who, there |-> reader.there,
                     shown |-> reader.shown \o (IF more THEN SubSeq(found, 1, Limit) ELSE found),
                     before |-> IF more THEN NextBefore(found) ELSE reader.before,
                     done |-> ~more]
  /\ UNCHANGED <<match, born>>

RecNext == Add \/ ReadPage \/ (\E who \in Names \cup {NoOne} : BeginReading(who))
           \/ \E i \in DOMAIN match : Commit(i) \/ FillSide(i)

RecSpec == RecInit /\ [][RecNext]_recvars

----------------------------------------------------------------------------
(* The tallies *)

Line(i, u, v, side) ==
  [id |-> i, npid |-> u, opponent |-> v, won |-> match[i].winner = side, seen |-> side \in match[i].seen]

\* The first player's outcome on both sides.
PlayedWrong == UNION {{Line(i, match[i].p1, match[i].p2, "p1"), Line(i, match[i].p2, match[i].p1, "p1")} : i \in born}

\* _players: every line once per player.
Played == UNION {{Line(i, match[i].p1, match[i].p2, "p1"), Line(i, match[i].p2, match[i].p1, "p2")} : i \in born}

\* _counted, within the time asked for
Counted == {x \in Played : x.seen /\ x.opponent # NoOne /\ match[x.id].recent}

TallyOf(lines) == [matches |-> Cardinality(lines), wins |-> Cardinality({x \in lines : x.won}),
                 losses |-> Cardinality({x \in lines : ~x.won})]

\* weekly_top_players: most matches first, then by name; frequent_opponents alike.
WeeklyTop(limit, excluded) ==
  LET of(u) == {x \in Counted : x.npid = u}
      order == Sorted({u \in Names \ excluded : of(u) # {}}, [u \in Names |-> Cardinality(of(u))])
  IN [k \in 1 .. Min({limit, Len(order)}) |-> [npid |-> order[k], tally |-> TallyOf(of(order[k]))]]

\* All of them: the page asks for the first _OPPONENT_LIMIT.
FrequentOpponents(u) ==
  {[opponent |-> v, tally |-> TallyOf({x \in Counted : x.npid = u /\ x.opponent = v})] :
     v \in {w \in Names : \E x \in Counted : x.npid = u /\ x.opponent = w}}

----------------------------------------------------------------------------
(* Properties *)

\* "Paged by id rather than by page number, so matches recorded meanwhile do not
\* shift the next page": who reads to the end has seen every line that was there when
\* they began, and none twice, although lines with lower ids may commit late.
PagesComplete ==
  /\ \A k \in 2 .. Len(reader.shown) : reader.shown[k] < reader.shown[k - 1]
  /\ reader.done => reader.there \subseteq ToSet(reader.shown)

\* The two tallies count alike: a player's week is the sum of their opponents, and
\* where both players' saves were seen, one's wins are the other's losses.
TalliesAgree ==
  born # {} =>
  LET top == WeeklyTop(Cardinality(Names), {})
      meetings(u, v) == {x \in FrequentOpponents(u) : x.opponent = v}
  IN /\ \A k \in DOMAIN top :
          LET against == FrequentOpponents(top[k].npid)
          IN /\ top[k].tally.wins = SumFunction([x \in against |-> x.tally.wins])
             /\ top[k].tally.losses = SumFunction([x \in against |-> x.tally.losses])
             /\ top[k].tally.matches = top[k].tally.wins + top[k].tally.losses
     /\ (\A i \in born : match[i].p2 # NoOne => match[i].seen = Sides) =>
          \A u, v \in Names : u # v =>
            {x.tally.wins : x \in meetings(u, v)} = {x.tally.losses : x \in meetings(v, u)}
=============================================================================
