------------------------------ MODULE Rankings ------------------------------
(***************************************************************************)
(* The two boards of saves: the rank event (event/domain.py,               *)
(* event/service.py), judged by the save a player began with and the save  *)
(* now, and the current ranks with who plays at one (saves/domain.py,      *)
(* saves/service.py).  Pure functions of the saves that one read brings;   *)
(* points and the subs of _PUGILIST_START are left out.                    *)
(***************************************************************************)
EXTENDS Integers, Sequences, SequencesExt, FiniteSetsExt, Sorting

CONSTANTS
  Entrants,   \* usernames, as numbers in their order
  Saves       \* [account, before, now, recent]: before and now per character, [rank, games];
              \* recent, saved within the days that a visitor asks for

Characters == 1 .. 4
CharSave == [rank : Nat, games : Nat]

ASSUME RanksAssumption ==
  /\ Entrants \subseteq Nat
  /\ Saves \subseteq [account : Nat, before : [Characters -> CharSave], now : [Characters -> CharSave],
                     recent : BOOLEAN]

VARIABLES
  entered,    \* players read so far -> their save at the start and now
  excluded    \* ranking_excluded_npids

rankvars == <<entered, excluded>>

Disciple == 13
Brawler == 17
Warrior == 21
Vanquisher == 25
FirstDan == 10
SecondDan == 11
ThirdDan == 12
Master == 15
Berserker == 20

\* Characters 1 and 2 stand for a pair that counts as one (_SAME_CHARACTER).
Other(c) == CASE c = 1 -> 2 [] c = 2 -> 1 [] OTHER -> c

RankInit == entered = <<>> /\ excluded = {}

\* Another read, of other saves, or other exclusions.
RankNext ==
  \/ /\ \E u \in Entrants, s \in Saves :
          entered' = [v \in DOMAIN entered \cup {u} |-> IF v = u THEN s ELSE entered[v]]
     /\ UNCHANGED excluded
  \/ \E u \in Entrants : excluded' = (excluded \ {u}) \cup ({u} \ excluded) /\ UNCHANGED entered

RankSpec == RankInit /\ [][RankNext]_rankvars

----------------------------------------------------------------------------
(* Places, as both boards give them *)

\* Dense: 1, 2, 2, 3.
GroupPlaceWrong(order, key, k) == Cardinality({key[order[i]] : i \in 1 .. k})

\* groupby: equals stand together and share the place of the first of them (1, 2, 2, 4).
GroupPlace(order, key, k) ==
  CHOOSE first \in 1 .. k : /\ \A i \in first .. k : key[order[i]] = key[order[k]]
                            /\ first > 1 => key[order[first - 1]] # key[order[k]]

\* Best first, then by name.
Places(us, key) ==
  LET order == Sorted(us, key)
  IN [k \in DOMAIN order |-> [npid |-> order[k], place |-> GroupPlace(order, key, k)]]

----------------------------------------------------------------------------
(* The event *)

TopRank(s) == Max({s.before[c].rank : c \in Characters})
BestRank(s) == Max({s.account, TopRank(s)})
MainSteps(s) == (IF TopRank(s) >= Vanquisher THEN 1 ELSE 2) + (IF BestRank(s) # TopRank(s) THEN 1 ELSE 0)
SubSteps == 3

SubFloor(s) ==
  LET best == BestRank(s)
  IN CASE best >= Vanquisher -> Berserker
       [] best >= Warrior /\ best < Vanquisher -> Master
       [] best >= Brawler /\ best < Warrior -> ThirdDan
       [] best >= Disciple /\ best < Brawler -> SecondDan
       [] OTHER -> FirstDan

\* _slot and Slot
Start(s, c) ==
  LET rank == Max({s.before[c].rank, s.before[Other(c)].rank})
  IN IF rank = TopRank(s) THEN rank ELSE Max({rank, SubFloor(s)})
Steps(s, c) ==
  IF Max({s.before[c].rank, s.before[Other(c)].rank}) = TopRank(s) THEN MainSteps(s) ELSE SubSteps
HasPlayed(s, c) == s.now[c].games # s.before[c].games
Gain(s, c) == s.now[c].rank - Start(s, c)
Reached(s) == {c \in Characters : HasPlayed(s, c) /\ s.now[c].rank >= Start(s, c) + Steps(s, c)}
Best(s) == Max({Gain(s, c) : c \in Reached(s)})

\* EventService._refresh: judged, the excluded left out, and placed.
Achievers(save) ==
  LET who == {u \in DOMAIN save \ excluded : Reached(save[u]) # {}}
  IN Places(who, [u \in who |-> Best(save[u])])

----------------------------------------------------------------------------
(* Current ranks *)

\* Characters with a rank or a record; the others are not in the save's list.
Ranked(s) == {c \in Characters : s.now[c].rank > 0 \/ s.now[c].games > 0}

\* top_two, the lower id first on a tie, and _standing: the first's rank before the
\* second's; nobody's second is below any rank.
ByRank(s) == Sorted(Ranked(s), [c \in Characters |-> s.now[c].rank])
RankOf(s, k) == IF k \in DOMAIN ByRank(s) THEN s.now[ByRank(s)[k]].rank ELSE -1
Standing(u) == 100 * RankOf(entered[u], 1) + RankOf(entered[u], 2)

\* current_rank_board
CurrentBoard(us) == Places({u \in us : Ranked(entered[u]) # {}}, [u \in us |-> Standing(u)])

\* _without_excluded, of the boards that RPCN places: everyone else moves up by the
\* number of those taken out above them.
WithoutExcluded(board, out) ==
  LET above(e) == Cardinality({d \in ToSet(board) : d.npid \in out /\ d.place < e.place})
      left == {k \in DOMAIN board : board[k].npid \notin out}
      order == Sorted(left, [k \in left |-> 0])
  IN [i \in DOMAIN order |-> [board[order[i]] EXCEPT !.place = @ - above(board[order[i]])]]

\* saved_within, of the players that are not excluded.
SavedWithin == {u \in DOMAIN entered \ excluded : entered[u].recent}

\* get_current_rank_leaderboard places after it filters.
Leaderboard == CurrentBoard(SavedWithin)

\* holders_by_rank: who has played a character at the rank, with their place on the
\* board of everyone.
HolderRanks == 10 .. 42
HeldAt(u, rank) == {c \in Ranked(entered[u]) : entered[u].now[c].rank = rank /\ entered[u].now[c].games > 0}
HoldersByRank ==
  LET everyone == ToSet(CurrentBoard(DOMAIN entered))
      place(u) == (CHOOSE e \in everyone : e.npid = u).place
  IN [rank \in HolderRanks |-> [u \in {v \in DOMAIN entered : HeldAt(v, rank) # {}} |-> place(u)]]

\* get_current_rank_holders filters too, and puts the lowest place first.
Holders(rank) == Sorted(DOMAIN HoldersByRank[rank] \cap SavedWithin, HoldersByRank[rank])

----------------------------------------------------------------------------
(* Properties *)

\* A board is right by its definition: everyone who belongs on it once, and a place
\* is one more than the number of those who stand better.
RightBoard(board, us, key) ==
  /\ {e.npid : e \in ToSet(board)} = us /\ Len(board) = Cardinality(us)
  /\ \A e \in ToSet(board) : e.place = 1 + Cardinality({v \in us : key[v] > key[e.npid]})

\* The climbs that no game earned, undone ("only a game earns a rank").
Earned(s) == [s EXCEPT !.now = [c \in Characters |-> IF HasPlayed(s, c) THEN s.now[c] ELSE s.before[c]]]

\* Both boards give equals one place and leave it out behind them (1, 2, 2, 4); a
\* rise without a game changes nobody's place in the event; a pair that counts as one
\* character starts alike and asks for the same steps; taking players
\* out of a board that is placed already gives the board placed without them; and the
\* holders of a rank, whose places are of everyone, are listed in the opposite order
\* of the leaderboard that a visitor sees, which has places of its own.
BoardsRight ==
  DOMAIN entered # {} =>
  LET achieved == {u \in DOMAIN entered \ excluded : Reached(entered[u]) # {}}
      ranks == {entered[u].now[c].rank : u \in DOMAIN entered, c \in Characters}
      listed == ToSet(Leaderboard)
  IN /\ RightBoard(Achievers(entered), achieved, [u \in achieved |-> Best(entered[u])])
     /\ Achievers([u \in DOMAIN entered |-> Earned(entered[u])]) = Achievers(entered)
     /\ \A u \in DOMAIN entered, c \in Characters :
          LET s == entered[u]
          IN Start(s, c) = Start(s, Other(c)) /\ Steps(s, c) = Steps(s, Other(c))
     /\ WithoutExcluded(CurrentBoard(DOMAIN entered), excluded) = CurrentBoard(DOMAIN entered \ excluded)
     /\ RightBoard(Leaderboard, {u \in SavedWithin : Ranked(entered[u]) # {}}, [u \in SavedWithin |-> Standing(u)])
     /\ \A rank \in HolderRanks \cap ranks :
          LET holders == Holders(rank)
          IN \A i, j \in DOMAIN holders : i < j => \A x, y \in listed :
               x.npid = holders[i] /\ y.npid = holders[j] => x.place >= y.place
=============================================================================
