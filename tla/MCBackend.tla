------------------------------ MODULE MCBackend ------------------------------
(***************************************************************************)
(* The components of the backend that meet only in the database and in     *)
(* RPCN, side by side: a behaviour exercises one of them and leaves the    *)
(* others as they start.  The reservations are at work in two of them:     *)
(* beside comments, without listings and with a clock that stands still,   *)
(* and with listings.                                                      *)
(***************************************************************************)
EXTENDS Chat, RpcnConnection, LiveRooms, HistoryStats, ReservationComments, SaveCapture,
        Lifespan, Accounts, MatchRecords, Rankings

CONSTANTS d1, d2, t1, t2, c1, c2, s1, q1, q2, v, w, r1, host, guest, h1, l1, l2, m1, m2

VARIABLE part   \* the component at work

Parts == {"chat", "rpcn", "rooms", "collector", "comments", "listings", "capture", "lifespan", "accounts",
          "records", "boards"}

BackendInit ==
  /\ ChatInit /\ RInit /\ LInit /\ CoInit /\ CInit /\ CaptureInit
  /\ LifeInit /\ AccInit /\ RecInit /\ RankInit
  /\ part \in Parts

Only(p) ==
  /\ part = p /\ UNCHANGED part
  /\ p # "chat" => UNCHANGED chatvars
  /\ p # "rpcn" => UNCHANGED rvars
  /\ p # "rooms" => UNCHANGED roomvars
  /\ p # "collector" => UNCHANGED cvars
  /\ p \notin {"comments", "listings"} => UNCHANGED vars
  /\ p # "comments" => UNCHANGED <<comments, post>>
  /\ p # "capture" => UNCHANGED capvars
  /\ p # "lifespan" => UNCHANGED lifevars
  /\ p # "accounts" => UNCHANGED avars
  /\ p # "records" => UNCHANGED recvars
  /\ p # "boards" => UNCHANGED rankvars

BackendNext ==
  \/ Only("chat") /\ ChatNext
  \/ Only("rpcn") /\ RNext
  \/ Only("rooms") /\ LNext
  \/ Only("collector") /\ CoNext
  \/ Only("comments") /\ CNext /\ UNCHANGED <<clock, sweep>>
  \/ Only("listings") /\ Next
  \/ Only("capture") /\ CaptureNext
  \/ Only("lifespan") /\ LifeNext
  \/ Only("accounts") /\ AccNext
  \/ Only("records") /\ RecNext
  \/ Only("boards") /\ RankNext

BackendSpec ==
  BackendInit /\ [][BackendNext]_<<chatvars, rvars, roomvars, cvars, allvars, capvars, lifevars, avars,
                                    recvars, rankvars, part>>

----------------------------------------------------------------------------

RankRoom(us) == [rank |-> TRUE, users |-> us]
PlayerRoom(us) == [rank |-> FALSE, users |-> us]
MCLists == {<<>>, 1 :> RankRoom({q1, q2}),
            1 :> PlayerRoom({q1}), 1 :> RankRoom({q1}) @@ 2 :> RankRoom({q2})}

\* A match, one player who waits, and matches of which one is listed with one player.
Seated(rank, members, us) == [rank |-> rank, members |-> members, users |-> us]
MCObservations ==
  {1 :> Seated(TRUE, 2, <<m1, m2>>),
   1 :> Seated(TRUE, 1, <<m1>>) @@ 3 :> Seated(FALSE, 2, <<m2, q2>>),
   2 :> Seated(TRUE, 2, <<m1, m2>>) @@ 1 :> Seated(TRUE, 2, <<q1>>)}

MCOffers == {[type |-> "any", ranked |-> TRUE, capacity |-> 1]}

RecordedLine(x, y, winner, side, recent) ==
  [p1 |-> x, p2 |-> y, winner |-> winner, seen |-> {side}, recent |-> recent]
MCLines == {RecordedLine(1, 2, "p1", "p1", TRUE), RecordedLine(2, 1, "p1", "p2", TRUE),
            RecordedLine(1, NoOne, "p2", "p1", TRUE), RecordedLine(1, 2, "p2", "p2", FALSE)}

\* Saves at the start and now of players who rose by games, without a game, in the
\* pair, enough, not enough, from nothing, or not at all.
Char(rank, games) == [rank |-> rank, games |-> games]
Moved(account, before, after) ==
  [account |-> account, before |-> before, now |-> after, recent |-> before # after]
Warriors == <<Char(20, 5), Char(24, 2), Char(15, 1), Char(0, 0)>>
Kings == <<Char(25, 9), Char(10, 0), Char(12, 0), Char(0, 0)>>
Novices == <<Char(13, 2), Char(0, 0), Char(0, 0), Char(0, 0)>>
Nothings == [c \in 1 .. 4 |-> Char(0, 0)]
MCSaves ==
  {Moved(24, Warriors, Warriors),
   Moved(24, Warriors, [Warriors EXCEPT ![1] = Char(26, 7)]),
   Moved(24, Warriors, [Warriors EXCEPT ![2] = Char(27, 2), ![3] = Char(18, 3)]),
   Moved(28, Kings, [Kings EXCEPT ![1] = Char(27, 10)]),
   Moved(13, Novices, [Novices EXCEPT ![1] = Char(15, 4)]),
   Moved(0, Nothings, [Nothings EXCEPT ![4] = Char(13, 3)])}
=============================================================================
