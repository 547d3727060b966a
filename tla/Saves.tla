------------------------------- MODULE Saves -------------------------------
(***************************************************************************)
(* TTT2 saves on the RPCN host as this service sees them (saves/service.py,*)
(* saves/adapters/save_admin_server.py): profiles, the current-rank views  *)
(* and the rank event (event/service.py), read through the cache, and an   *)
(* admin's edits in two calls, a preview that answers the save's hash and  *)
(* the write that must name it.                                            *)
(***************************************************************************)
EXTENDS CachedRequests

CONSTANTS
  Players,     \* usernames, casefolded
  MaxSaves     \* bound on the times a save is written

ASSUME SavesAssumption == MaxSaves \in Nat

VARIABLES
  save,        \* the save server (external): per player, the save's version, 0 if none
  edited,      \* history: per player, the version of the last edit answered
  preview      \* per request, the version it previewed for a player

fvars == <<save, edited, preview>>

RANKS == "saves:current-rank-leaderboard"
HOLDERS == "saves:current-rank-holders"
BOARD == "event:board"
PLAYER == "event:player"     \* stands for every player's entry
NoPreview == [npid |-> Nothing, version |-> 0]

SavesInit ==
  /\ save = [u \in Players |-> 0]
  /\ edited = [u \in Players |-> 0]
  /\ preview = [q \in Requests |-> NoPreview]

\* The game writes the save when a session ends, and tells nobody.
PlaySession(u) ==
  /\ save[u] < MaxSaves
  /\ save' = [save EXCEPT ![u] = @ + 1]
  /\ UNCHANGED <<edited, preview, job, writes, store>>

\* get_player_save on a miss; "no save" is an entry too.
ReadSave(q, u) == Miss(q, u, save[u]) /\ UNCHANGED fvars

\* read_ranks: every save, for the views of keys, which are made of one answer.
AskRanks(q, keys) ==
  /\ job[q] = Waiting
  /\ To(q, [pc |-> "ranks", keys |-> keys, value |-> save])
  /\ UNCHANGED <<fvars, writes, store>>

ReadRanks(q) == (Missed(RANKS) \/ Missed(HOLDERS)) /\ AskRanks(q, {RANKS, HOLDERS})

\* EventService.board and player.  After the refresh a player's request reads its
\* entry back, and answers null if Redis lost it.
ReadEvent(q) == (Missed(BOARD) \/ Missed(PLAYER)) /\ AskRanks(q, {BOARD, PLAYER})

\* _fill_current_rank_cache and _refresh set their entries one after the other
\* without an await; each set may be lost.
FillRanks(q) ==
  /\ job[q].pc = "ranks"
  /\ \E lost \in IF Lossy THEN SUBSET job[q].keys ELSE {{}} :
       store' = [k \in Keys |->
         CASE k \in job[q].keys \ lost -> [value |-> job[q].value, left |-> TTL, excused |-> FALSE]
           [] k \in lost /\ Cached(k) -> [store[k] EXCEPT !.excused = TRUE]
           [] OTHER -> store[k]]
  /\ To(q, Waiting)
  /\ UNCHANGED <<fvars, writes>>

\* edit_save with dry_run: nothing is applied, nothing dropped.
Preview(q, u) ==
  /\ job[q] = Waiting /\ save[u] > 0
  /\ preview' = [preview EXCEPT ![q] = [npid |-> u, version |-> save[u]]]
  /\ UNCHANGED <<save, edited, job, writes, store>>

\* edit_save with expect_sha256.  The server refuses a save that is not the one
\* previewed (save_changed); an answer that was applied drops the profile.
Edit(q) ==
  LET u == preview[q].npid IN
  /\ job[q] = Waiting /\ u # Nothing
  /\ preview' = [preview EXCEPT ![q] = NoPreview]
  /\ IF save[u] # preview[q].version \/ save[u] = MaxSaves
     THEN UNCHANGED <<save, edited, job>>
     ELSE /\ save' = [save EXCEPT ![u] = @ + 1]
          /\ edited' = [edited EXCEPT ![u] = save[u] + 1]
          /\ Committed(q, {u}, {u})
  /\ UNCHANGED <<writes, store>>

\* The edit is written but its answer does not come (httpx.HTTPError): the admin is
\* told that the server cannot be reached, and the profile stays.
EditUnanswered(q) ==
  LET u == preview[q].npid IN
  /\ job[q] = Waiting /\ u # Nothing
  /\ save[u] = preview[q].version /\ save[u] < MaxSaves
  /\ save' = [save EXCEPT ![u] = @ + 1]
  /\ preview' = [preview EXCEPT ![q] = NoPreview]
  /\ UNCHANGED <<edited, job, writes, store>>

SavesNext ==
  \/ \E u \in Players : PlaySession(u)
  \/ \E q \in Requests : \/ ReadRanks(q) \/ FillRanks(q) \/ Edit(q) \/ EditUnanswered(q)
                         \/ \E u \in Players : ReadSave(q, u) \/ Preview(q, u)

\* EventService
EventNext ==
  \/ \E u \in Players : PlaySession(u)
  \/ \E q \in Requests : ReadEvent(q) \/ FillRanks(q)
=============================================================================
