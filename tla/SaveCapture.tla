---------------------------- MODULE SaveCapture ----------------------------
(***************************************************************************)
(* Finding finished matches by comparing a player's saves                  *)
(* (records/service.py capture, records/domain.py compare,                 *)
(* records/workers.py SaveCapture, records/adapters/postgresql.py).        *)
(*                                                                         *)
(* A save carries the player's cumulative wins and losses.  The save       *)
(* server hands out a data id when an upload begins and shows the save     *)
(* when it is committed, so ids come into sight out of order.  A capture   *)
(* asks for the saves past the newest id it has compared, less an overlap, *)
(* and compares each with the last one kept of that player, in a           *)
(* transaction of its own; a difference of one match becomes an event.     *)
(***************************************************************************)
EXTENDS Integers, Sequences, FiniteSets

CONSTANTS
  Savers,        \* RPCN usernames
  Captures,      \* capture loops
  NoCapture,
  CAPTURE_OVERLAP, CAPTURE_LIMIT,
  MaxId,         \* bound on uploads
  MaxPlayed,     \* bound on a player's wins, and on the losses
  MaxFailures    \* bound on captures and comparisons that fail

ASSUME CaptureAssumption ==
  /\ CAPTURE_OVERLAP \in Nat /\ CAPTURE_LIMIT \in Nat
  /\ CAPTURE_OVERLAP < CAPTURE_LIMIT
  /\ MaxId \in Nat /\ MaxPlayed \in Nat /\ MaxFailures \in Nat
  /\ NoCapture \notin Captures
  /\ Savers # {}

VARIABLES
  tally,    \* per player, the wins and losses their game knows
  lastId,   \* newest data id handed out
  upload,   \* per player, the save being written
  saves,    \* per player, the save the server shows
  kept,     \* per player, the save_states row
  rowLock,  \* per player, the capture with the lock of that row
  events,   \* match_events: [npid, id, won]
  capture,  \* per capture loop, where it is
  failures, \* how many so far
  base      \* history: per player, the tally of the first save kept

server == <<tally, lastId, upload, saves>>
capvars == <<server, kept, rowLock, events, capture, failures, base>>

Record == [wins : Nat, losses : Nat]
NoSave == [id |-> 0, wins |-> 0, losses |-> 0]
Save == [id : Nat, wins : Nat, losses : Nat]
NoState == [id |-> 0, wins |-> 0, losses |-> 0, merged |-> 0]
State == [id : Nat, wins : Nat, losses : Nat, merged : Nat]

NotCapturing == [pc |-> "idle"]
Capture == [pc : {"ask", "next", "compare"}, after : Nat,
            batch : Seq([npid : Savers, id : Nat, wins : Nat, losses : Nat]),
            before : State]

CaptureInit ==
  /\ tally = [u \in Savers |-> [wins |-> 0, losses |-> 0]]
  /\ lastId = 0
  /\ upload = [u \in Savers |-> NoSave]
  /\ saves = [u \in Savers |-> NoSave]
  /\ kept = [u \in Savers |-> NoState]
  /\ rowLock = [u \in Savers |-> NoCapture]
  /\ events = {}
  /\ capture = [c \in Captures |-> NotCapturing]
  /\ failures = 0
  /\ base = [u \in Savers |-> [wins |-> 0, losses |-> 0]]

rest == <<kept, rowLock, events, capture, failures, base>>

----------------------------------------------------------------------------
(* Players, their games and the save server *)

\* A match ends.
Play(u) ==
  /\ \/ tally[u].wins < MaxPlayed /\ tally' = [tally EXCEPT ![u].wins = @ + 1]
     \/ tally[u].losses < MaxPlayed /\ tally' = [tally EXCEPT ![u].losses = @ + 1]
  /\ UNCHANGED <<lastId, upload, saves, rest>>

\* The game uploads its save; a player has one upload under way at a time.
BeginUpload(u) ==
  /\ lastId < MaxId
  /\ upload[u] = NoSave
  /\ lastId' = lastId + 1
  /\ upload' = [upload EXCEPT ![u] = [id |-> lastId + 1, wins |-> tally[u].wins,
                                      losses |-> tally[u].losses]]
  /\ UNCHANGED <<tally, saves, rest>>

CommitUpload(u) ==
  /\ upload[u] # NoSave
  /\ saves' = [saves EXCEPT ![u] = upload[u]]
  /\ upload' = [upload EXCEPT ![u] = NoSave]
  /\ UNCHANGED <<tally, lastId, rest>>

\* An administrator restores a backup: the save goes back and keeps its id.
Restore(u) ==
  /\ saves[u] # NoSave /\ upload[u] = NoSave
  /\ \E w \in 0 .. saves[u].wins, n \in 0 .. saves[u].losses :
       /\ saves' = [saves EXCEPT ![u].wins = w, ![u].losses = n]
       /\ tally' = [tally EXCEPT ![u] = [wins |-> w, losses |-> n]]
  /\ UNCHANGED <<lastId, upload, rest>>

----------------------------------------------------------------------------
(* A capture *)

\* latest_data_id over all players.
Latest == LET ids == {kept[u].id : u \in Savers} IN
          CHOOSE i \in ids : \A j \in ids : j <= i

\* Without the overlap.
ReadLatestWrong(c) ==
  /\ capture[c].pc = "idle"
  /\ capture' = [capture EXCEPT ![c] =
       [pc |-> "ask", after |-> Latest, batch |-> <<>>, before |-> NoState]]
  /\ UNCHANGED <<server, kept, rowLock, events, failures, base>>

ReadLatest(c) ==
  /\ capture[c].pc = "idle"
  /\ capture' = [capture EXCEPT ![c] =
       [pc |-> "ask",
        after |-> IF Latest > CAPTURE_OVERLAP THEN Latest - CAPTURE_OVERLAP ELSE 0,
        batch |-> <<>>, before |-> NoState]]
  /\ UNCHANGED <<server, kept, rowLock, events, failures, base>>

\* read_changed: the first CAPTURE_LIMIT saves past that id, by id.
ReadChanged(c) ==
  LET changed == {u \in Savers : saves[u].id > capture[c].after}
      place(u) == Cardinality({v \in changed : saves[v].id <= saves[u].id})
      many == IF Cardinality(changed) < CAPTURE_LIMIT THEN Cardinality(changed) ELSE CAPTURE_LIMIT
      at(k) == CHOOSE u \in changed : place(u) = k IN
  /\ capture[c].pc = "ask"
  /\ capture' = [capture EXCEPT ![c] = [pc |-> "next", after |-> @.after, before |-> NoState, batch |->
       [k \in 1 .. many |-> [npid |-> at(k), id |-> saves[at(k)].id,
                             wins |-> saves[at(k)].wins, losses |-> saves[at(k)].losses]]]]
  /\ UNCHANGED <<server, kept, rowLock, events, failures, base>>

\* lock_state: SELECT ... FOR UPDATE of the player's row, if there is one.
LockState(c) ==
  LET u == Head(capture[c].batch).npid IN
  /\ capture[c].pc = "next" /\ capture[c].batch # <<>>
  /\ rowLock[u] = NoCapture
  /\ rowLock' = IF kept[u] = NoState THEN rowLock ELSE [rowLock EXCEPT ![u] = c]
  /\ capture' = [capture EXCEPT ![c] = [pc |-> "compare", after |-> @.after, batch |-> @.batch, before |-> kept[u]]]
  /\ UNCHANGED <<server, kept, events, failures, base>>

\* What compare makes of the change: one match, or several that cannot be told
\* apart.
Won(before, s) == s.wins = before.wins + 1 /\ s.losses = before.losses
Lost(before, s) == s.wins = before.wins /\ s.losses = before.losses + 1
Same(before, s) == s.wins = before.wins /\ s.losses = before.losses
SeveralPlayed(before, s) == ~Same(before, s) /\ ~Won(before, s) /\ ~Lost(before, s)

Released(c) == [u \in Savers |-> IF rowLock[u] = c THEN NoCapture ELSE rowLock[u]]

\* On to the next answer.
NextSave(c) ==
  /\ capture' = [capture EXCEPT ![c] = [pc |-> "next", after |-> @.after, batch |-> Tail(@.batch), before |-> NoState]]
  /\ rowLock' = Released(c)

\* save_state
KeepState(s, before, merged) ==
  kept' = [kept EXCEPT ![s.npid] =
    [id |-> s.id, wins |-> s.wins, losses |-> s.losses,
     merged |-> kept[s.npid].merged + IF merged THEN 1 ELSE 0]]

\* The first save of a player is only kept.  The upsert waits for whoever has
\* the row.
Baseline(c) ==
  LET s == Head(capture[c].batch) IN
  /\ capture[c].pc = "compare" /\ capture[c].before = NoState
  /\ rowLock[s.npid] = NoCapture
  /\ KeepState(s, NoState, FALSE)
  /\ base' = IF kept[s.npid] = NoState
             THEN [base EXCEPT ![s.npid] = [wins |-> s.wins, losses |-> s.losses]] ELSE base
  /\ NextSave(c)
  /\ UNCHANGED <<server, events, failures>>

\* Nothing newer than what was compared.
Skip(c) ==
  /\ capture[c].pc = "compare" /\ capture[c].before # NoState
  /\ Head(capture[c].batch).id <= capture[c].before.id
  /\ NextSave(c)
  /\ UNCHANGED <<server, kept, events, failures, base>>

\* uq_match_events_save: add_event does nothing for a save that has its event.
Queued(s) == \E e \in events : e.npid = s.npid /\ e.id = s.id

\* The event is queued in another transaction, after the state: it may be lost.
CompareWrong(c) ==
  LET s == Head(capture[c].batch)
      before == capture[c].before IN
  /\ capture[c].pc = "compare" /\ before # NoState
  /\ s.id > before.id
  /\ KeepState(s, before, SeveralPlayed(before, s))
  /\ \/ UNCHANGED events
     \/ events' = events \cup
          {e \in {[npid |-> s.npid, id |-> s.id, won |-> Won(before, s)]} :
             (Won(before, s) \/ Lost(before, s)) /\ ~Queued(s)}
  /\ NextSave(c)
  /\ UNCHANGED <<server, failures, base>>

\* The state and the event of a newer save, in one transaction.
Compare(c) ==
  LET s == Head(capture[c].batch)
      before == capture[c].before IN
  /\ capture[c].pc = "compare" /\ before # NoState
  /\ s.id > before.id
  /\ KeepState(s, before, SeveralPlayed(before, s))
  /\ events' = events \cup
       {e \in {[npid |-> s.npid, id |-> s.id, won |-> Won(before, s)]} :
          (Won(before, s) \/ Lost(before, s)) /\ ~Queued(s)}
  /\ NextSave(c)
  /\ UNCHANGED <<server, failures, base>>

\* A comparison raises: its transaction is rolled back and the next save has
\* its turn.
FailCompare(c) ==
  /\ failures < MaxFailures
  /\ capture[c].pc = "compare"
  /\ failures' = failures + 1
  /\ NextSave(c)
  /\ UNCHANGED <<server, kept, events, base>>

\* The server does not answer, or the process dies: what was committed stays.
FailCapture(c) ==
  /\ failures < MaxFailures
  /\ capture[c].pc # "idle"
  /\ failures' = failures + 1
  /\ capture' = [capture EXCEPT ![c] = NotCapturing]
  /\ rowLock' = Released(c)
  /\ UNCHANGED <<server, kept, events, base>>

EndCapture(c) ==
  /\ capture[c].pc = "next" /\ capture[c].batch = <<>>
  /\ capture' = [capture EXCEPT ![c] = NotCapturing]
  /\ UNCHANGED <<server, kept, rowLock, events, failures, base>>

----------------------------------------------------------------------------

CaptureStep(c) ==
  \/ ReadLatest(c) \/ ReadChanged(c) \/ LockState(c)
  \/ Baseline(c) \/ Skip(c) \/ Compare(c) \/ EndCapture(c)

CaptureNext ==
  \/ \E u \in Savers : Play(u) \/ BeginUpload(u) \/ CommitUpload(u) \/ Restore(u)
  \/ \E c \in Captures : CaptureStep(c) \/ FailCompare(c) \/ FailCapture(c)

\* SaveCapture.run goes on for ever, and the save server commits what it began.
\* Nothing makes players play or save, or a capture fail.
CaptureFairness ==
  /\ \A u \in Savers : WF_capvars(CommitUpload(u))
  /\ \A c \in Captures : WF_capvars(CaptureStep(c))

CaptureSpec == CaptureInit /\ [][CaptureNext]_capvars /\ CaptureFairness

----------------------------------------------------------------------------
(* Properties *)

CaptureTypeOK ==
  /\ \A u \in Savers :
       /\ tally[u] \in Record /\ base[u] \in Record
       /\ upload[u] \in Save /\ saves[u] \in Save
       /\ kept[u] \in State
       /\ rowLock[u] \in Captures \cup {NoCapture}
  /\ lastId \in 0 .. MaxId /\ failures \in 0 .. MaxFailures
  /\ \A e \in events : e \in [npid : Savers, id : 1 .. MaxId, won : BOOLEAN]
  /\ \A c \in Captures : capture[c] = NotCapturing \/ capture[c] \in Capture

\* "Comparing a save and queueing its match commit together": as long as no
\* change was too large to split, the first tally kept of a player and the
\* events since then add up to the tally kept now.  No match is lost and none
\* counted twice, whatever saves were missed, came late, were restored, or
\* failed to compare.
TallyExplained ==
  \A u \in Savers : kept[u].merged = 0 =>
    /\ kept[u].wins = base[u].wins + Cardinality({e \in events : e.npid = u /\ e.won})
    /\ kept[u].losses = base[u].losses + Cardinality({e \in events : e.npid = u /\ ~e.won})

\* "A lower id can appear after a higher one": once nobody uploads any more, every
\* save the server shows is compared, unless the newest id compared is
\* CAPTURE_OVERLAP or more ahead of it; and this although a capture reads no
\* more than CAPTURE_LIMIT saves.
EverySaveCompared ==
  <>[](\A u \in Savers : kept[u].id >= saves[u].id \/ Latest >= saves[u].id + CAPTURE_OVERLAP)
=============================================================================
