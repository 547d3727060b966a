---------------------------- MODULE Idempotency ----------------------------
(***************************************************************************)
(* Writes that run at most once per idempotency key                        *)
(* (idempotency/service.py run_once, idempotency/adapters/postgresql.py),  *)
(* inside the transaction of the use case that calls it                    *)
(* (ReservationService.create_reservation, CommunityService.create_post    *)
(* and create_comment).                                                    *)
(*                                                                         *)
(* Each handler runs one HTTP request.  PostgreSQL gives three things: an  *)
(* uncommitted row is visible to nobody else, an INSERT that meets another *)
(* transaction's uncommitted index entry waits for it, and a transaction   *)
(* that does not commit leaves nothing (but sequence numbers stay spent).  *)
(***************************************************************************)
EXTENDS Naturals, FiniteSets

CONSTANTS Handlers,     \* concurrent requests
          Keys,         \* (subject, key) pairs of idempotency_keys
          Requests,     \* request fingerprints
          RefusedAt,    \* the instants at which the use case's own checks refuse a request
          MaxTime,      \* bound on the clock
          MaxAttempts,  \* bound on the requests that are sent
          NoHandler,    \* no transaction holds the key
          Null          \* SQL NULL in idempotency_keys.response

ASSUME IdempotencyAssumption ==
  /\ RefusedAt \in [Requests -> SUBSET Nat]
  /\ MaxTime \in Nat
  /\ MaxAttempts \in Nat
  /\ NoHandler \notin Handlers
  /\ Null \notin Nat

VARIABLES
  clock,     \* the service's clock
  attempts,  \* requests sent so far
  seq,       \* the identity sequence of the table the use case writes
  txn,       \* per handler, its request and how far it got
  holder,    \* per key, the transaction whose index entry is uncommitted
  keyRow,    \* per key, the committed idempotency_keys rows
  rows,      \* the committed rows the writes created
  replies    \* what callers were told, a history variable

vars == <<clock, attempts, seq, txn, holder, keyRow, rows, replies>>

----------------------------------------------------------------------------
(* State *)

Answers == Nat
PCs == {"claim", "conflict", "claimed", "written", "completed", "committed"}

NoTxn == [pc |-> "idle"]
Txn == [pc : PCs, key : Keys, request : Requests, answer : Answers \cup {Null}]

IdempotencyKeyRow == [request : Requests, response : Answers \cup {Null}]
CreatedRow == [id : Answers, key : Keys, request : Requests]
Reply == [key : Keys, request : Requests, kind : {"ok", "reused", "refused"},
          answer : Answers \cup {Null}]

Init ==
  /\ clock = 0
  /\ attempts = 0
  /\ seq = 1
  /\ txn = [h \in Handlers |-> NoTxn]
  /\ holder = [k \in Keys |-> NoHandler]
  /\ keyRow = [k \in Keys |-> {}]
  /\ rows = {}
  /\ replies = {}

At(h, label) == txn[h].pc = label
GoTo(h, label) == txn' = [txn EXCEPT ![h].pc = label]
Leave(h) == txn' = [txn EXCEPT ![h] = NoTxn]

Tell(k, q, kind, a) ==
  replies' = replies \cup {[key |-> k, request |-> q, kind |-> kind, answer |-> a]}

\* Index entries of transactions that are over block nobody any more.
Freed(done) == [k \in Keys |-> IF holder[k] \in done THEN NoHandler ELSE holder[k]]

----------------------------------------------------------------------------
(* Mistakes the code does not make, each a variant of the action it names   *)

\* A SELECT in place of the unique index: an uncommitted duplicate is not seen.
ClaimInsertUnindexed(h) ==
  LET k == txn[h].key IN
  /\ At(h, "claim")
  /\ keyRow[k] = {}
  /\ holder' = [holder EXCEPT ![k] = h]
  /\ GoTo(h, "claimed")
  /\ UNCHANGED <<clock, attempts, seq, keyRow, rows, replies>>

\* Replaying whatever is stored, without comparing fingerprints.
ReadStoredUnchecked(h) ==
  LET t == txn[h] IN
  /\ At(h, "conflict")
  /\ \E stored \in keyRow[t.key] :
       /\ Tell(t.key, t.request, "ok", stored.response)
       /\ Leave(h)
  /\ UNCHANGED <<clock, attempts, seq, holder, keyRow, rows>>

\* Committing without complete(): the key's response stays NULL.
CommitIncomplete(h) ==
  LET t == txn[h] IN
  /\ At(h, "completed")
  /\ keyRow' = [keyRow EXCEPT ![t.key] = {[request |-> t.request, response |-> Null]}]
  /\ rows' = rows \cup {[id |-> t.answer, key |-> t.key, request |-> t.request]}
  /\ holder' = Freed({h})
  /\ GoTo(h, "committed")
  /\ UNCHANGED <<clock, attempts, seq, replies>>

\* The key in a transaction of its own: a failed write leaves it behind.
AbortKeepsKey(h) ==
  /\ txn[h].pc \in {"claimed", "written", "completed"}
  /\ keyRow' = [keyRow EXCEPT ![txn[h].key] = {[request |-> txn[h].request, response |-> Null]}]
  /\ holder' = Freed({h})
  /\ Leave(h)
  /\ UNCHANGED <<clock, attempts, seq, rows, replies>>

\* A transaction that is never closed after its write raised.
AbortLeaksKey(h) ==
  /\ txn[h].pc \in {"claim", "conflict", "claimed", "written", "completed"}
  /\ Leave(h)
  /\ UNCHANGED <<clock, attempts, seq, holder, keyRow, rows, replies>>

----------------------------------------------------------------------------
(* The use case around run_once *)

\* A request comes in.  Before its transaction opens, the use case applies its
\* own checks, whether or not the key was spent already: create_reservation
\* refuses a time of day that is too close, or that has passed and, moved to the
\* next day, is not bookable yet.  (The other two use cases refuse at no instant.)
Begin(h, k, q) ==
  /\ At(h, "idle")
  /\ attempts < MaxAttempts
  /\ attempts' = attempts + 1
  /\ IF clock \notin RefusedAt[q]
     THEN /\ txn' = [txn EXCEPT ![h] = [pc |-> "claim", key |-> k, request |-> q,
                                        answer |-> Null]]
          /\ UNCHANGED replies
     ELSE /\ Tell(k, q, "refused", Null)
          /\ UNCHANGED txn
  /\ UNCHANGED <<clock, seq, holder, keyRow, rows>>

\* INSERT ... ON CONFLICT DO NOTHING RETURNING id.  While another transaction's
\* entry for the key is uncommitted neither outcome is possible: the call waits.
ClaimInsert(h) ==
  LET k == txn[h].key IN
  /\ At(h, "claim")
  /\ holder[k] = NoHandler
  /\ keyRow[k] = {}
  /\ holder' = [holder EXCEPT ![k] = h]
  /\ GoTo(h, "claimed")
  /\ UNCHANGED <<clock, attempts, seq, keyRow, rows, replies>>

ClaimConflict(h) ==
  LET k == txn[h].key IN
  /\ At(h, "claim")
  /\ holder[k] = NoHandler
  /\ keyRow[k] # {}
  /\ GoTo(h, "conflict")
  /\ UNCHANGED <<clock, attempts, seq, holder, keyRow, rows, replies>>

\* The row the conflict was with, in a statement of its own.  A stored response
\* that is NULL makes run_once write, as if the key had been claimed.
ReadStored(h) ==
  LET t == txn[h] IN
  /\ At(h, "conflict")
  /\ \E stored \in keyRow[t.key] :
       \/ /\ stored.request # t.request
          /\ Tell(t.key, t.request, "reused", Null)
          /\ Leave(h)
       \/ /\ stored.request = t.request
          /\ stored.response # Null
          /\ Tell(t.key, t.request, "ok", stored.response)
          /\ Leave(h)
       \/ /\ stored.request = t.request
          /\ stored.response = Null
          /\ GoTo(h, "claimed")
          /\ UNCHANGED replies
  /\ UNCHANGED <<clock, attempts, seq, holder, keyRow, rows>>

\* The write itself: its row takes the next identity value.
Write(h) ==
  /\ At(h, "claimed")
  /\ seq' = seq + 1
  /\ txn' = [txn EXCEPT ![h].pc = "written", ![h].answer = seq]
  /\ UNCHANGED <<clock, attempts, holder, keyRow, rows, replies>>

\* complete(): the answer goes into the key's row, in the same transaction.
Complete(h) ==
  /\ At(h, "written")
  /\ GoTo(h, "completed")
  /\ UNCHANGED <<clock, attempts, seq, holder, keyRow, rows, replies>>

\* session.begin() commits on leaving the block: the key, the created row and
\* the stored answer become visible together, and waiters wake up.
Commit(h) ==
  LET t == txn[h]
      stored == [request |-> t.request, response |-> t.answer] IN
  /\ At(h, "completed")
  /\ keyRow' = [keyRow EXCEPT ![t.key] =
       IF holder[t.key] = h
       THEN @ \cup {stored}
       ELSE {[r EXCEPT !.response = t.answer] : r \in @}]
  /\ rows' = rows \cup {[id |-> t.answer, key |-> t.key, request |-> t.request]}
  /\ holder' = Freed({h})
  /\ GoTo(h, "committed")
  /\ UNCHANGED <<clock, attempts, seq, replies>>

\* The response leaves after the commit, so a crash here loses it.
Respond(h) ==
  /\ At(h, "committed")
  /\ Tell(txn[h].key, txn[h].request, "ok", txn[h].answer)
  /\ Leave(h)
  /\ UNCHANGED <<clock, attempts, seq, holder, keyRow, rows>>

\* The write raises (a missing post, a lost connection): everything rolls back.
Abort(h) ==
  /\ txn[h].pc \in {"claim", "conflict", "claimed", "written", "completed"}
  /\ holder' = Freed({h})
  /\ Leave(h)
  /\ UNCHANGED <<clock, attempts, seq, keyRow, rows, replies>>

\* The process dies: every open transaction rolls back, what committed stays.
Crash ==
  /\ \E h \in Handlers : ~At(h, "idle")
  /\ txn' = [h \in Handlers |-> NoTxn]
  /\ holder' = Freed(Handlers)
  /\ UNCHANGED <<clock, attempts, seq, keyRow, rows, replies>>

Tick ==
  /\ clock < MaxTime
  /\ clock' = clock + 1
  /\ UNCHANGED <<attempts, seq, txn, holder, keyRow, rows, replies>>

\* Every request the bounds allow was sent and answered.
Quiescent ==
  /\ \A h \in Handlers : At(h, "idle")
  /\ attempts = MaxAttempts
  /\ clock = MaxTime
  /\ UNCHANGED vars

Step(h) ==
  \/ ClaimInsert(h)
  \/ ClaimConflict(h)
  \/ ReadStored(h)
  \/ Write(h)
  \/ Complete(h)
  \/ Commit(h)
  \/ Respond(h)

Next ==
  \/ \E h \in Handlers : Step(h) \/ Abort(h)
  \/ \E h \in Handlers, k \in Keys, q \in Requests : Begin(h, k, q)
  \/ Crash
  \/ Tick
  \/ Quiescent

\* A statement that can run does run: the event loop and the database serve
\* every handler.  Nothing makes a client retry, a write fail or a process die.
Fairness == \A h \in Handlers : WF_vars(Step(h))

Spec == Init /\ [][Next]_vars /\ Fairness

----------------------------------------------------------------------------
(* Properties *)

TypeOK ==
  /\ clock \in Nat
  /\ attempts \in Nat
  /\ seq \in Nat
  /\ txn \in [Handlers -> Txn \cup {NoTxn}]
  /\ holder \in [Keys -> Handlers \cup {NoHandler}]
  /\ keyRow \in [Keys -> SUBSET IdempotencyKeyRow]
  /\ rows \subseteq CreatedRow
  /\ replies \subseteq Reply

\* However requests with one key overlap, retry, fail or crash, the write they
\* ask for has been committed at most once (run_once: "at most once per key").
AtMostOnce ==
  \A r1, r2 \in rows : r1.key = r2.key => r1 = r2

\* A committed key always carries the answer of the row its own request
\* created, and a created row never lacks its key: the three commit together
\* or not at all, and the NULL response is never seen outside its transaction.
KeyMatchesWrite ==
  /\ \A k \in Keys : \A s \in keyRow[k] :
       [id |-> s.response, key |-> k, request |-> s.request] \in rows
  /\ \A r \in rows : [request |-> r.request, response |-> r.id] \in keyRow[r.key]

\* Whoever was told that a write succeeded was told about the row that is in
\* the database under the key and request it sent: no answer of a rolled-back
\* attempt ever reached a caller, and no key answers for another request.
AnswersAreReal ==
  \A r \in replies : r.kind = "ok" =>
    [id |-> r.answer, key |-> r.key, request |-> r.request] \in rows

\* A duplicate that waits for the first request's index entry is released when
\* that one commits, fails or dies: every accepted request ends.
EveryRequestEnds ==
  \A h \in Handlers : ~At(h, "idle") ~> At(h, "idle")

\* The service docstring of create_reservation and docs/spec/06-cross-cutting
\* say that the same key with the same request is answered from the stored
\* response: a request whose key is committed is not refused.
RetryIsReplayed ==
  [][\A k \in Keys, q \in Requests :
       LET refusal == [key |-> k, request |-> q, kind |-> "refused", answer |-> Null] IN
       refusal \in replies' \ replies => \A s \in keyRow[k] : s.request # q]_vars

\* The transactions implement the promise of an idempotency key.
Promise == INSTANCE ExactlyOnce WITH
  decided <- [k \in Keys |-> {[request |-> s.request, answer |-> s.response] : s \in keyRow[k]}],
  answered <- {[key |-> r.key, request |-> r.request, answer |-> r.answer] :
                 r \in {r \in replies : r.kind = "ok"}}

KeepsPromise == Promise!Spec
=============================================================================
