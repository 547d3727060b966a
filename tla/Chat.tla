-------------------------------- MODULE Chat --------------------------------
(***************************************************************************)
(* The chat: posting and deleting (chat/service.py), the event bus         *)
(* (chat/adapters/memory_bus.py) and the streams that readers hold open    *)
(* (chat/router.py), with the messages in PostgreSQL.                      *)
(*                                                                         *)
(* One process, one event loop: code between two awaits is one step, and   *)
(* only a database call lets others run.  publish() awaits nothing, so it  *)
(* is one step with whatever follows the database call before it.  The     *)
(* client half of a stream (docs/spec/10-chat.md: replace the list by the  *)
(* snapshot, add messages by id, reconnect when the stream ends) is part   *)
(* of the model, because what it shows is what the chat is for.            *)
(***************************************************************************)
EXTENDS Naturals, Sequences, FiniteSets

CONSTANTS
  Posters,       \* accounts that post
  Writers,       \* concurrent post and delete requests
  Streams,       \* readers
  QueueSize,     \* QUEUE_SIZE of the bus
  MaxListed,     \* MAX_LISTED_MESSAGES
  Interval,      \* MIN_POST_INTERVAL
  MaxMessages,   \* bound on the messages ever posted
  MaxSeconds,    \* bound on the clock
  MaxRestarts,   \* bound on the restarts of the process
  Never          \* no post remembered

ASSUME ChatAssumption ==
  /\ QueueSize \in Nat \ {0} /\ MaxListed \in Nat \ {0} /\ Interval \in Nat
  /\ MaxMessages \in Nat /\ MaxSeconds \in Nat /\ MaxRestarts \in Nat
  /\ Never \notin Nat

VARIABLES
  chatClock, \* the service's clock
  restarts,  \* how often the process died
  log,       \* every message ever committed, by id
  table,     \* ids of the rows that are not deleted
  lastPost,  \* _last_post
  req,       \* per request, what it has done so far
  subs,      \* the bus's set of subscriptions
  queue,     \* per stream, its subscription's queue
  view       \* per stream, the client: state, from (oldest id of the snapshot), shown

chatvars == <<chatClock, restarts, log, table, lastPost, req, subs, queue, view>>

----------------------------------------------------------------------------
(* State *)

Ids == 1 .. MaxMessages
Message == [author : Posters, at : Nat]

Posted(i) == [type |-> "message", id |-> i]
Deleted(i) == [type |-> "delete", id |-> i]
CLOSED == [type |-> "closed", id |-> 0]
Event == [type : {"message", "delete", "closed"}, id : 0 .. MaxMessages]

NoRequest == [pc |-> "idle"]
PostRequest == [pc : {"append"}, user : Posters, now : Nat]
               \cup [pc : {"appended"}, user : Posters, now : Nat, id : Ids]
DeleteRequest == [pc : {"erase", "erased"}, id : Ids]

Offline == [state |-> "offline", from |-> 0, shown |-> {}]
View == [state : {"offline", "opening", "streaming"}, from : 0 .. MaxMessages, shown : SUBSET Ids]

ChatInit ==
  /\ chatClock = 0
  /\ restarts = 0
  /\ log = <<>>
  /\ table = {}
  /\ lastPost = [u \in Posters |-> Never]
  /\ req = [p \in Writers |-> NoRequest]
  /\ subs = {}
  /\ queue = [s \in Streams |-> <<>>]
  /\ view = [s \in Streams |-> Offline]

Leave(p) == req' = [req EXCEPT ![p] = NoRequest]

----------------------------------------------------------------------------
(* The bus *)

FullWrong(s) == Len(queue[s]) > QueueSize
Full(s) == Len(queue[s]) >= QueueSize

\* A full queue is forgotten about, but its stream stays open.
PublishWrong(event) ==
  /\ queue' = [s \in Streams |->
       IF s \notin subs \/ Full(s) THEN queue[s] ELSE Append(queue[s], event)]
  /\ subs' = {s \in subs : ~Full(s)}

\* publish: every subscription is offered the event; one whose queue is full is
\* dropped, and what it still held makes way for the end of its stream.
Publish(event) ==
  /\ queue' = [s \in Streams |->
       IF s \notin subs THEN queue[s]
       ELSE IF Full(s) THEN <<CLOSED>> ELSE Append(queue[s], event)]
  /\ subs' = {s \in subs : ~Full(s)}

----------------------------------------------------------------------------
(* Posting *)

NotFlooding(u) == lastPost[u] # Never => chatClock - lastPost[u] >= Interval

BeginPost(p, u) ==
  /\ req[p].pc = "idle"
  /\ NotFlooding(u)
  /\ req' = [req EXCEPT ![p] = [pc |-> "append", user |-> u, now |-> chatClock]]
  /\ UNCHANGED <<chatClock, restarts, log, table, lastPost, subs, queue, view>>

\* append: the row is committed, and its id is the next of the identity column.
AppendRow(p) ==
  LET i == Len(log) + 1 IN
  /\ req[p].pc = "append"
  /\ i <= MaxMessages
  /\ log' = Append(log, [author |-> req[p].user, at |-> req[p].now])
  /\ table' = table \cup {i}
  /\ req' = [req EXCEPT ![p] = [pc |-> "appended", user |-> @.user, now |-> @.now, id |-> i]]
  /\ UNCHANGED <<chatClock, restarts, lastPost, subs, queue, view>>

FinishPost(p) ==
  /\ req[p].pc = "appended"
  /\ lastPost' = [lastPost EXCEPT ![req[p].user] = req[p].now]
  /\ Publish(Posted(req[p].id))
  /\ Leave(p)
  /\ UNCHANGED <<chatClock, restarts, log, table, view>>

----------------------------------------------------------------------------
(* Deleting *)

\* get: the message is there, and its author or an admin asks.
BeginErase(p, i) ==
  /\ req[p].pc = "idle"
  /\ i \in table
  /\ req' = [req EXCEPT ![p] = [pc |-> "erase", id |-> i]]
  /\ UNCHANGED <<chatClock, restarts, log, table, lastPost, subs, queue, view>>

EraseRow(p) ==
  /\ req[p].pc = "erase"
  /\ table' = table \ {req[p].id}
  /\ req' = [req EXCEPT ![p].pc = "erased"]
  /\ UNCHANGED <<chatClock, restarts, log, lastPost, subs, queue, view>>

FinishDelete(p) ==
  /\ req[p].pc = "erased"
  /\ Publish(Deleted(req[p].id))
  /\ Leave(p)
  /\ UNCHANGED <<chatClock, restarts, log, table, lastPost, view>>

\* The database call raises: nothing was written, nothing is published.
Fail(p) ==
  /\ req[p].pc \in {"append", "erase"}
  /\ Leave(p)
  /\ UNCHANGED <<chatClock, restarts, log, table, lastPost, subs, queue, view>>

----------------------------------------------------------------------------
(* Streams *)

\* The stream is open, but the bus learns of it only when it is iterated.
SubscribeWrong(s) ==
  /\ view[s].state = "offline"
  /\ UNCHANGED subs
  /\ queue' = [queue EXCEPT ![s] = <<>>]
  /\ view' = [view EXCEPT ![s] = [state |-> "opening", from |-> 0, shown |-> {}]]
  /\ UNCHANGED <<chatClock, restarts, log, table, lastPost, req>>

\* A client connects or reconnects: the stream subscribes first.
Subscribe(s) ==
  /\ view[s].state = "offline"
  /\ subs' = subs \cup {s}
  /\ queue' = [queue EXCEPT ![s] = <<>>]
  /\ view' = [view EXCEPT ![s] = [state |-> "opening", from |-> 0, shown |-> {}]]
  /\ UNCHANGED <<chatClock, restarts, log, table, lastPost, req>>

\* The newest MaxListed rows.
Listed == {i \in table : Cardinality({j \in table : j > i}) < MaxListed}

\* ... then it reads the snapshot, with which the client replaces its list.
Snapshot(s) ==
  /\ view[s].state = "opening"
  /\ view' = [view EXCEPT ![s] =
       [state |-> "streaming", shown |-> Listed,
        from |-> IF Listed = table THEN 0 ELSE CHOOSE i \in Listed : \A j \in Listed : i <= j]]
  /\ UNCHANGED <<chatClock, restarts, log, table, lastPost, req, subs, queue>>

\* The next event, if any, reaches the client.  CLOSED ends the stream: the
\* subscription is discarded and the client is to connect again.
Receive(s) ==
  /\ view[s].state = "streaming"
  /\ queue[s] # <<>>
  /\ LET event == Head(queue[s]) IN
       \/ /\ event.type = "message"
          /\ view' = [view EXCEPT ![s].shown = @ \cup {event.id}]
          /\ UNCHANGED subs
       \/ /\ event.type = "delete"
          /\ view' = [view EXCEPT ![s].shown = @ \ {event.id}]
          /\ UNCHANGED subs
       \/ /\ event.type = "closed"
          /\ view' = [view EXCEPT ![s] = Offline]
          /\ subs' = subs \ {s}
  /\ queue' = [queue EXCEPT ![s] = Tail(@)]
  /\ UNCHANGED <<chatClock, restarts, log, table, lastPost, req>>

\* The client goes away, or its connection breaks.
Disconnect(s) ==
  /\ view[s].state # "offline"
  /\ view' = [view EXCEPT ![s] = Offline]
  /\ subs' = subs \ {s}
  /\ queue' = [queue EXCEPT ![s] = <<>>]
  /\ UNCHANGED <<chatClock, restarts, log, table, lastPost, req>>

----------------------------------------------------------------------------

\* A deploy or a crash: memory is gone, the rows stay, every stream breaks.
RestartChat ==
  /\ restarts < MaxRestarts
  /\ restarts' = restarts + 1
  /\ lastPost' = [u \in Posters |-> Never]
  /\ req' = [p \in Writers |-> NoRequest]
  /\ subs' = {}
  /\ queue' = [s \in Streams |-> <<>>]
  /\ view' = [s \in Streams |-> Offline]
  /\ UNCHANGED <<chatClock, log, table>>

ChatTick ==
  /\ chatClock < MaxSeconds
  /\ chatClock' = chatClock + 1
  /\ UNCHANGED <<restarts, log, table, lastPost, req, subs, queue, view>>

HandleChat(p) == FinishPost(p) \/ EraseRow(p) \/ FinishDelete(p)

ChatNext ==
  \/ \E p \in Writers, u \in Posters : BeginPost(p, u)
  \/ \E p \in Writers, i \in Ids : BeginErase(p, i)
  \/ \E p \in Writers : AppendRow(p) \/ HandleChat(p) \/ Fail(p)
  \/ \E s \in Streams : Subscribe(s) \/ Snapshot(s) \/ Receive(s) \/ Disconnect(s)
  \/ RestartChat
  \/ ChatTick

\* The event loop runs what is ready; a socket that stays open is written to.
\* Nobody is made to post, connect or stay.
ChatFairness ==
  /\ \A p \in Writers : WF_chatvars(HandleChat(p))
  /\ \A s \in Streams : WF_chatvars(Snapshot(s)) /\ WF_chatvars(Receive(s))

ChatSpec == ChatInit /\ [][ChatNext]_chatvars /\ ChatFairness

----------------------------------------------------------------------------
(* Properties *)

ChatTypeOK ==
  /\ chatClock \in Nat
  /\ restarts \in Nat
  /\ log \in Seq(Message)
  /\ table \subseteq DOMAIN log
  /\ lastPost \in [Posters -> Nat \cup {Never}]
  /\ req \in [Writers -> {NoRequest} \cup PostRequest \cup DeleteRequest]
  /\ subs \subseteq Streams
  /\ queue \in [Streams -> Seq(Event)]
  /\ \A s \in Streams : Len(queue[s]) <= QueueSize
  /\ view \in [Streams -> View]

\* What the client will show once it has received all that is queued for it.
About(s, i) == {n \in DOMAIN queue[s] : queue[s][n].id = i}
WillShow(s, i) ==
  IF About(s, i) = {} THEN i \in view[s].shown
  ELSE \E n \in About(s, i) : queue[s][n].type = "message" /\ \A k \in About(s, i) : k <= n

Watching(s) == view[s].state = "streaming" /\ CLOSED \notin {queue[s][n] : n \in DOMAIN queue[s]}

\* Subscribing before reading the snapshot loses nothing (router docstring):
\* a stream that goes on shows, or has queued, every message since its snapshot
\* began, unless the message's own request is still about to publish it.
NothingMissed ==
  \A s \in Streams : Watching(s) =>
    \A i \in table : i >= view[s].from =>
      WillShow(s, i) \/ \E p \in Writers : req[p].pc = "appended" /\ req[p].id = i

\* A stream that stays open shows every message that stays: a stalled stream
\* is ended, not left open without its events.
EveryMessageArrives ==
  \A s \in Streams, i \in Ids :
    (view[s].state = "streaming" /\ i \in table /\ i >= view[s].from) ~>
      (view[s].state = "offline" \/ i \notin table \/ i \in view[s].shown)

\* "Today's chat, then every change to it as it happens" (stream docstring): a
\* stream never ends up showing a message that is deleted and announced so.
NoGhost ==
  \A s \in Streams : Watching(s) =>
    \A i \in Ids : WillShow(s, i) =>
      i \in table \/ \E p \in Writers : req[p].pc = "erased" /\ req[p].id = i
=============================================================================
