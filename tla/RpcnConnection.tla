--------------------------- MODULE RpcnConnection ---------------------------
(***************************************************************************)
(* The one RPCN session that request threads and the history collector     *)
(* share (matching/rpcn_lifecycle.py), the questions the adapter asks over *)
(* it (matching/adapters/rpcn.py), and the request and reply protocol of   *)
(* the client (rpcn_client/client.py).  The client numbers its requests    *)
(* but does not look at the number in a reply: a reply is taken for the    *)
(* answer to the last request.  RPCN itself answers in order, may send     *)
(* notifications and other packets in between, may be slow, refuse, or     *)
(* hang up.                                                                *)
(***************************************************************************)
EXTENDS Naturals, Sequences

CONSTANTS
  Callers,   \* threads that want an answer from RPCN
  Lobbies,   \* number of worlds that search_rooms_all goes through
  COOLDOWN,  \* rpcn_reconnect_cooldown
  MaxCalls,  \* bound on the calls begun
  MaxMonotonic,  \* bound on the clock
  NoCaller,  \* nobody holds the lock
  NoClient   \* not connected

\* The socket's two directions: requests sent and answered, and packets on the way;
\* extra of them nobody asked for.  skipped is history: the unexpected packets that
\* a room search has met and gone on after.
Notification == [type |-> "notif"]
Unexpected == [type |-> "other"]
Packet == [type : {"reply"}, to : Nat] \cup {Notification, Unexpected}
Link == [sent : Nat, answered : Nat, inbox : Seq(Packet), extra : Nat, cut : BOOLEAN, skipped : Nat]

ASSUME RpcnAssumption ==
  /\ Lobbies \in Nat \ {0} /\ COOLDOWN \in Nat /\ MaxCalls \in Nat /\ MaxMonotonic \in Nat
  /\ NoCaller \notin Callers /\ NoClient \notin Link

VARIABLES
  time,    \* time.monotonic()
  holder,  \* SharedRpcnClient._lock
  link,    \* _client: its socket's two directions, or NoClient
  coolAt,  \* when a new connection may be tried: _failed_at + _cooldown
  call,    \* per caller, what it is doing
  begun    \* calls begun so far

rvars == <<time, holder, link, coolAt, call, begun>>

Operations == {"world_tree", "rooms", "leaderboard"}
Questions(op) == [world_tree |-> 2, rooms |-> Lobbies, leaderboard |-> 1][op]

Idle == [pc |-> "idle"]
Ask(op) == [pc |-> "waiting", op |-> op, asked |-> 0, answers |-> {}]

\* A fresh socket: nothing asked, nothing on the way.
Connected == [sent |-> 0, answered |-> 0, inbox |-> <<>>, extra |-> 0, cut |-> FALSE, skipped |-> 0]
ReplyPacket(n) == [type |-> "reply", to |-> n]

RInit ==
  /\ time = 0 /\ coolAt = 0 /\ begun = 0
  /\ holder = NoCaller
  /\ link = NoClient
  /\ call = [c \in Callers |-> Idle]

----------------------------------------------------------------------------
(* SharedRpcnClient *)

Call(c, op) ==
  /\ call[c].pc = "idle"
  /\ begun < MaxCalls
  /\ begun' = begun + 1
  /\ call' = [call EXCEPT ![c] = Ask(op)]
  /\ UNCHANGED <<time, holder, link, coolAt>>

Enter(c) ==
  /\ call[c].pc = "waiting"
  /\ holder = NoCaller
  /\ holder' = c
  /\ call' = [call EXCEPT ![c].pc = IF link = NoClient THEN "connecting" ELSE "asking"]
  /\ UNCHANGED <<time, link, coolAt, begun>>

\* Forgetting to release the lock.
LetGoWrong(c) ==
  /\ UNCHANGED holder
  /\ call' = [call EXCEPT ![c] = Idle]

\* The context manager ends: the lock is released, the caller has its answer.
LetGo(c) ==
  /\ holder' = NoCaller
  /\ call' = [call EXCEPT ![c] = Idle]

\* _discard, then RpcnUnavailableError.
GiveUp(c) ==
  /\ LetGo(c)
  /\ link' = NoClient
  /\ coolAt' = time + COOLDOWN
  /\ UNCHANGED <<time, begun>>

\* _ensure_cooled_down: its error is neither RpcnError nor OSError, so it
\* passes through api_client without prolonging the pause.
StillCooling(c) ==
  /\ call[c].pc = "connecting"
  /\ time < coolAt
  /\ LetGo(c)
  /\ UNCHANGED <<time, link, coolAt, begun>>

\* What connect() may meet: the ServerInfo packet of our protocol version, or
\* another packet, a short one, another version, or no (whole) packet at all.
Greetings == {"our_version", "other_packet", "too_short", "other_version", "nothing"}

\* What login() may meet: RPCN lets one session in per account.
LoginReplies == {"no_error", "refused", "already_logged_in", "other_packet", "unreadable", "nothing"}

\* create_client.  An answer that cannot be parsed raises neither RpcnError nor
\* OSError: there is no client then, and no pause either.
Connect(c) ==
  /\ call[c].pc = "connecting"
  /\ time >= coolAt
  /\ \E greeting \in Greetings, login \in LoginReplies :
       CASE greeting = "our_version" /\ login = "no_error" ->
              /\ link' = Connected
              /\ call' = [call EXCEPT ![c].pc = "asking"]
              /\ UNCHANGED <<time, holder, coolAt, begun>>
         [] greeting = "our_version" /\ login = "unreadable" ->
              LetGo(c) /\ UNCHANGED <<time, link, coolAt, begun>>
         [] OTHER -> GiveUp(c)

Shutdown ==
  /\ holder = NoCaller
  /\ link # NoClient
  /\ link' = NoClient
  /\ UNCHANGED <<time, holder, coolAt, call, begun>>

----------------------------------------------------------------------------
(* The client: one request, one reply *)

\* _send: a socket that the server cut may still take the bytes, or raise.
Send(c) ==
  /\ call[c].pc = "asking"
  /\ call[c].asked < Questions(call[c].op)
  /\ \/ /\ link' = [link EXCEPT !.sent = @ + 1]
        /\ call' = [call EXCEPT ![c].pc = "reading", ![c].asked = @ + 1]
        /\ UNCHANGED <<time, holder, coolAt, begun>>
     \/ link.cut /\ GiveUp(c)

\* A question ends in RpcnError: search_rooms_all leaves the lobby out and goes on
\* with the same client; every other operation gives the client up.
Refused(c) ==
  IF call[c].op = "rooms"
  THEN /\ call' = [call EXCEPT ![c].pc = "asking"]
       /\ UNCHANGED <<time, holder, coolAt, begun>>
  ELSE GiveUp(c)

\* The packet that is read now, and the socket without it.
Incoming == Head(link.inbox)
Rest == [link EXCEPT !.inbox = Tail(@)]

\* _recv_reply reads whole packets and drops notifications ...
DropNotification(c) ==
  /\ call[c].pc = "reading"
  /\ link.inbox # <<>> /\ Incoming.type = "notif"
  /\ link' = Rest
  /\ UNCHANGED <<time, holder, coolAt, call, begun>>

\* ... raises RpcnError on a packet that is neither notification nor reply, with
\* the reply still to come ...
RejectPacket(c) ==
  /\ call[c].pc = "reading"
  /\ link.inbox # <<>> /\ Incoming.type = "other"
  /\ Refused(c)
  /\ call[c].op = "rooms" => link' = [Rest EXCEPT !.skipped = @ + 1]

\* ... and ends with a reply.  It holds an answer, or an error or too few bytes
\* (RpcnError), or a body that cannot be parsed: that error passes through
\* search_rooms_all and api_client alike, and the client is kept.
ReceiveReply(c) ==
  /\ call[c].pc = "reading"
  /\ link.inbox # <<>> /\ Incoming.type = "reply"
  /\ \/ /\ link' = Rest
        /\ call' = [call EXCEPT ![c].pc = "asking",
             ![c].answers = @ \cup {[of |-> link.sent, to |-> Incoming.to, behind |-> link.skipped]}]
        /\ UNCHANGED <<time, holder, coolAt, begun>>
     \/ Refused(c) /\ (call[c].op = "rooms" => link' = Rest)
     \/ LetGo(c) /\ link' = Rest /\ UNCHANGED <<time, coolAt, begun>>

\* recv() returns nothing: "Connection closed unexpectedly by server".
EndOfStream(c) ==
  /\ call[c].pc = "reading"
  /\ link.inbox = <<>> /\ link.cut
  /\ Refused(c)
  /\ call[c].op = "rooms" => UNCHANGED link

\* Swallowing the timeout of one lobby as well.
TimeOutWrong(c) ==
  /\ call[c].pc = "reading"
  /\ link.inbox = <<>>
  /\ Refused(c)
  /\ call[c].op = "rooms" => UNCHANGED link

\* The socket's timeout is an OSError, which search_rooms_all does not swallow.
TimeOut(c) ==
  /\ call[c].pc = "reading"
  /\ link.inbox = <<>>
  /\ GiveUp(c)

EndCall(c) ==
  /\ call[c].pc = "asking"
  /\ call[c].asked = Questions(call[c].op)
  /\ LetGo(c)
  /\ UNCHANGED <<time, link, coolAt, begun>>

----------------------------------------------------------------------------
(* RPCN, with at most one packet nobody asked for per request *)

Server ==
  /\ link # NoClient /\ ~link.cut
  /\ \/ /\ link.answered < link.sent
        /\ link' = [link EXCEPT !.answered = @ + 1, !.inbox = Append(@, ReplyPacket(link.answered + 1))]
     \/ /\ link.extra < link.sent
        /\ \E packet \in {Notification, Unexpected} :
             link' = [link EXCEPT !.extra = @ + 1, !.inbox = Append(@, packet)]
     \/ link' = [link EXCEPT !.cut = TRUE]
  /\ UNCHANGED <<time, holder, coolAt, call, begun>>

Clock ==
  /\ time < MaxMonotonic
  /\ time' = time + 1
  /\ UNCHANGED <<holder, link, coolAt, call, begun>>

\* What a thread that holds the lock does next.
Proceeds(c) ==
  \/ StillCooling(c) \/ Connect(c) \/ Send(c)
  \/ DropNotification(c) \/ RejectPacket(c) \/ ReceiveReply(c) \/ EndOfStream(c) \/ TimeOut(c)
  \/ EndCall(c)

Work(c) == Enter(c) \/ Proceeds(c)

RNext ==
  \/ \E c \in Callers : Work(c) \/ \E op \in Operations : Call(c, op)
  \/ Shutdown \/ Server \/ Clock

\* A thread that can run runs: a socket operation ends with bytes, with the end
\* of the stream or with its timeout.  Threads take the lock in an order that
\* lets nobody starve.  Of RPCN nothing is assumed but that notifications do not
\* come so fast that a caller reads nothing else.
RFairness ==
  \A c \in Callers :
    /\ SF_rvars(Enter(c))
    /\ WF_rvars(Proceeds(c))

RSpec == RInit /\ [][RNext]_rvars /\ RFairness

----------------------------------------------------------------------------
(* Properties *)

RTypeOK ==
  /\ time \in 0 .. MaxMonotonic /\ begun \in 0 .. MaxCalls /\ coolAt \in 0 .. MaxMonotonic + COOLDOWN
  /\ holder \in Callers \cup {NoCaller} /\ link \in Link \cup {NoClient}
  /\ \A c \in Callers : call[c].pc \notin {"idle", "waiting"} <=> holder = c
  /\ \A c \in Callers : call[c].pc \in {"asking", "reading"} => link # NoClient

\* docs/spec/06-cross-cutting.md: notifications are dropped because the pairs of
\* requests and replies would break otherwise, and a client that met an RpcnError
\* is thrown away.  So no caller is handed the answer to another question.  (A
\* lobby search that meets an unexpected packet keeps its client, and the pairs do
\* break.)
RepliesMatch ==
  \A c \in Callers : call[c].pc # "idle" => \A a \in call[c].answers : a.to = a.of

\* Replies are matched to requests by their order alone (_recv_reply ignores
\* _pkt_id), and over a session many callers share.  An answer is that to the
\* question asked, but for one cause: it is as many questions old as unexpected
\* packets were swallowed by lobby searches in this session, whoever made them.
\* No timeout, refusal, unreadable answer, notification or hang-up, in whatever
\* order, puts a session out of step.
RepliesInStep ==
  \A c \in Callers : call[c].pc # "idle" => \A a \in call[c].answers : a.to + a.behind = a.of

\* However RPCN behaves, every call ends, with an answer or with
\* RpcnUnavailableError: nobody keeps the lock, and nobody waits for it for ever.
EveryCallEnds == \A c \in Callers : call[c].pc # "idle" ~> call[c].pc = "idle"
=============================================================================
