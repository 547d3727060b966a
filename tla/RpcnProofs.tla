------------------------------ MODULE RpcnProofs ------------------------------
(***************************************************************************)
(* Proofs about what is asked of RPCN: RpcnConnection for any number of    *)
(* callers, lobbies and calls, Accounts for any accounts, lives of a token *)
(* and timeouts, and LiveRooms for any visits and room lists.              *)
(***************************************************************************)
EXTENDS RpcnConnection, Accounts, LiveRooms, Integers, TLAPS

Answer == [of : Nat, to : Nat, behind : Nat]
Called == [pc : {"waiting", "connecting", "asking", "reading"}, op : Operations, asked : Nat,
           answers : SUBSET Answer]

Shapes ==
  /\ link \in Link \cup {NoClient}
  /\ call \in [Callers -> {Idle} \cup Called]
  /\ holder \in Callers \cup {NoCaller}

\* Whoever is past the lock holds it, and has a session once it asks.
Exclusive ==
  \A c \in Callers :
    /\ call[c].pc \in {"connecting", "asking", "reading"} => holder = c
    /\ call[c].pc \in {"asking", "reading"} => link \in Link

Replies(l) == {n \in DOMAIN l.inbox : l.inbox[n].type = "reply"}

\* The replies from the one to request due on, up to the last that RPCN gave, are
\* on the way in this order, and no other; due has not been passed over.
Lined(l, due) ==
  /\ \A n \in Replies(l) : l.inbox[n].to \in due .. l.answered
  /\ \A m, n \in Replies(l) : m < n => l.inbox[m].to < l.inbox[n].to
  /\ \A k \in due .. l.answered : \E n \in Replies(l) : l.inbox[n].to = k
  /\ ~l.cut => due <= l.answered + 1

Reading(c) == call[c].pc = "reading"

\* The request whose reply comes next: as many back as packets were skipped.
Due(l, asked) == IF asked THEN l.sent - l.skipped ELSE l.sent - l.skipped + 1

\* A caller that has asked reads the reply that is due, whoever asked the question,
\* and the next caller the one after.
InStep ==
  link # NoClient => Lined(link, Due(link, \E c \in Callers : Reading(c)))

\* The session once the first packet is read, one that nobody asked for has come,
\* or the next reply.
Read(l) == [l EXCEPT !.inbox = Tail(@)]
WithOther(l, p) == [l EXCEPT !.extra = @ + 1, !.inbox = Append(@, p)]
WithReply(l) == [l EXCEPT !.answered = @ + 1, !.inbox = Append(@, ReplyPacket(l.answered + 1))]

\* The inductive invariant.
RInv == Shapes /\ Exclusive /\ InStep /\ RepliesInStep

----------------------------------------------------------------------------
(* The socket *)

LEMMA ConnectedIsLined == Connected \in Link /\ Lined(Connected, Due(Connected, FALSE))
<1>1. Connected.inbox = <<>> /\ Connected.answered = 0 /\ Connected.sent = 0 /\ Connected.skipped = 0
  BY DEF Connected
<1>2. Replies(Connected) = {}
  BY <1>1 DEF Replies
<1> QED
  BY <1>1, <1>2 DEF Connected, Link, Lined, Due

LEMMA ReplyTo ==
  ASSUME NEW l \in Link, NEW n \in Replies(l)
  PROVE  n \in 1 .. Len(l.inbox) /\ l.inbox[n] \in Packet /\ l.inbox[n].to \in Nat
BY DEF Link, Replies, Packet, Notification, Unexpected

\* The first packet, and what is left behind it.
LEMMA PacketRead ==
  ASSUME NEW l \in Link, l.inbox # <<>>, NEW rest, rest = Read(l)
  PROVE  /\ rest \in Link
         /\ rest.sent = l.sent /\ rest.answered = l.answered /\ rest.skipped = l.skipped
         /\ rest.cut = l.cut
         /\ Head(l.inbox) \in Packet
         /\ \A n \in Replies(rest) : n + 1 \in Replies(l) /\ rest.inbox[n] = l.inbox[n + 1]
         /\ \A n \in Replies(l) : n # 1 => n - 1 \in Replies(rest) /\ rest.inbox[n - 1] = l.inbox[n]
         /\ 1 \in Replies(l) <=> Head(l.inbox).type = "reply"
         /\ l.inbox[1] = Head(l.inbox)
<1>1. /\ l.inbox \in Seq(Packet) /\ Tail(l.inbox) \in Seq(Packet)
      /\ Head(l.inbox) = l.inbox[1] /\ Head(l.inbox) \in Packet
      /\ Len(Tail(l.inbox)) = Len(l.inbox) - 1 /\ Len(l.inbox) \in Nat \ {0}
      /\ \A n \in 1 .. Len(l.inbox) - 1 : Tail(l.inbox)[n] = l.inbox[n + 1]
      /\ DOMAIN l.inbox = 1 .. Len(l.inbox) /\ DOMAIN Tail(l.inbox) = 1 .. Len(l.inbox) - 1
  BY DEF Link
<1>2. /\ rest \in Link /\ rest.inbox = Tail(l.inbox)
      /\ rest.sent = l.sent /\ rest.answered = l.answered /\ rest.skipped = l.skipped
      /\ rest.cut = l.cut
  BY <1>1 DEF Link, Read
<1>3. \A n \in Replies(rest) : n + 1 \in Replies(l) /\ rest.inbox[n] = l.inbox[n + 1]
  BY <1>1, <1>2 DEF Replies
<1>4. \A n \in Replies(l) : n # 1 => n - 1 \in Replies(rest) /\ rest.inbox[n - 1] = l.inbox[n]
  BY <1>1, <1>2 DEF Replies
<1>5. 1 \in Replies(l) <=> Head(l.inbox).type = "reply"
  BY <1>1 DEF Replies
<1> QED
  BY <1>1, <1>2, <1>3, <1>4, <1>5

\* A packet that is no reply leaves the replies as they are ...
LEMMA OtherRead ==
  ASSUME NEW l \in Link, l.inbox # <<>>, Head(l.inbox).type # "reply", NEW due \in Int, Lined(l, due),
         NEW rest, rest = Read(l)
  PROVE  Lined(rest, due)
<1>1. /\ rest.answered = l.answered /\ rest.cut = l.cut
      /\ \A n \in Replies(rest) : n + 1 \in Replies(l) /\ rest.inbox[n] = l.inbox[n + 1]
      /\ \A n \in Replies(l) : n - 1 \in Replies(rest) /\ rest.inbox[n - 1] = l.inbox[n]
      /\ rest \in Link
  BY PacketRead
<1>2. \A n \in Replies(rest) : n \in Nat
  BY <1>1, ReplyTo
<1>3. \A m, n \in Replies(rest) : m < n => rest.inbox[m].to < rest.inbox[n].to
  BY <1>1, <1>2 DEF Lined
<1>4. \A k \in due .. rest.answered : \E n \in Replies(rest) : rest.inbox[n].to = k
  BY <1>1 DEF Lined
<1> QED
  BY <1>1, <1>3, <1>4 DEF Lined

\* ... and a reply is the one that is due; the next is due then.
LEMMA ReplyRead ==
  ASSUME NEW l \in Link, l.inbox # <<>>, Head(l.inbox).type = "reply", NEW due \in Int, Lined(l, due),
         NEW rest, rest = Read(l)
  PROVE  Head(l.inbox).to = due /\ Lined(rest, due + 1)
<1>1. /\ rest.answered = l.answered /\ rest.cut = l.cut /\ rest \in Link
      /\ \A n \in Replies(rest) : n + 1 \in Replies(l) /\ rest.inbox[n] = l.inbox[n + 1]
      /\ \A n \in Replies(l) : n # 1 => n - 1 \in Replies(rest) /\ rest.inbox[n - 1] = l.inbox[n]
      /\ 1 \in Replies(l) /\ l.inbox[1] = Head(l.inbox)
  BY PacketRead
<1>2. l.answered \in Nat /\ \A n \in Replies(l) : n \in Nat /\ n >= 1 /\ l.inbox[n].to \in Nat
  BY ReplyTo DEF Link
<1>3. l.inbox[1].to \in due .. l.answered
  BY <1>1 DEF Lined
<1>4. l.inbox[1].to = due
  <2>1. due \in due .. l.answered
    BY <1>2, <1>3
  <2>2. PICK n \in Replies(l) : l.inbox[n].to = due
    BY <2>1 DEF Lined
  <2>3. n = 1 \/ l.inbox[1].to < due
    BY <1>1, <1>2, <2>2 DEF Lined
  <2> QED
    BY <1>2, <1>3, <2>2, <2>3
<1>5. \A n \in Replies(rest) : rest.inbox[n].to \in due + 1 .. rest.answered
  <2> SUFFICES ASSUME NEW n \in Replies(rest) PROVE rest.inbox[n].to \in due + 1 .. rest.answered
    OBVIOUS
  <2>1. n + 1 \in Replies(l) /\ rest.inbox[n] = l.inbox[n + 1] /\ n \in Nat /\ n >= 1
    BY <1>1, ReplyTo
  <2>2. l.inbox[1].to < l.inbox[n + 1].to /\ l.inbox[n + 1].to \in due .. l.answered
    BY <1>1, <2>1 DEF Lined
  <2> QED
    BY <1>1, <1>4, <2>1, <2>2
<1>6. \A m, n \in Replies(rest) : m < n => rest.inbox[m].to < rest.inbox[n].to
  <2>1. \A n \in Replies(rest) : n \in Nat
    BY <1>1, ReplyTo
  <2> QED
    BY <1>1, <2>1 DEF Lined
<1>7. \A k \in due + 1 .. rest.answered : \E n \in Replies(rest) : rest.inbox[n].to = k
  <2> SUFFICES ASSUME NEW k \in due + 1 .. rest.answered
               PROVE  \E n \in Replies(rest) : rest.inbox[n].to = k
    OBVIOUS
  <2>1. k \in due .. l.answered /\ k # due
    BY <1>1, <1>2
  <2>2. PICK n \in Replies(l) : l.inbox[n].to = k
    BY <2>1 DEF Lined
  <2>3. n # 1
    BY <1>4, <2>1, <2>2
  <2> QED
    BY <1>1, <2>2, <2>3
<1>8. due + 1 <= rest.answered + 1
  BY <1>1, <1>2, <1>3
<1> QED
  BY <1>1, <1>4, <1>5, <1>6, <1>7, <1>8 DEF Lined

\* A packet arrives that nobody asked for ...
LEMMA OtherArrives ==
  ASSUME NEW l \in Link, NEW p \in {Notification, Unexpected}, NEW due \in Int, NEW more,
         more = WithOther(l, p)
  PROVE  /\ more \in Link /\ more.sent = l.sent /\ more.skipped = l.skipped
         /\ Lined(l, due) => Lined(more, due)
<1>1. p \in Packet /\ p.type # "reply"
  BY DEF Packet, Notification, Unexpected
<1>2. PICK box : box = Append(l.inbox, p)
  OBVIOUS
<1>3. /\ box \in Seq(Packet) /\ Len(box) = Len(l.inbox) + 1 /\ box[Len(l.inbox) + 1] = p
      /\ \A n \in 1 .. Len(l.inbox) : box[n] = l.inbox[n]
      /\ DOMAIN l.inbox = 1 .. Len(l.inbox) /\ DOMAIN box = 1 .. Len(l.inbox) + 1
      /\ Len(l.inbox) \in Nat
  BY <1>1, <1>2 DEF Link
<1>4. l.extra + 1 \in Nat /\ more = [l EXCEPT !.extra = l.extra + 1, !.inbox = box]
  BY <1>2 DEF Link, WithOther
<1>5. /\ more \in Link /\ more.sent = l.sent /\ more.skipped = l.skipped
      /\ more.answered = l.answered /\ more.cut = l.cut /\ more.inbox = box
  BY <1>3, <1>4 DEF Link
<1>6. Replies(more) = Replies(l) /\ \A n \in Replies(l) : more.inbox[n] = l.inbox[n]
  BY <1>1, <1>3, <1>5 DEF Replies
<1>7. Lined(l, due) => Lined(more, due)
  BY <1>5, <1>6 DEF Lined
<1> QED
  BY <1>5, <1>7

\* ... and the next answer.
LEMMA AnswerArrives ==
  ASSUME NEW l \in Link, ~l.cut, NEW due \in Int, NEW more, more = WithReply(l)
  PROVE  /\ more \in Link /\ more.sent = l.sent /\ more.skipped = l.skipped
         /\ Lined(l, due) => Lined(more, due)
<1>1. PICK p : p = ReplyPacket(l.answered + 1)
  OBVIOUS
<1>2. l.answered \in Nat /\ p \in Packet /\ p.type = "reply" /\ p.to = l.answered + 1
  BY <1>1 DEF Link, Packet, ReplyPacket
<1>3. PICK box : box = Append(l.inbox, p)
  OBVIOUS
<1>4. /\ box \in Seq(Packet) /\ Len(box) = Len(l.inbox) + 1 /\ box[Len(l.inbox) + 1] = p
      /\ \A n \in 1 .. Len(l.inbox) : box[n] = l.inbox[n]
      /\ DOMAIN l.inbox = 1 .. Len(l.inbox) /\ DOMAIN box = 1 .. Len(l.inbox) + 1
      /\ Len(l.inbox) \in Nat
  BY <1>2, <1>3 DEF Link
<1>5. l.answered + 1 \in Nat /\ more = [l EXCEPT !.answered = l.answered + 1, !.inbox = box]
  BY <1>1, <1>2, <1>3 DEF Link, WithReply
<1>6. /\ more \in Link /\ more.sent = l.sent /\ more.skipped = l.skipped
      /\ more.answered = l.answered + 1 /\ more.cut = l.cut /\ more.inbox = box
  BY <1>4, <1>5 DEF Link
<1> DEFINE last == Len(l.inbox) + 1
<1>7. /\ Replies(more) = Replies(l) \cup {last} /\ more.inbox[last].to = l.answered + 1
      /\ \A n \in Replies(l) : more.inbox[n] = l.inbox[n] /\ n < last
      /\ last \in Nat
  BY <1>2, <1>4, <1>6 DEF Replies
<1> HIDE DEF last
<1>8. ASSUME Lined(l, due) PROVE Lined(more, due)
  <2>1. \A n \in Replies(l) : l.inbox[n].to \in due .. l.answered
    BY <1>8 DEF Lined
  <2>2. due <= l.answered + 1
    BY <1>8 DEF Lined
  <2>3. \A n \in Replies(more) : more.inbox[n].to \in due .. more.answered
    BY <1>2, <1>6, <1>7, <2>1, <2>2
  <2>4. \A m, n \in Replies(more) : m < n => more.inbox[m].to < more.inbox[n].to
    <3> SUFFICES ASSUME NEW m \in Replies(more), NEW n \in Replies(more), m < n
                 PROVE  more.inbox[m].to < more.inbox[n].to
      OBVIOUS
    <3>1. m \in Replies(l)
      <4>1. \A k \in Replies(l) : k \in Nat
        BY ReplyTo
      <4> QED
        BY <1>7, <4>1
    <3>2. CASE n = last
      <4>1. more.inbox[m].to \in due .. l.answered
        BY <1>7, <2>1, <3>1
      <4>2. more.inbox[n].to = l.answered + 1
        BY <1>7, <3>2
      <4> QED
        BY <1>2, <4>1, <4>2
    <3>3. CASE n \in Replies(l)
      BY <1>7, <1>8, <3>1, <3>3 DEF Lined
    <3> QED
      BY <1>7, <3>2, <3>3
  <2>5. \A k \in due .. more.answered : \E n \in Replies(more) : more.inbox[n].to = k
    <3> SUFFICES ASSUME NEW k \in due .. more.answered PROVE \E n \in Replies(more) : more.inbox[n].to = k
      OBVIOUS
    <3>1. k = l.answered + 1 \/ k \in due .. l.answered
      BY <1>2, <1>6
    <3> QED
      BY <1>7, <1>8, <3>1 DEF Lined
  <2>6. due <= more.answered + 1
    BY <1>2, <1>6, <2>2
  <2> QED
    BY <2>3, <2>4, <2>5, <2>6 DEF Lined
<1> QED
  BY <1>6, <1>8

\* Counting a request or a skipped packet moves no reply.
LEMMA SameReplies ==
  ASSUME NEW l, NEW more, NEW due, more.inbox = l.inbox, more.answered = l.answered, more.cut = l.cut
  PROVE  Lined(l, due) => Lined(more, due)
BY DEF Lined, Replies

----------------------------------------------------------------------------
(* The lock and the calls *)

LEMMA RpcnInit == RInit => RInv
BY DEF RInit, RInv, Shapes, Exclusive, InStep, RepliesInStep, Idle

Past(c) == call[c].pc \in {"connecting", "asking", "reading"}

\* Only the holder of the lock is past it.
LEMMA Alone ==
  ASSUME RInv, NEW c \in Callers, NEW d \in Callers, Past(c), Past(d)
  PROVE  c = d /\ holder = c
BY DEF RInv, Exclusive, Past

\* A call that ends hands the lock back and is forgotten.
LEMMA LetGoStep ==
  ASSUME RInv, NEW c \in Callers, Past(c), LetGo(c), link' \in Link \cup {NoClient},
         link' # NoClient => Lined(link', Due(link', FALSE))
  PROVE  RInv'
<1>1. holder' = NoCaller /\ call' = [call EXCEPT ![c] = Idle]
  BY DEF LetGo
<1>2. /\ call' \in [Callers -> {Idle} \cup Called]
      /\ call'[c] = Idle
      /\ \A d \in Callers : d # c => call'[d] = call[d] /\ ~Past(d)
  BY <1>1, Alone DEF RInv, Shapes
<1>3. Shapes'
  BY <1>1, <1>2 DEF Shapes
<1>4. \A d \in Callers : call'[d].pc \notin {"connecting", "asking", "reading"}
  BY <1>2 DEF Past, Idle
<1>5. Exclusive' /\ InStep'
  BY <1>4 DEF Exclusive, InStep, Reading
<1>6. RepliesInStep'
  BY <1>2 DEF RInv, RepliesInStep, Idle
<1> QED
  BY <1>3, <1>5, <1>6 DEF RInv

LEMMA GiveUpStep ==
  ASSUME RInv, NEW c \in Callers, Past(c), GiveUp(c)
  PROVE  RInv'
BY LetGoStep DEF GiveUp

\* The holder of the lock goes on: what has to be shown of its own call and of the
\* session.
LEMMA GoesOn ==
  ASSUME RInv, NEW c \in Callers, Past(c), UNCHANGED holder,
         NEW mine \in Called, call' = [call EXCEPT ![c] = mine],
         mine.pc \in {"asking", "reading"},
         \A a \in mine.answers : a.to + a.behind = a.of,
         link' \in Link, Lined(link', Due(link', mine.pc = "reading"))
  PROVE  RInv'
<1>1. /\ call' \in [Callers -> {Idle} \cup Called]
      /\ call'[c] = mine
      /\ \A d \in Callers : d # c => call'[d] = call[d] /\ ~Past(d)
  BY Alone DEF RInv, Shapes
<1>2. Shapes'
  BY <1>1 DEF RInv, Shapes
<1>3. holder = c
  BY DEF RInv, Exclusive, Past
<1>4. Exclusive'
  BY <1>1, <1>3 DEF Exclusive, Past
<1>5. InStep'
  <2>1. \A d \in Callers : Reading(d)' <=> d = c /\ mine.pc = "reading"
    BY <1>1 DEF Reading, Past
  <2> QED
    BY <2>1 DEF InStep
<1>6. RepliesInStep'
  BY <1>1 DEF RInv, RepliesInStep
<1> QED
  BY <1>2, <1>4, <1>5, <1>6 DEF RInv

\* What the holder of the lock knows between two questions, and while it reads.
LEMMA Asking ==
  ASSUME RInv, NEW c \in Callers, call[c].pc = "asking"
  PROVE  /\ Past(c) /\ call[c] \in Called /\ link \in Link
         /\ Lined(link, Due(link, FALSE))
<1>1. Past(c) /\ link \in Link
  BY DEF RInv, Exclusive, Past
<1>2. \A d \in Callers : ~Reading(d)
  BY <1>1, Alone DEF Past, Reading
<1>3. link # NoClient
  BY <1>1, RpcnAssumption
<1>4. Lined(link, Due(link, FALSE))
  BY <1>2, <1>3 DEF RInv, InStep
<1>5. call[c] \in Called
  BY DEF RInv, Shapes, Idle
<1> QED
  BY <1>1, <1>4, <1>5

LEMMA WhileReading ==
  ASSUME RInv, NEW c \in Callers, Reading(c)
  PROVE  /\ Past(c) /\ call[c] \in Called /\ link \in Link
         /\ Lined(link, Due(link, TRUE))
<1>1. Past(c) /\ link \in Link
  BY DEF RInv, Exclusive, Past, Reading
<1>2. link # NoClient
  BY <1>1, RpcnAssumption
<1>3. Lined(link, Due(link, \E d \in Callers : Reading(d)))
  BY <1>2 DEF RInv, InStep
<1>4. Lined(link, Due(link, TRUE))
  BY <1>3 DEF Due
<1>5. call[c] \in Called
  BY DEF RInv, Shapes, Idle, Reading
<1> QED
  BY <1>1, <1>4, <1>5

----------------------------------------------------------------------------
(* The steps *)

\* A caller that is not past the lock changes its own call only.
LEMMA CallStep ==
  ASSUME RInv, NEW c \in Callers, NEW op \in Operations, Call(c, op)
  PROVE  RInv'
<1>1. Ask(op) \in Called
  BY DEF Ask, Called
<1>2. /\ call' \in [Callers -> {Idle} \cup Called]
      /\ call'[c] = Ask(op)
      /\ \A d \in Callers : d # c => call'[d] = call[d]
  BY <1>1 DEF RInv, Shapes, Call
<1>3. UNCHANGED <<link, holder>> /\ call[c].pc = "idle"
  BY DEF Call
<1>4. Ask(op).pc = "waiting" /\ Ask(op).answers = {}
  BY DEF Ask
<1>5. \A d \in Callers : Reading(d)' <=> Reading(d)
  BY <1>2, <1>3, <1>4 DEF Reading
<1>6. Shapes' /\ Exclusive'
  BY <1>2, <1>3, <1>4 DEF RInv, Shapes, Exclusive
<1>7. InStep'
  BY <1>3, <1>5 DEF RInv, InStep
<1>8. RepliesInStep'
  BY <1>2, <1>4 DEF RInv, RepliesInStep
<1> QED
  BY <1>6, <1>7, <1>8 DEF RInv

LEMMA EnterStep ==
  ASSUME RInv, NEW c \in Callers, Enter(c)
  PROVE  RInv'
<1> DEFINE pc == IF link = NoClient THEN "connecting" ELSE "asking"
<1>1. call[c].pc = "waiting" /\ holder = NoCaller /\ holder' = c /\ link' = link
  BY DEF Enter
<1>2. call[c] \in Called
  BY <1>1 DEF RInv, Shapes, Idle
<1>3. /\ call' \in [Callers -> {Idle} \cup Called]
      /\ call'[c].pc = pc /\ call'[c].answers = call[c].answers
      /\ \A d \in Callers : d # c => call'[d] = call[d]
  <2>1. call' = [call EXCEPT ![c].pc = pc]
    BY DEF Enter
  <2>2. [call[c] EXCEPT !.pc = pc] \in Called
    BY <1>2 DEF Called
  <2> QED
    BY <1>2, <2>1, <2>2 DEF RInv, Shapes, Called
<1>4. \A d \in Callers : ~Past(d)
  BY <1>1, RpcnAssumption DEF RInv, Exclusive, Past
<1>5. Shapes'
  BY <1>1, <1>3 DEF RInv, Shapes
<1>6. Exclusive'
  BY <1>1, <1>3, <1>4 DEF RInv, Exclusive, Past, Shapes
<1>7. InStep'
  BY <1>1, <1>3, <1>4 DEF RInv, InStep, Past, Reading
<1>8. RepliesInStep'
  BY <1>1, <1>3 DEF RInv, RepliesInStep
<1> QED
  BY <1>5, <1>6, <1>7, <1>8 DEF RInv

LEMMA ConnectStep ==
  ASSUME RInv, NEW c \in Callers, Connect(c)
  PROVE  RInv'
<1>1. call[c].pc = "connecting" /\ Past(c)
  BY DEF Connect, Past
<1>2. CASE GiveUp(c)
  BY <1>1, <1>2, GiveUpStep
<1>4. CASE LetGo(c) /\ UNCHANGED link
  <2>1. \A d \in Callers : ~Reading(d)
    BY <1>1, Alone DEF Past, Reading
  <2>2. link' \in Link \cup {NoClient} /\ (link' # NoClient => Lined(link', Due(link', FALSE)))
    BY <1>4, <2>1 DEF RInv, Shapes, InStep
  <2> QED
    BY <1>1, <1>4, <2>2, LetGoStep
<1>3. CASE link' = Connected /\ call' = [call EXCEPT ![c].pc = "asking"] /\ UNCHANGED holder
  <2>1. call[c] \in Called
    BY <1>1 DEF RInv, Shapes, Idle
  <2> DEFINE mine == [call[c] EXCEPT !.pc = "asking"]
  <2>2. mine \in Called /\ mine.pc = "asking" /\ mine.answers = call[c].answers
    BY <2>1 DEF Called
  <2>3. call' = [call EXCEPT ![c] = mine]
    BY <1>3
  <2>4. \A a \in mine.answers : a.to + a.behind = a.of
    BY <1>1, <2>2 DEF RInv, RepliesInStep
  <2> HIDE DEF mine
  <2> QED
    BY <1>1, <1>3, <2>2, <2>3, <2>4, GoesOn, ConnectedIsLined
<1> QED
  BY <1>2, <1>3, <1>4 DEF Connect

\* The question goes out, and its reply is due in its turn.
LEMMA QuestionGoesOut ==
  ASSUME NEW l \in Link, Lined(l, Due(l, FALSE)), NEW more, more = [l EXCEPT !.sent = @ + 1]
  PROVE  more \in Link /\ Lined(more, Due(more, TRUE))
<1>1. /\ more \in Link /\ more.sent = l.sent + 1 /\ more.skipped = l.skipped /\ more.inbox = l.inbox
      /\ more.answered = l.answered /\ more.cut = l.cut /\ l.sent \in Nat /\ l.skipped \in Nat
  BY DEF Link
<1>2. Due(more, TRUE) = Due(l, FALSE)
  BY <1>1 DEF Due
<1> QED
  BY <1>1, <1>2, SameReplies

\* The caller's own record, when it has asked and when it has its answer.
LEMMA Asked ==
  ASSUME NEW r \in Called, NEW mine, mine = [r EXCEPT !.pc = "reading", !.asked = @ + 1]
  PROVE  mine \in Called /\ mine.pc = "reading" /\ mine.answers = r.answers
<1>1. r.asked + 1 \in Nat
  BY DEF Called
<1> QED
  BY <1>1 DEF Called

LEMMA HasAnswer ==
  ASSUME NEW r \in Called, NEW a \in Answer, NEW mine,
         mine = [r EXCEPT !.pc = "asking", !.answers = @ \cup {a}]
  PROVE  mine \in Called /\ mine.pc = "asking" /\ mine.answers = r.answers \cup {a}
<1>1. r.answers \cup {a} \in SUBSET Answer
  BY DEF Called
<1> QED
  BY <1>1 DEF Called

LEMMA SendStep ==
  ASSUME RInv, NEW c \in Callers, Send(c)
  PROVE  RInv'
<1>1. call[c].pc = "asking"
  BY DEF Send
<1>2. Past(c) /\ call[c] \in Called /\ link \in Link /\ Lined(link, Due(link, FALSE))
  BY <1>1, Asking
<1>3. CASE GiveUp(c)
  BY <1>2, <1>3, GiveUpStep
<1>4. CASE /\ link' = [link EXCEPT !.sent = @ + 1]
           /\ call' = [call EXCEPT ![c].pc = "reading", ![c].asked = @ + 1]
           /\ UNCHANGED holder
  <2> DEFINE mine == [call[c] EXCEPT !.pc = "reading", !.asked = @ + 1]
  <2>1. mine \in Called /\ mine.pc = "reading" /\ mine.answers = call[c].answers
    BY <1>2, Asked
  <2>2. call' = [call EXCEPT ![c] = mine]
    BY <1>4
  <2>3. \A a \in mine.answers : a.to + a.behind = a.of
    BY <1>1, <2>1 DEF RInv, RepliesInStep
  <2>4. link' \in Link /\ Lined(link', Due(link', TRUE))
    BY <1>2, <1>4, QuestionGoesOut
  <2> HIDE DEF mine
  <2> QED
    BY <1>2, <1>4, <2>1, <2>2, <2>3, <2>4, GoesOn
<1> QED
  BY <1>3, <1>4 DEF Send

\* A question that failed: its answer has been read, or will never come.
LEMMA RefusedStep ==
  ASSUME RInv, NEW c \in Callers, Reading(c), Refused(c),
         call[c].op = "rooms" => link' \in Link /\ Lined(link', Due(link', FALSE))
  PROVE  RInv'
<1>1. Past(c) /\ call[c] \in Called
  BY WhileReading
<1>2. CASE call[c].op # "rooms"
  BY <1>1, <1>2, GiveUpStep DEF Refused
<1>3. CASE call[c].op = "rooms"
  <2> DEFINE mine == [call[c] EXCEPT !.pc = "asking"]
  <2>1. mine \in Called /\ mine.pc = "asking" /\ mine.answers = call[c].answers
    BY <1>1 DEF Called
  <2>2. call' = [call EXCEPT ![c] = mine] /\ UNCHANGED holder
    BY <1>3 DEF Refused
  <2>3. \A a \in mine.answers : a.to + a.behind = a.of
    BY <2>1 DEF RInv, RepliesInStep, Reading
  <2> HIDE DEF mine
  <2> QED
    BY <1>1, <1>3, <2>1, <2>2, <2>3, GoesOn
<1> QED
  BY <1>2, <1>3

\* What a caller that reads finds in the first packet.
LEMMA Received ==
  ASSUME RInv, NEW c \in Callers, Reading(c), link.inbox # <<>>
  PROVE  /\ Rest \in Link /\ Incoming \in Packet
         /\ Incoming.type # "reply" => Lined(Rest, Due(Rest, TRUE))
         /\ Incoming.type = "reply" => /\ Incoming.to + link.skipped = link.sent
                                       /\ Lined(Rest, Due(Rest, FALSE))
<1>1. link \in Link /\ Lined(link, Due(link, TRUE))
  BY WhileReading
<1>2. link.sent \in Nat /\ link.skipped \in Nat
  BY <1>1 DEF Link
<1>3. Due(link, TRUE) \in Int
  BY <1>2 DEF Due
<1>4. PICK rest : rest = Rest
  OBVIOUS
<1>5. rest = Read(link)
  BY <1>4 DEF Rest, Read
<1>6. rest \in Link /\ rest.sent = link.sent /\ rest.skipped = link.skipped /\ Incoming \in Packet
  BY <1>1, <1>5, PacketRead DEF Incoming
<1>7. Due(rest, TRUE) = Due(link, TRUE) /\ Due(rest, FALSE) = Due(link, TRUE) + 1
  BY <1>2, <1>6 DEF Due
<1>8. Incoming.type # "reply" => Lined(rest, Due(rest, TRUE))
  BY <1>1, <1>3, <1>5, <1>7, OtherRead DEF Incoming
<1>9. ASSUME Incoming.type = "reply"
      PROVE  Incoming.to = Due(link, TRUE) /\ Lined(rest, Due(rest, FALSE))
  <2>1. PICK due \in Int : due = Due(link, TRUE)
    BY <1>3
  <2>2. Lined(link, due) /\ Head(link.inbox).type = "reply"
    BY <1>1, <1>9, <2>1 DEF Incoming
  <2>3. Head(link.inbox).to = due /\ Lined(rest, due + 1)
    BY <1>1, <1>5, <2>2, ReplyRead
  <2> QED
    BY <1>7, <2>1, <2>3 DEF Incoming
<1>10. Incoming.type = "reply" => Incoming.to + link.skipped = link.sent
  BY <1>2, <1>9 DEF Due
<1> QED
  BY <1>4, <1>6, <1>8, <1>9, <1>10

LEMMA DropNotificationStep ==
  ASSUME RInv, NEW c \in Callers, DropNotification(c)
  PROVE  RInv'
<1>1. /\ Reading(c) /\ link.inbox # <<>> /\ Incoming.type = "notif" /\ link' = Rest
      /\ UNCHANGED <<holder, call>>
  BY DEF DropNotification, Reading
<1>2. link' \in Link /\ Lined(link', Due(link', TRUE))
  BY <1>1, Received
<1>3. Past(c) /\ call[c] \in Called
  BY <1>1, WhileReading
<1>4. call' = [call EXCEPT ![c] = call[c]]
  BY <1>1 DEF RInv, Shapes
<1>5. \A a \in call[c].answers : a.to + a.behind = a.of
  BY <1>1 DEF RInv, RepliesInStep, Reading
<1> QED
  BY <1>1, <1>2, <1>3, <1>4, <1>5, GoesOn DEF Reading

\* The reply that was due is due to whoever asks next.
LEMMA RejectPacketStep ==
  ASSUME RInv, NEW c \in Callers, RejectPacket(c)
  PROVE  RInv'
<1>1. /\ Reading(c) /\ link.inbox # <<>> /\ Incoming.type = "other" /\ Refused(c)
      /\ call[c].op = "rooms" => link' = [Rest EXCEPT !.skipped = @ + 1]
  BY DEF RejectPacket, Reading
<1>2. PICK rest : rest = Rest
  OBVIOUS
<1>3. rest \in Link /\ Lined(rest, Due(rest, TRUE))
  BY <1>1, <1>2, Received
<1>4. ASSUME NEW more, more = [rest EXCEPT !.skipped = @ + 1]
      PROVE  more \in Link /\ Lined(more, Due(more, FALSE))
  <2>1. /\ more \in Link /\ more.sent = rest.sent /\ more.skipped = rest.skipped + 1
        /\ more.inbox = rest.inbox /\ more.answered = rest.answered /\ more.cut = rest.cut
        /\ rest.sent \in Nat /\ rest.skipped \in Nat
    BY <1>3, <1>4 DEF Link
  <2>2. Due(more, FALSE) = Due(rest, TRUE)
    BY <2>1 DEF Due
  <2> QED
    BY <1>3, <2>1, <2>2, SameReplies
<1>5. call[c].op = "rooms" => link' \in Link /\ Lined(link', Due(link', FALSE))
  BY <1>1, <1>2, <1>4
<1> QED
  BY <1>1, <1>5, RefusedStep

LEMMA ReceiveReplyStep ==
  ASSUME RInv, NEW c \in Callers, ReceiveReply(c)
  PROVE  RInv'
<1>1. Reading(c) /\ link.inbox # <<>> /\ Incoming.type = "reply"
  BY DEF ReceiveReply, Reading
<1>2. Past(c) /\ call[c] \in Called /\ link \in Link
  BY <1>1, WhileReading
<1>3. /\ Rest \in Link /\ Incoming \in Packet /\ Incoming.to + link.skipped = link.sent
      /\ Lined(Rest, Due(Rest, FALSE))
  BY <1>1, Received
<1> DEFINE a == [of |-> link.sent, to |-> Incoming.to, behind |-> link.skipped]
<1>4. CASE /\ link' = Rest
           /\ call' = [call EXCEPT ![c].pc = "asking", ![c].answers = @ \cup {a}]
           /\ UNCHANGED holder
  <2>1. PICK b : b = a
    OBVIOUS
  <2>2. b \in Answer /\ b.to + b.behind = b.of
    <3>1. Incoming.to \in Nat
      BY <1>1, <1>3 DEF Packet, Notification, Unexpected
    <3>2. link.sent \in Nat /\ link.skipped \in Nat
      BY <1>2 DEF Link
    <3> QED
      BY <1>3, <2>1, <3>1, <3>2 DEF Answer
  <2>3. PICK mine : mine = [call[c] EXCEPT !.pc = "asking", !.answers = @ \cup {b}]
    OBVIOUS
  <2>4. call' = [call EXCEPT ![c] = mine]
    BY <1>4, <2>1, <2>3
  <2>5. mine \in Called /\ mine.pc = "asking" /\ mine.answers = call[c].answers \cup {b}
    BY <1>2, <2>2, <2>3, HasAnswer
  <2>6. \A d \in mine.answers : d.to + d.behind = d.of
    BY <1>1, <2>2, <2>5 DEF RInv, RepliesInStep, Reading
  <2> QED
    BY <1>2, <1>3, <1>4, <2>4, <2>5, <2>6, GoesOn
<1>5. CASE Refused(c) /\ (call[c].op = "rooms" => link' = Rest)
  BY <1>1, <1>3, <1>5, RefusedStep
<1>6. CASE LetGo(c) /\ link' = Rest
  BY <1>2, <1>3, <1>6, LetGoStep
<1> QED
  BY <1>4, <1>5, <1>6 DEF ReceiveReply

\* A search that goes on after the end of the stream gets no more replies at all.
LEMMA EndOfStreamStep ==
  ASSUME RInv, NEW c \in Callers, EndOfStream(c)
  PROVE  RInv'
<1>1. Reading(c) /\ link.inbox = <<>> /\ link.cut /\ Refused(c)
  BY DEF EndOfStream, Reading
<1>2. link \in Link /\ Lined(link, Due(link, TRUE))
  BY <1>1, WhileReading
<1>3. /\ link.sent \in Nat /\ link.skipped \in Nat /\ link.answered \in Nat
      /\ Due(link, FALSE) = Due(link, TRUE) + 1 /\ Due(link, TRUE) \in Int
  BY <1>2 DEF Link, Due
<1>4. Replies(link) = {}
  BY <1>1 DEF Replies
<1>5. ASSUME NEW due \in Int, Lined(link, due) PROVE Lined(link, due + 1)
  <2>1. \A k \in due + 1 .. link.answered : k \in due .. link.answered
    BY <1>3
  <2> QED
    BY <1>1, <1>4, <1>5, <2>1 DEF Lined
<1>6. call[c].op = "rooms" => link' = link
  BY DEF EndOfStream
<1>7. Lined(link, Due(link, FALSE))
  BY <1>2, <1>3, <1>5
<1> QED
  BY <1>1, <1>2, <1>6, <1>7, RefusedStep

LEMMA TimeOutStep ==
  ASSUME RInv, NEW c \in Callers, TimeOut(c)
  PROVE  RInv'
BY GiveUpStep DEF TimeOut, Past

LEMMA EndCallStep ==
  ASSUME RInv, NEW c \in Callers, EndCall(c)
  PROVE  RInv'
<1>1. call[c].pc = "asking" /\ LetGo(c) /\ link' = link
  BY DEF EndCall
<1> QED
  BY <1>1, Asking, LetGoStep

LEMMA StillCoolingStep ==
  ASSUME RInv, NEW c \in Callers, StillCooling(c)
  PROVE  RInv'
<1>1. call[c].pc = "connecting" /\ LetGo(c) /\ link' = link /\ Past(c)
  BY DEF StillCooling, Past
<1>2. \A d \in Callers : ~Reading(d)
  BY <1>1, Alone DEF Past, Reading
<1>3. link' \in Link \cup {NoClient} /\ (link' # NoClient => Lined(link', Due(link', FALSE)))
  BY <1>1, <1>2 DEF RInv, InStep, Shapes
<1> QED
  BY <1>1, <1>3, LetGoStep

\* A step of the session alone.
LEMMA SessionStep ==
  ASSUME RInv, UNCHANGED <<holder, call>>, link # NoClient, link' \in Link,
         \A asked \in BOOLEAN : Lined(link, Due(link, asked)) => Lined(link', Due(link', asked))
  PROVE  RInv'
<1>1. InStep'
  BY DEF RInv, InStep, Reading
<1> QED
  BY <1>1 DEF RInv, Shapes, Exclusive, RepliesInStep

LEMMA ServerStep ==
  ASSUME RInv, Server
  PROVE  RInv'
<1>1. link # NoClient /\ UNCHANGED <<holder, call>> /\ link \in Link /\ ~link.cut
  BY DEF RInv, Shapes, Server
<1>2. link.sent \in Nat /\ link.skipped \in Nat /\ \A asked \in BOOLEAN : Due(link, asked) \in Int
  BY <1>1 DEF Link, Due
<1>3. CASE link' = [link EXCEPT !.answered = @ + 1, !.inbox = Append(@, ReplyPacket(link.answered + 1))]
  <2>1. /\ link' \in Link /\ link'.sent = link.sent /\ link'.skipped = link.skipped
        /\ \A due \in Int : Lined(link, due) => Lined(link', due)
    <3>1. PICK more : more = link'
      OBVIOUS
    <3>2. more = WithReply(link)
      BY <1>3, <3>1 DEF WithReply
    <3> QED
      BY <1>1, <3>1, <3>2, AnswerArrives
  <2>2. \A asked \in BOOLEAN : Due(link', asked) = Due(link, asked)
    BY <2>1 DEF Due
  <2> QED
    BY <1>1, <1>2, <2>1, <2>2, SessionStep
<1>4. ASSUME NEW p \in {Notification, Unexpected},
             link' = [link EXCEPT !.extra = @ + 1, !.inbox = Append(@, p)]
      PROVE  RInv'
  <2>1. /\ link' \in Link /\ link'.sent = link.sent /\ link'.skipped = link.skipped
        /\ \A due \in Int : Lined(link, due) => Lined(link', due)
    <3>1. PICK more : more = link'
      OBVIOUS
    <3>2. more = WithOther(link, p)
      BY <1>4, <3>1 DEF WithOther
    <3> QED
      BY <1>1, <3>1, <3>2, OtherArrives
  <2>2. \A asked \in BOOLEAN : Due(link', asked) = Due(link, asked)
    BY <2>1 DEF Due
  <2> QED
    BY <1>1, <1>2, <2>1, <2>2, SessionStep
<1>5. CASE link' = [link EXCEPT !.cut = TRUE]
  <2>1. /\ link' \in Link /\ link'.inbox = link.inbox /\ link'.sent = link.sent /\ link'.cut
        /\ link'.skipped = link.skipped /\ link'.answered = link.answered
    BY <1>1, <1>5 DEF Link
  <2>2. \A asked \in BOOLEAN : Due(link', asked) = Due(link, asked)
    BY <2>1 DEF Due
  <2>3. \A due : Lined(link, due) => Lined(link', due)
    BY <2>1 DEF Lined, Replies
  <2> QED
    BY <1>1, <2>1, <2>2, <2>3, SessionStep
<1> QED
  BY <1>3, <1>4, <1>5 DEF Server

LEMMA ShutdownStep ==
  ASSUME RInv, Shutdown
  PROVE  RInv'
<1>1. holder = NoCaller /\ link' = NoClient /\ UNCHANGED <<holder, call>>
  BY DEF Shutdown
<1>2. \A c \in Callers : ~Past(c)
  BY <1>1, RpcnAssumption DEF RInv, Exclusive, Past
<1> QED
  BY <1>1, <1>2 DEF RInv, Shapes, Exclusive, InStep, RepliesInStep, Past

----------------------------------------------------------------------------
(* The theorem *)

\* RInv is an invariant: the lock keeps the callers apart, and whatever the server
\* and the clock do, replies come in the order of the questions, of which the next
\* caller's is as many ahead as packets were skipped.
THEOREM RInvInvariant == RSpec => []RInv
<1>1. RInv /\ [RNext]_rvars => RInv'
  <2> SUFFICES ASSUME RInv, [RNext]_rvars PROVE RInv'
    OBVIOUS
  <2>1. ASSUME NEW c \in Callers, Work(c) PROVE RInv'
    BY <2>1, EnterStep, StillCoolingStep, ConnectStep, SendStep, DropNotificationStep,
       RejectPacketStep, ReceiveReplyStep, EndOfStreamStep, TimeOutStep, EndCallStep DEF Work, Proceeds
  <2>2. ASSUME NEW c \in Callers, NEW op \in Operations, Call(c, op) PROVE RInv'
    BY <2>2, CallStep
  <2>3. CASE Clock
    BY <2>3 DEF Clock, RInv, Shapes, Exclusive, InStep, Reading, RepliesInStep
  <2>4. CASE UNCHANGED rvars
    BY <2>4 DEF rvars, RInv, Shapes, Exclusive, InStep, Reading, RepliesInStep
  <2> QED
    BY <2>1, <2>2, <2>3, <2>4, ShutdownStep, ServerStep DEF RNext
<1> QED
  BY <1>1, RpcnInit, PTL DEF RSpec

\* For any number of threads, lobbies and calls: an answer is to the question asked,
\* or as many questions older as lobby searches have swallowed unexpected packets in
\* this session; the client never looks at the number of a reply.
THEOREM RepliesStayInStep == RSpec => []RepliesInStep
<1>1. RInv => RepliesInStep
  BY DEF RInv
<1> QED
  BY <1>1, RInvInvariant, PTL

\* The lock does its work: of the callers past it there is one, and it is the
\* holder.
THEOREM OneCallerAtATime ==
  RSpec => [](\A c, d \in Callers : Past(c) /\ Past(d) => c = d)
<1>1. RInv => \A c, d \in Callers : Past(c) /\ Past(d) => c = d
  BY Alone
<1> QED
  BY <1>1, RInvInvariant, PTL

----------------------------------------------------------------------------
(* Accounts *)

Login == [user : AccountNames, admin : BOOLEAN, at : Nat]
Token == [user : AccountNames, admin : BOOLEAN, exp : Nat]

AccTypeOK ==
  /\ now \in Nat
  /\ admins \subseteq AccountNames
  /\ bannedAt \in [AccountNames -> Nat \cup {NoBan}]
  /\ logins \subseteq Login
  /\ tokens \subseteq Token
  /\ bans \subseteq [by : AccountNames, target : AccountNames]

\* Nobody is banned in the future.
BansPast == \A u \in AccountNames : Banned(u) => bannedAt[u] <= now

\* A login is waited for no longer than the timeout, and RPCN answered it before any
\* ban of its account.
LoginsFresh ==
  \A l \in logins :
    /\ l.at <= now /\ now <= l.at + ApiTimeout
    /\ Banned(l.user) => l.at <= bannedAt[l.user]

\* A token was signed at the latest one timeout after a ban of its account.
TokensTimely ==
  \A t \in tokens :
    /\ t.exp <= now + TokenTtl
    /\ Banned(t.user) => t.exp <= bannedAt[t.user] + ApiTimeout + TokenTtl

\* Nobody asks for a ban of themselves, so that whoever RPCN bans for stays.
Others == \A b \in bans : b.by # b.target

AccInv ==
  /\ AccTypeOK
  /\ BansPast
  /\ LoginsFresh
  /\ TokensTimely
  /\ Others
  /\ Active # {}

LEMMA AccInitInv == AccInit => AccInv
BY AccountsAssumption
DEF AccInit, AccInv, AccTypeOK, BansPast, LoginsFresh, TokensTimely, Others, Active, Banned

LEMMA VerifyStep ==
  ASSUME AccInv, NEW u \in AccountNames, Verify(u)
  PROVE  AccInv'
<1>1. AccTypeOK'
  <2>1. PICK role \in BOOLEAN : role <=> u \in admins
    OBVIOUS
  <2>2. (u \in admins) = role
    BY <2>1, Zenon
  <2>3. logins' = logins \cup {[user |-> u, admin |-> role, at |-> now]}
    BY <2>2, Zenon DEF Verify
  <2>4. [user |-> u, admin |-> role, at |-> now] \in Login
    BY DEF AccInv, AccTypeOK, Login
  <2>5. QED
    BY <2>3, <2>4 DEF AccInv, AccTypeOK, Verify
<1>2. LoginsFresh'
  BY AccountsAssumption DEF AccInv, AccTypeOK, LoginsFresh, Verify, Login, Banned
<1>3. QED
  BY <1>1, <1>2 DEF AccInv, Verify, BansPast, TokensTimely, Others, Active, Banned

LEMMA IssueStep ==
  ASSUME AccInv, NEW l \in logins, Issue(l)
  PROVE  AccInv'
<1>1. AccTypeOK'
  BY AccountsAssumption DEF AccInv, AccTypeOK, Issue, Login, Token
<1>2. TokensTimely'
  BY AccountsAssumption
  DEF AccInv, AccTypeOK, TokensTimely, LoginsFresh, BansPast, Issue, Login, Token, Banned
<1>3. QED
  BY <1>1, <1>2 DEF AccInv, Issue, BansPast, LoginsFresh, Others, Active, Banned

LEMMA AskBanStep ==
  ASSUME AccInv, NEW t \in tokens, NEW target \in AccountNames, AskBan(t, target)
  PROVE  AccInv'
BY DEF AccInv, AccTypeOK, AskBan, EnsureNotSelf, Token, BansPast, LoginsFresh, TokensTimely, Others,
       Active, Banned

LEMMA DecideBanStep ==
  ASSUME AccInv, NEW b \in bans, DecideBan(b)
  PROVE  AccInv'
<1>1. b \in [by : AccountNames, target : AccountNames] /\ b.by # b.target
  BY DEF AccInv, AccTypeOK, Others
<1>2. CASE b.by \in Active /\ ~Banned(b.target)
  <2>1. bannedAt' = [bannedAt EXCEPT ![b.target] = now] /\ now \in Nat /\ now' = now
    BY <1>2 DEF DecideBan, AccInv, AccTypeOK
  <2>2. \A u \in AccountNames : bannedAt'[u] = IF u = b.target THEN now ELSE bannedAt[u]
    BY <2>1 DEF AccInv, AccTypeOK
  <2>3. AccTypeOK'
    BY <2>1 DEF AccInv, AccTypeOK, DecideBan
  <2>4. BansPast' /\ LoginsFresh'
    BY <2>1, <2>2, AccountsAssumption
    DEF AccInv, AccTypeOK, BansPast, LoginsFresh, DecideBan, Banned, Login
  <2>5. TokensTimely'
    BY <2>1, <2>2, AccountsAssumption
    DEF AccInv, AccTypeOK, TokensTimely, DecideBan, Banned, Token
  <2>6. b.by \in Active'
    BY <1>1, <1>2, <2>2 DEF DecideBan, Active, Banned
  <2>7. QED
    BY <2>3, <2>4, <2>5, <2>6 DEF AccInv, Others, DecideBan
<1>3. CASE ~(b.by \in Active /\ ~Banned(b.target))
  BY <1>3
  DEF DecideBan, AccInv, AccTypeOK, BansPast, LoginsFresh, TokensTimely, Others, Active, Banned
<1>4. QED
  BY <1>2, <1>3

LEMMA PassSecondStep ==
  ASSUME AccInv, PassSecond
  PROVE  AccInv'
<1>1. AccTypeOK'
  BY DEF AccInv, AccTypeOK, PassSecond
<1>2. BansPast' /\ LoginsFresh' /\ TokensTimely'
  BY AccountsAssumption
  DEF AccInv, AccTypeOK, BansPast, LoginsFresh, TokensTimely, PassSecond, Banned, Login, Token
<1>3. QED
  BY <1>1, <1>2 DEF AccInv, PassSecond, Others, Active, Banned

LEMMA AccStep ==
  ASSUME AccInv, [AccNext]_avars
  PROVE  AccInv'
<1>1. ASSUME NEW l \in logins, LoginFails(l) PROVE AccInv'
  BY <1>1
  DEF LoginFails, AccInv, AccTypeOK, BansPast, LoginsFresh, TokensTimely, Others, Active, Banned
<1>2. ASSUME NEW u \in AccountNames, ChangeRole(u) PROVE AccInv'
  <2>1. Active' # {}
    BY <1>2 DEF ChangeRole, AccInv, Active, Banned
  <2>2. QED
    BY <1>2, <2>1
    DEF ChangeRole, AccInv, AccTypeOK, BansPast, LoginsFresh, TokensTimely, Others, Banned
<1>3. CASE UNCHANGED avars
  BY <1>3
  DEF avars, AccInv, AccTypeOK, BansPast, LoginsFresh, TokensTimely, Others, Active, Banned
<1>4. QED
  BY <1>1, <1>2, <1>3, VerifyStep, IssueStep, AskBanStep, DecideBanStep, PassSecondStep DEF AccNext

\* A token of a banned account is over one timeout and one life of a token after the
\* ban (issue_token signs an answer that RPCN may have given before it), and however
\* admins ban each other with tokens older than their role, one stays who can.
THEOREM BansTakeEffect == AccSpec => []BansHold
<1>1. AccInv => BansHold
  BY AccountsAssumption
  DEF AccInv, AccTypeOK, TokensTimely, BansHold, Valid, Banned, Token
<1>2. AccInv /\ [AccNext]_avars => AccInv'
  BY AccStep
<1>3. QED
  BY AccInitInv, <1>1, <1>2, PTL DEF AccSpec

----------------------------------------------------------------------------
(* The room list and its searching players *)

RoomIds == UNION {DOMAIN rooms : rooms \in Lists}

Begun == [pc : {"compare"}, n : Nat, alone : BOOLEAN]
Parting == [pc : {"depart", "return", "list"}, n : Nat, alone : BOOLEAN, gone : SUBSET RoomIds]
Ending == [pc : {"expire", "advance", "show"}, n : Nat, alone : BOOLEAN, listed : SUBSET Seekers]
AnsweredVisit == [pc : {"answered"}, n : Nat, alone : BOOLEAN, ok : BOOLEAN, phantoms : SUBSET Seekers]
Visiting == [pc : {"away", "miss"}] \cup Begun \cup Parting \cup Ending \cup AnsweredVisit

Steps == {"compare", "depart", "return", "list", "expire", "advance", "show"}

Observed == [rooms : Lists, at : Nat]

RoomsTypeOK ==
  /\ minute \in Nat
  /\ previous \in Lists \cup {Unseen}
  /\ DOMAIN searching \subseteq Seekers
  /\ seen \in Seq(Observed)
  /\ visit \in [Visits -> Visiting]
  /\ overlapped \in BOOLEAN
  /\ \A x \in Visits : visit[x].pc \notin {"away", "miss"} => visit[x].n \in 1 .. Len(seen)
  /\ \A x \in Visits : visit[x].pc \in Steps \ {"compare"} => previous # Unseen

\* While an update is alone no other is under way.
Apart == \A x, y \in Updating : visit[x].alone => x = y

\* What an update that is alone read of the tracker is still so, and it has taken
\* out everyone who is in a room of its list.
OnTrack ==
  \A x \in Updating : visit[x].alone =>
    /\ visit[x].pc = "depart" =>
         visit[x].gone = DOMAIN previous \ DOMAIN Rooms(x)
    /\ visit[x].pc = "expire" => visit[x].listed = DOMAIN searching
    /\ visit[x].pc \in {"list", "expire", "advance", "show"} =>
         DOMAIN searching \cap InRooms(Rooms(x)) = {}

AloneInv == RoomsTypeOK /\ Apart /\ OnTrack /\ AloneIsRight

LEMMA UpdatingIs == Updating = {x \in Visits : visit[x].pc \in Steps}
BY DEF Updating, Steps

\* What a room list is.
LEMMA ListFacts ==
  ASSUME NEW rooms \in Lists
  PROVE  /\ DOMAIN rooms \in SUBSET RoomIds
         /\ InRooms(rooms) \subseteq Seekers
         /\ \A ids \in SUBSET (DOMAIN rooms) : Departed(rooms, ids) \subseteq Seekers
BY ListsAssumption DEF RoomIds, InRooms, Departed, RankUsers

LEMMA RoomsInitInv == LInit => AloneInv
<1> SUFFICES ASSUME LInit PROVE AloneInv
  OBVIOUS
<1>1. RoomsTypeOK
  <2>1. Away \in Visiting /\ Away.pc = "away"
    BY DEF Away, Visiting
  <2>2. visit \in [Visits -> Visiting] /\ \A x \in Visits : visit[x].pc = "away"
    BY <2>1 DEF LInit
  <2>3. DOMAIN searching = {} /\ seen \in Seq(Observed)
    BY DEF LInit
  <2>4. QED
    BY <2>2, <2>3 DEF LInit, RoomsTypeOK, Steps
<1>2. Updating = {} /\ \A x \in Visits : visit[x].pc = "away"
  BY DEF LInit, Updating, Away
<1>3. QED
  BY <1>1, <1>2 DEF AloneInv, Apart, OnTrack, AloneIsRight

\* A step of one visit that is under way, on its own entry.
LEMMA OwnStep ==
  ASSUME AloneInv, NEW x \in Updating, NEW e, visit' = [visit EXCEPT ![x] = e], e \in Visiting,
         e.pc \in Steps \cup {"answered"}, e.n = visit[x].n, e.alone = visit[x].alone,
         UNCHANGED seen
  PROVE  /\ visit' \in [Visits -> Visiting]
         /\ \A y \in Visits : visit'[y].pc \notin {"away", "miss"} => visit'[y].n \in 1 .. Len(seen')
         /\ Apart'
         /\ Updating' \subseteq Updating
         /\ \A y \in Visits : y # x => visit'[y] = visit[y]
         /\ visit'[x] = e
         /\ \A y \in Updating' : visit'[y].alone => y = x
         /\ (visit'[x].pc = "answered" /\ visit'[x].alone =>
                visit'[x].ok /\ visit'[x].phantoms \cap InRooms(Rooms(x)') = {}) => AloneIsRight'
<1>1. x \in Visits /\ visit[x].pc \in Steps /\ visit[x].n \in 1 .. Len(seen)
  BY UpdatingIs DEF AloneInv, RoomsTypeOK, Steps
<1>2. /\ visit' \in [Visits -> Visiting]
      /\ \A y \in Visits : y # x => visit'[y] = visit[y]
      /\ visit'[x] = e
  BY <1>1 DEF AloneInv, RoomsTypeOK
<1>3. Updating' \subseteq Updating
  BY <1>1, <1>2 DEF Updating, Steps
<1>4. \A y \in Visits : visit'[y].pc \notin {"away", "miss"} => visit'[y].n \in 1 .. Len(seen')
  BY <1>1, <1>2 DEF AloneInv, RoomsTypeOK
<1>5. Apart'
  <2> SUFFICES ASSUME NEW y \in Updating', NEW z \in Updating', visit'[y].alone PROVE y = z
    BY DEF Apart
  <2>1. y \in Updating /\ z \in Updating /\ y \in Visits
    BY <1>3, UpdatingIs
  <2>2. visit'[y].alone = visit[y].alone
    BY <2>1, <1>2
  <2>3. QED
    BY <2>1, <2>2 DEF AloneInv, Apart
<1>6. \A y \in Updating' : visit'[y].alone => y = x
  BY <1>1, <1>2, <1>3, UpdatingIs DEF AloneInv, Apart
<1>7. ASSUME visit'[x].pc = "answered" /\ visit'[x].alone =>
               visit'[x].ok /\ visit'[x].phantoms \cap InRooms(Rooms(x)') = {},
             NEW y \in Visits, visit'[y].pc = "answered", visit'[y].alone
      PROVE  visit'[y].ok /\ visit'[y].phantoms \cap InRooms(Rooms(y)') = {}
  <2>1. CASE y = x
    BY <1>7, <2>1
  <2>2. CASE y # x
    <3>1. visit'[y] = visit[y] /\ Rooms(y)' = Rooms(y)
      BY <1>2, <2>2 DEF Rooms
    <3>2. QED
      BY <1>7, <3>1 DEF AloneInv, AloneIsRight
  <2>3. QED
    BY <2>1, <2>2
<1>8. QED
  BY <1>2, <1>3, <1>4, <1>5, <1>6, <1>7 DEF AloneIsRight

\* What an update that is under way has.
LEMMA Shape ==
  ASSUME RoomsTypeOK, NEW x \in Visits
  PROVE  /\ visit[x].pc = "compare" => visit[x] \in Begun
         /\ visit[x].pc \in {"depart", "return", "list"} => visit[x] \in Parting
         /\ visit[x].pc \in {"expire", "advance", "show"} => visit[x] \in Ending
         /\ visit[x].pc = "answered" => visit[x] \in AnsweredVisit
BY DEF RoomsTypeOK, Visiting, Begun, Parting, Ending, AnsweredVisit

LEMMA UpdateFacts ==
  ASSUME RoomsTypeOK, NEW x \in Visits, visit[x].pc \in Steps
  PROVE  /\ x \in Updating
         /\ visit[x].n \in 1 .. Len(seen) /\ visit[x].n \in Nat
         /\ visit[x].alone \in BOOLEAN
         /\ Rooms(x) \in Lists /\ At(x) \in Nat
<1>1. x \in Updating
  BY UpdatingIs
<1>2. visit[x].alone \in BOOLEAN
  <2>1. CASE visit[x] \in Begun
    BY <2>1 DEF Begun
  <2>2. CASE visit[x] \in Parting
    BY <2>2 DEF Parting
  <2>3. CASE visit[x] \in Ending
    BY <2>3 DEF Ending
  <2>4. QED
    BY <2>1, <2>2, <2>3, Shape DEF Steps
<1>3. visit[x].n \in 1 .. Len(seen) /\ visit[x].n \in Nat
  BY DEF RoomsTypeOK, Steps
<1>4. seen[visit[x].n] \in Observed
  <2>1. seen \in Seq(Observed)
    BY DEF RoomsTypeOK
  <2>2. \A s \in Seq(Observed) : \A n \in 1 .. Len(s) : s[n] \in Observed
    OBVIOUS
  <2>3. QED
    BY <1>3, <2>1, <2>2
<1>5. QED
  BY <1>1, <1>2, <1>3, <1>4 DEF Rooms, At, Observed

\* A step of an update keeps the invariant if it keeps what the update may rely on.
LEMMA Move ==
  ASSUME AloneInv, NEW x \in Visits, visit[x].pc \in Steps,
         NEW e, visit' = [visit EXCEPT ![x] = e], e \in Visiting,
         e.pc \in (Steps \ {"compare"}) \cup {"answered"},
         e.n = visit[x].n, e.alone = visit[x].alone,
         UNCHANGED <<minute, seen, overlapped>>, DOMAIN searching' \subseteq Seekers,
         previous' \in Lists \cup {Unseen}, previous # Unseen \/ e.pc # "answered" => previous' # Unseen,
         e.alone /\ e.pc = "depart" => e.gone = DOMAIN previous' \ DOMAIN Rooms(x),
         e.alone /\ e.pc = "expire" => e.listed = DOMAIN searching',
         e.alone /\ e.pc \in {"list", "expire", "advance", "show"} =>
           DOMAIN searching' \cap InRooms(Rooms(x)) = {},
         e.alone /\ e.pc = "answered" => e.ok /\ e.phantoms \cap InRooms(Rooms(x)) = {}
  PROVE  AloneInv'
<1>1. x \in Updating
  BY UpdatingIs
<1>2. /\ visit' \in [Visits -> Visiting]
      /\ \A y \in Visits : visit'[y].pc \notin {"away", "miss"} => visit'[y].n \in 1 .. Len(seen')
      /\ Apart'
      /\ visit'[x] = e
      /\ \A y \in Visits : y # x => visit'[y] = visit[y]
      /\ \A y \in Updating' : visit'[y].alone => y = x
  BY <1>1, OwnStep
<1>3. Rooms(x)' = Rooms(x)
  BY <1>2 DEF Rooms
<1>4. RoomsTypeOK'
  <2>1. \A y \in Visits : visit'[y].pc \in Steps \ {"compare"} => previous' # Unseen
    BY <1>2 DEF AloneInv, RoomsTypeOK, Steps
  <2>2. QED
    BY <1>2, <2>1 DEF AloneInv, RoomsTypeOK
<1>5. OnTrack'
  <2> SUFFICES ASSUME NEW y \in Updating', visit'[y].alone
               PROVE /\ visit'[y].pc = "depart" =>
                          visit'[y].gone = DOMAIN previous' \ DOMAIN Rooms(y)'
                     /\ visit'[y].pc = "expire" => visit'[y].listed = DOMAIN searching'
                     /\ visit'[y].pc \in {"list", "expire", "advance", "show"} =>
                          DOMAIN searching' \cap InRooms(Rooms(y)') = {}
    BY DEF OnTrack
  <2>1. y = x
    BY <1>2
  <2>2. Rooms(y)' = Rooms(x) /\ visit'[y] = e
    BY <2>1, <1>2, <1>3
  <2>3. QED
    BY <2>2
<1>6. AloneIsRight'
  <2>1. visit'[x].pc = "answered" /\ visit'[x].alone =>
          visit'[x].ok /\ visit'[x].phantoms \cap InRooms(Rooms(x)') = {}
    BY <1>2, <1>3
  <2>2. QED
    BY <2>1, <1>1, OwnStep
<1>7. QED
  BY <1>2, <1>4, <1>5, <1>6 DEF AloneInv

\* Going on to another statement.
LEMMA GoOn ==
  ASSUME RoomsTypeOK, NEW x \in Visits, visit[x].pc \in Steps, NEW pc, Go(x, pc),
         \/ visit[x].pc \in {"depart", "return"} /\ pc \in {"return", "list"}
         \/ visit[x].pc \in {"expire", "advance"} /\ pc \in {"advance", "show"}
  PROVE  \E e \in Visiting : /\ visit' = [visit EXCEPT ![x] = e]
                             /\ e.pc = pc /\ e.n = visit[x].n /\ e.alone = visit[x].alone
<1> DEFINE e == [visit[x] EXCEPT !.pc = pc]
<1>1. visit' = [visit EXCEPT ![x] = e]
  BY DEF Go
<1>2. CASE visit[x].pc \in {"depart", "return"}
  <2>1. visit[x] \in Parting /\ pc \in {"return", "list"}
    BY <1>2, Shape
  <2>2. e \in Visiting /\ e.pc = pc /\ e.n = visit[x].n /\ e.alone = visit[x].alone
    BY <2>1 DEF Visiting, Parting
  <2>3. QED
    BY <1>1, <2>2
<1>3. CASE visit[x].pc \in {"expire", "advance"}
  <2>1. visit[x] \in Ending /\ pc \in {"advance", "show"}
    BY <1>3, Shape
  <2>2. e \in Visiting /\ e.pc = pc /\ e.n = visit[x].n /\ e.alone = visit[x].alone
    BY <2>1 DEF Visiting, Ending
  <2>3. QED
    BY <1>1, <2>2
<1>4. QED
  BY <1>2, <1>3

LEMMA AnswerIs ==
  ASSUME RoomsTypeOK, NEW x \in Visits, visit[x].pc \in Steps,
         NEW phantoms \in SUBSET Seekers, NEW ok \in BOOLEAN, AnswerVisit(x, phantoms, ok)
  PROVE  \E e \in Visiting : /\ visit' = [visit EXCEPT ![x] = e]
                             /\ e.pc = "answered" /\ e.n = visit[x].n /\ e.alone = visit[x].alone
                             /\ e.ok = ok /\ e.phantoms = phantoms
<1> DEFINE e == [pc |-> "answered", n |-> visit[x].n, alone |-> visit[x].alone,
                 ok |-> ok, phantoms |-> phantoms]
<1>1. visit' = [visit EXCEPT ![x] = e]
  BY DEF AnswerVisit
<1>2. e \in Visiting
  BY UpdateFacts DEF Visiting, AnsweredVisit
<1>3. QED
  BY <1>1, <1>2

LEMMA CompareStep ==
  ASSUME AloneInv, NEW x \in Visits, CompareLists(x)
  PROVE  AloneInv'
<1>1. RoomsTypeOK /\ visit[x].pc \in Steps /\ Rooms(x) \in Lists /\ visit[x].n \in Nat
      /\ visit[x].alone \in BOOLEAN
  BY UpdateFacts DEF CompareLists, AloneInv, Steps
<1>2. CASE previous = Unseen
  <2>1. AnswerVisit(x, {}, TRUE) /\ previous' = Rooms(x)
        /\ UNCHANGED <<minute, seen, overlapped, searching>>
    BY <1>2 DEF CompareLists
  <2>2. PICK e \in Visiting : /\ visit' = [visit EXCEPT ![x] = e]
                              /\ e.pc = "answered" /\ e.n = visit[x].n /\ e.alone = visit[x].alone
                              /\ e.ok = TRUE /\ e.phantoms = {}
    BY <1>1, <2>1, AnswerIs
  <2>3. previous' # Unseen
    BY <1>1, <2>1, LiveRoomsAssumption
  <2>4. QED
    BY <1>1, <2>1, <2>2, <2>3, Move DEF AloneInv, RoomsTypeOK
<1>3. CASE previous # Unseen
  <2> DEFINE e == [pc |-> "depart", n |-> visit[x].n, alone |-> visit[x].alone,
                   gone |-> DOMAIN previous \ DOMAIN Rooms(x)]
  <2>1. visit' = [visit EXCEPT ![x] = e] /\ UNCHANGED <<minute, seen, overlapped, searching, previous>>
    BY <1>3 DEF CompareLists
  <2>2. e \in Visiting /\ e.pc = "depart" /\ e.n = visit[x].n /\ e.alone = visit[x].alone
        /\ e.gone = DOMAIN previous \ DOMAIN Rooms(x)
    BY <1>1, <1>3, ListFacts DEF Visiting, Parting, RoomsTypeOK
  <2> HIDE DEF e
  <2>3. QED
    BY <1>1, <1>3, <2>1, <2>2, Move DEF AloneInv, RoomsTypeOK, Steps
<1>4. QED
  BY <1>2, <1>3

LEMMA DepartStep ==
  ASSUME AloneInv, NEW x \in Visits, Depart(x)
  PROVE  AloneInv'
<1> DEFINE gone == visit[x].gone
           sent(ids) == [p \in DOMAIN searching \cup Departed(previous, ids) |->
                           IF p \in Departed(previous, ids) THEN At(x) ELSE searching[p]]
<1>1. RoomsTypeOK /\ visit[x].pc = "depart" /\ visit[x].pc \in Steps
      /\ UNCHANGED <<minute, seen, overlapped, previous>> /\ previous \in Lists
  BY DEF Depart, AloneInv, RoomsTypeOK, Steps
<1>2. visit[x].alone => gone \subseteq DOMAIN previous
  BY <1>1, UpdateFacts DEF AloneInv, OnTrack
<1>3. \A ids \in SUBSET DOMAIN previous : DOMAIN sent(ids) \subseteq Seekers
  BY <1>1, ListFacts DEF RoomsTypeOK
<1>4. \/ gone \subseteq DOMAIN previous /\ searching' = sent(gone) /\ Go(x, "return")
      \/ /\ ~gone \subseteq DOMAIN previous
         /\ \E done \in SUBSET (gone \cap DOMAIN previous) : searching' = sent(done)
         /\ AnswerVisit(x, {}, FALSE)
  BY DEF Depart
<1>5. CASE gone \subseteq DOMAIN previous /\ searching' = sent(gone) /\ Go(x, "return")
  <2>1. DOMAIN searching' \subseteq Seekers
    BY <1>3, <1>5
  <2>2. PICK e \in Visiting : /\ visit' = [visit EXCEPT ![x] = e]
                              /\ e.pc = "return" /\ e.n = visit[x].n /\ e.alone = visit[x].alone
    BY <1>1, <1>5, GoOn
  <2> HIDE DEF gone, sent
  <2>3. QED
    BY <1>1, <2>1, <2>2, Move, LiveRoomsAssumption DEF Steps
<1>6. CASE /\ ~gone \subseteq DOMAIN previous
           /\ \E done \in SUBSET (gone \cap DOMAIN previous) : searching' = sent(done)
           /\ AnswerVisit(x, {}, FALSE)
  <2>1. DOMAIN searching' \subseteq Seekers
    BY <1>3, <1>6
  <2>4. AnswerVisit(x, {}, FALSE) /\ {} \in SUBSET Seekers /\ FALSE \in BOOLEAN
    BY <1>6
  <2> HIDE DEF gone, sent
  <2>2. PICK e \in Visiting : /\ visit' = [visit EXCEPT ![x] = e]
                              /\ e.pc = "answered" /\ e.n = visit[x].n /\ e.alone = visit[x].alone
                              /\ e.ok = FALSE /\ e.phantoms = {}
    BY <1>1, <2>4, AnswerIs
  <2>3. ~visit[x].alone
    BY <1>2, <1>6
  <2>5. QED
    BY <1>1, <2>1, <2>2, <2>3, Move, LiveRoomsAssumption DEF Steps
<1>7. QED
  BY <1>4, <1>5, <1>6

LEMMA ReturnStep ==
  ASSUME AloneInv, NEW x \in Visits, Return(x)
  PROVE  AloneInv'
<1>1. RoomsTypeOK /\ visit[x].pc = "return" /\ visit[x].pc \in Steps
      /\ UNCHANGED <<minute, seen, overlapped, previous>> /\ previous # Unseen
  BY DEF Return, AloneInv, RoomsTypeOK, Steps
<1>2. DOMAIN searching' \subseteq Seekers /\ DOMAIN searching' \cap InRooms(Rooms(x)) = {}
  BY <1>1 DEF Return, Without, RoomsTypeOK
<1>3. PICK e \in Visiting : /\ visit' = [visit EXCEPT ![x] = e]
                            /\ e.pc = "list" /\ e.n = visit[x].n /\ e.alone = visit[x].alone
  BY <1>1, GoOn DEF Return
<1>4. QED
  BY <1>1, <1>2, <1>3, Move DEF RoomsTypeOK, Steps

LEMMA ListStep ==
  ASSUME AloneInv, NEW x \in Visits, List(x)
  PROVE  AloneInv'
<1> DEFINE e == [pc |-> "expire", n |-> visit[x].n, alone |-> visit[x].alone,
                 listed |-> DOMAIN searching]
<1>1. RoomsTypeOK /\ visit[x].pc = "list" /\ visit[x].pc \in Steps
      /\ UNCHANGED <<minute, seen, overlapped, previous, searching>> /\ previous # Unseen
      /\ visit' = [visit EXCEPT ![x] = e]
  BY DEF List, AloneInv, RoomsTypeOK, Steps
<1>2. e \in Visiting /\ e.pc = "expire" /\ e.n = visit[x].n /\ e.alone = visit[x].alone
      /\ e.listed = DOMAIN searching
  BY <1>1, UpdateFacts DEF RoomsTypeOK, Visiting, Ending
<1> HIDE DEF e
<1>3. visit[x].alone => DOMAIN searching \cap InRooms(Rooms(x)) = {}
  BY <1>1, UpdateFacts DEF AloneInv, OnTrack
<1>4. QED
  BY <1>1, <1>2, <1>3, Move DEF RoomsTypeOK, Steps

LEMMA ExpireStep ==
  ASSUME AloneInv, NEW x \in Visits, Expire(x)
  PROVE  AloneInv'
<1> DEFINE listed == visit[x].listed
           here == listed \cap DOMAIN searching
           old == {p \in here : At(x) > searching[p] + SEARCH_TTL}
<1>1. RoomsTypeOK /\ visit[x].pc = "expire" /\ visit[x].pc \in Steps
      /\ UNCHANGED <<minute, seen, overlapped, previous>> /\ previous # Unseen
  BY DEF Expire, AloneInv, RoomsTypeOK, Steps
<1>2. visit[x].alone => DOMAIN searching \cap InRooms(Rooms(x)) = {} /\ listed = here
  BY <1>1, UpdateFacts DEF AloneInv, OnTrack
<1>3. DOMAIN searching' \subseteq DOMAIN searching
  BY DEF Expire, Without
<1>4. DOMAIN searching' \subseteq Seekers
  BY <1>1, <1>3 DEF RoomsTypeOK
<1>5. \/ listed = here /\ Go(x, "advance")
      \/ listed # here /\ AnswerVisit(x, {}, FALSE)
  BY DEF Expire
<1>6. CASE listed = here /\ Go(x, "advance")
  <2>1. PICK e \in Visiting : /\ visit' = [visit EXCEPT ![x] = e]
                              /\ e.pc = "advance" /\ e.n = visit[x].n /\ e.alone = visit[x].alone
    BY <1>1, <1>6, GoOn
  <2>2. QED
    BY <1>1, <1>2, <1>3, <1>4, <2>1, Move DEF RoomsTypeOK, Steps
<1>7. CASE listed # here /\ AnswerVisit(x, {}, FALSE)
  <2>1. AnswerVisit(x, {}, FALSE) /\ {} \in SUBSET Seekers /\ FALSE \in BOOLEAN /\ ~visit[x].alone
    BY <1>2, <1>7
  <2>2. PICK e \in Visiting : /\ visit' = [visit EXCEPT ![x] = e]
                              /\ e.pc = "answered" /\ e.n = visit[x].n /\ e.alone = visit[x].alone
                              /\ e.ok = FALSE /\ e.phantoms = {}
    BY <1>1, <2>1, AnswerIs
  <2>3. QED
    BY <1>1, <1>4, <2>1, <2>2, Move DEF RoomsTypeOK, Steps
<1>8. QED
  BY <1>5, <1>6, <1>7

LEMMA AdvanceStep ==
  ASSUME AloneInv, NEW x \in Visits, AdvancePrevious(x)
  PROVE  AloneInv'
<1>1. RoomsTypeOK /\ visit[x].pc = "advance" /\ visit[x].pc \in Steps
      /\ UNCHANGED <<minute, seen, overlapped, searching>>
  BY DEF AdvancePrevious, AloneInv, Steps
<1>2. previous' \in Lists /\ previous' # Unseen
  BY <1>1, UpdateFacts, LiveRoomsAssumption DEF AdvancePrevious
<1>3. visit[x].alone => DOMAIN searching \cap InRooms(Rooms(x)) = {}
  BY <1>1, UpdateFacts DEF AloneInv, OnTrack
<1>4. PICK e \in Visiting : /\ visit' = [visit EXCEPT ![x] = e]
                            /\ e.pc = "show" /\ e.n = visit[x].n /\ e.alone = visit[x].alone
  BY <1>1, GoOn DEF AdvancePrevious
<1>5. QED
  BY <1>1, <1>2, <1>3, <1>4, Move DEF RoomsTypeOK, Steps

LEMMA ShowStep ==
  ASSUME AloneInv, NEW x \in Visits, Show(x)
  PROVE  AloneInv'
<1>1. RoomsTypeOK /\ visit[x].pc = "show" /\ visit[x].pc \in Steps /\ previous # Unseen
      /\ UNCHANGED <<minute, seen, overlapped, searching, previous>>
  BY DEF Show, AloneInv, RoomsTypeOK, Steps
<1>2. x \in Updating
      /\ (visit[x].alone => DOMAIN searching \cap InRooms(Rooms(x)) = {} /\ Updating = {x})
  BY <1>1, UpdateFacts DEF AloneInv, OnTrack, Apart
<1>3. CASE AnswerVisit(x, DOMAIN searching, TRUE)
  <2>3. DOMAIN searching \in SUBSET Seekers /\ TRUE \in BOOLEAN
    BY <1>1 DEF RoomsTypeOK
  <2>1. PICK e \in Visiting : /\ visit' = [visit EXCEPT ![x] = e]
                              /\ e.pc = "answered" /\ e.n = visit[x].n /\ e.alone = visit[x].alone
                              /\ e.ok = TRUE /\ e.phantoms = DOMAIN searching
    BY <1>1, <1>3, <2>3, AnswerIs
  <2>2. QED
    BY <1>1, <1>2, <2>1, Move DEF RoomsTypeOK, Steps
<1>4. CASE Updating # {x} /\ AnswerVisit(x, {}, FALSE)
  <2>1. AnswerVisit(x, {}, FALSE) /\ {} \in SUBSET Seekers /\ FALSE \in BOOLEAN /\ ~visit[x].alone
    BY <1>2, <1>4
  <2>2. PICK e \in Visiting : /\ visit' = [visit EXCEPT ![x] = e]
                              /\ e.pc = "answered" /\ e.n = visit[x].n /\ e.alone = visit[x].alone
                              /\ e.ok = FALSE /\ e.phantoms = {}
    BY <1>1, <2>1, AnswerIs
  <2>3. QED
    BY <1>1, <2>1, <2>2, Move DEF RoomsTypeOK, Steps
<1>5. QED
  BY <1>3, <1>4 DEF Show

LEMMA VisitStep ==
  ASSUME AloneInv, NEW x \in Visits, Visit(x)
  PROVE  AloneInv'
<1>1. PICK e \in [pc : {"away", "miss"}] : visit' = [visit EXCEPT ![x] = e]
  BY DEF Visit, Away
<1>2. visit' \in [Visits -> Visiting] /\ visit'[x] = e /\ \A y \in Visits : y # x => visit'[y] = visit[y]
  BY <1>1 DEF AloneInv, RoomsTypeOK, Visiting
<1>3. e.pc \notin Steps /\ e.pc # "answered" /\ e.pc \in {"away", "miss"}
  BY DEF Steps
<1>4. /\ UNCHANGED <<minute, previous, searching, seen, overlapped>>
      /\ Updating' = Updating \ {x}
  BY <1>2, <1>3, UpdatingIs DEF Visit, Updating, Steps
<1>5. RoomsTypeOK'
  BY <1>2, <1>3, <1>4 DEF AloneInv, RoomsTypeOK
<1>6. Apart' /\ OnTrack'
  <2>1. \A y \in Updating' : y \in Updating /\ visit'[y] = visit[y] /\ Rooms(y)' = Rooms(y)
    BY <1>2, <1>4, UpdatingIs DEF Rooms
  <2>2. QED
    BY <2>1, <1>4 DEF AloneInv, Apart, OnTrack
<1>7. AloneIsRight'
  <2>1. \A y \in Visits : y # x => visit'[y] = visit[y] /\ Rooms(y)' = Rooms(y)
    BY <1>2, <1>4 DEF Rooms
  <2>2. QED
    BY <2>1, <1>2, <1>3 DEF AloneInv, AloneIsRight
<1>8. QED
  BY <1>5, <1>6, <1>7 DEF AloneInv

LEMMA FetchStep ==
  ASSUME AloneInv, NEW x \in Visits, Fetch(x)
  PROVE  AloneInv'
<1>1. PICK rooms \in Lists : seen' = Append(seen, [rooms |-> rooms, at |-> minute])
  BY DEF Fetch
<1>2. PICK b \in BOOLEAN : b <=> Updating = {}
  OBVIOUS
<1>3. (Updating = {}) = b
  BY <1>2, Zenon
<1> DEFINE fresh1 == [pc |-> "compare", n |-> Len(seen) + 1, alone |-> b]
           other(y) == IF y \in Updating THEN [visit[y] EXCEPT !.alone = FALSE] ELSE visit[y]
<1>4. RoomsTypeOK /\ visit[x].pc = "miss" /\ x \notin Updating
      /\ UNCHANGED <<minute, previous, searching>>
  BY UpdatingIs DEF Fetch, AloneInv, Steps
<1>5. seen \in Seq(Observed) /\ seen' \in Seq(Observed) /\ Len(seen') = Len(seen) + 1 /\ Len(seen) \in Nat
      /\ \A i \in 1 .. Len(seen) : seen'[i] = seen[i]
  <2>1. [rooms |-> rooms, at |-> minute] \in Observed
    BY <1>4 DEF RoomsTypeOK, Observed
  <2>2. \A s \in Seq(Observed) : \A o \in Observed :
          /\ Append(s, o) \in Seq(Observed) /\ Len(Append(s, o)) = Len(s) + 1 /\ Len(s) \in Nat
          /\ \A i \in 1 .. Len(s) : Append(s, o)[i] = s[i]
    OBVIOUS
  <2>3. QED
    BY <1>1, <1>4, <2>1, <2>2 DEF RoomsTypeOK
<1>6. visit' = [y \in Visits |-> IF y = x THEN fresh1 ELSE other(y)]
  <2>1. PICK e : e = [pc |-> "compare", n |-> Len(seen) + 1, alone |-> Updating = {}]
    OBVIOUS
  <2>2. e = fresh1
    BY <1>3, <2>1, Zenon
  <2>3. visit' = [y \in Visits |-> IF y = x THEN e ELSE other(y)]
    BY <2>1, <1>4 DEF Fetch
  <2>4. QED
    BY <2>2, <2>3
<1>7. ASSUME NEW y \in Visits
      PROVE  other(y) \in Visiting /\ other(y).pc = visit[y].pc
             /\ (visit[y].pc \notin {"away", "miss"} => other(y).n = visit[y].n)
             /\ (y \in Updating => ~other(y).alone) /\ (y \notin Updating => other(y) = visit[y])
  <2>1. CASE visit[y] \in Begun
    BY <2>1, UpdatingIs, <1>7 DEF Begun, Visiting, Steps
  <2>2. CASE visit[y] \in Parting
    BY <2>2, UpdatingIs, <1>7 DEF Parting, Visiting, Steps
  <2>3. CASE visit[y] \in Ending
    BY <2>3, UpdatingIs, <1>7 DEF Ending, Visiting, Steps
  <2>4. CASE y \notin Updating
    BY <2>4, <1>4, <1>7 DEF RoomsTypeOK
  <2>5. QED
    BY <2>1, <2>2, <2>3, <2>4, Shape, <1>4, UpdatingIs DEF Steps
<1>8. fresh1 \in Visiting /\ fresh1.pc = "compare" /\ fresh1.n = Len(seen) + 1 /\ fresh1.alone = b
  BY <1>5 DEF Visiting, Begun
<1> HIDE DEF fresh1, other
<1>9. visit' \in [Visits -> Visiting] /\ visit'[x] = fresh1
      /\ \A y \in Visits : y # x => visit'[y] = other(y)
  BY <1>6, <1>7, <1>8
<1>10. RoomsTypeOK'
  <2>1. \A y \in Visits : visit'[y].pc \notin {"away", "miss"} => visit'[y].n \in 1 .. Len(seen')
    BY <1>4, <1>5, <1>7, <1>8, <1>9 DEF RoomsTypeOK
  <2>2. \A y \in Visits : visit'[y].pc \in Steps \ {"compare"} => previous' # Unseen
    BY <1>4, <1>7, <1>8, <1>9 DEF RoomsTypeOK
  <2>3. overlapped' \in BOOLEAN
    BY DEF Fetch
  <2>4. QED
    BY <1>4, <1>5, <1>9, <2>1, <2>2, <2>3 DEF RoomsTypeOK
<1>11. Updating' = Updating \cup {x}
  <2>1. \A y \in Visits : visit'[y].pc \in Steps <=> y = x \/ visit[y].pc \in Steps
    BY <1>4, <1>7, <1>8, <1>9 DEF Steps
  <2>2. QED
    BY <2>1, UpdatingIs DEF Updating, Steps
<1>12. Apart' /\ OnTrack'
  <2>1. \A y \in Updating' : visit'[y].alone => y = x /\ Updating = {}
    BY <1>2, <1>7, <1>8, <1>9, <1>11, UpdatingIs
  <2>2. visit'[x].pc = "compare"
    BY <1>8, <1>9
  <2>3. QED
    BY <2>1, <2>2, <1>11 DEF Apart, OnTrack
<1>13. AloneIsRight'
  <2> SUFFICES ASSUME NEW y \in Visits, visit'[y].pc = "answered", visit'[y].alone
               PROVE  visit'[y].ok /\ visit'[y].phantoms \cap InRooms(Rooms(y)') = {}
    BY DEF AloneIsRight
  <2>1. y # x
    BY <1>8, <1>9
  <2>2. visit[y].pc = "answered" /\ y \notin Updating
    BY <2>1, <1>7, <1>9, UpdatingIs DEF Steps
  <2>3. visit'[y] = visit[y] /\ visit[y].n \in 1 .. Len(seen)
    BY <2>1, <2>2, <1>4, <1>7, <1>9 DEF RoomsTypeOK
  <2>4. Rooms(y)' = Rooms(y)
    BY <2>3, <1>5 DEF Rooms
  <2>5. QED
    BY <2>2, <2>3, <2>4 DEF AloneInv, AloneIsRight
<1>14. QED
  BY <1>10, <1>12, <1>13 DEF AloneInv

LEMMA RoomsStep ==
  ASSUME AloneInv, [LNext]_roomvars
  PROVE  AloneInv'
<1>1. CASE PassTime
  BY <1>1 DEF PassTime, AloneInv, RoomsTypeOK, Apart, OnTrack, AloneIsRight, Updating, Rooms
<1>2. CASE UNCHANGED roomvars
  BY <1>2 DEF roomvars, AloneInv, RoomsTypeOK, Apart, OnTrack, AloneIsRight, Updating, Rooms
<1>3. QED
  BY <1>1, <1>2, VisitStep, FetchStep, CompareStep, DepartStep, ReturnStep, ListStep, ExpireStep,
     AdvanceStep, ShowStep DEF LNext

LEMMA AloneInvAlways == LSpec => []AloneInv
BY RoomsInitInv, RoomsStep, PTL DEF LSpec

\* For any number of visits and any lists: an update of the tracker that no other
\* overlapped does not raise and shows nobody both in a room and as searching, even
\* when earlier updates overlapped and left _prev_rooms and _searching_players in a
\* state that no single update produces.
THEOREM UpdatesAloneAreRight == LSpec => []AloneIsRight
<1>1. AloneInv => AloneIsRight
  BY DEF AloneInv
<1>2. QED
  BY <1>1, AloneInvAlways, PTL

----------------------------------------------------------------------------
(* What the tracker remembers, as long as updates do not overlap.  s is the
   lists so far, f the players that are searching and since when. *)

\* Who is in a rank room of the k-th list that the next does not have.
Left(s, k) == Departed(s[k].rooms, DOMAIN s[k].rooms \ DOMAIN s[k + 1].rooms)

Since(s, p, k, n) == p \in Left(s, k) /\ \A j \in k + 1 .. n : p \notin InRooms(s[j].rooms)

\* f holds the departures among the first m lists of those not back by the n-th,
\* that were not over at the i-th.
Tracked(s, f, m, n, i) ==
  /\ \A p \in Seekers :
       p \in DOMAIN f <=> \E k \in 1 .. m - 1 : Since(s, p, k, n) /\ s[i].at <= s[k + 1].at + SEARCH_TTL
  /\ \A p \in DOMAIN f : \A k \in 1 .. m - 1 : Since(s, p, k, n) => f[p] = s[k + 1].at

InOrder(s) == \A i, j \in 1 .. Len(s) : i <= j => s[i].at <= s[j].at

Last(s, n) == previous = IF n = 0 THEN Unseen ELSE s[n].rooms

\* How far an update has brought the tracker.
Stage(pc, s, f, n) ==
  /\ pc # "compare" => n > 1
  /\ pc \in {"compare", "depart"} => Tracked(s, f, n - 1, n - 1, n - 1)
  /\ pc = "return" => Tracked(s, f, n, n - 1, n - 1)
  /\ pc \in {"list", "expire"} => Tracked(s, f, n, n, n - 1)
  /\ pc \in {"advance", "show"} => Tracked(s, f, n, n, n)
  /\ Last(s, IF pc = "show" THEN n ELSE n - 1)

OneByOne ==
  ~overlapped =>
    /\ \A x \in Updating : visit[x].alone /\ visit[x].n = Len(seen)
                           /\ Stage(visit[x].pc, seen, searching, Len(seen))
    /\ Updating = {} => Tracked(seen, searching, Len(seen), Len(seen), Len(seen)) /\ Last(seen, Len(seen))

PhantomInv ==
  /\ AloneInv
  /\ InOrder(seen) /\ \A i \in 1 .. Len(seen) : seen[i].at <= minute
  /\ OneByOne
  /\ PhantomsExplained

LEMMA SeenFacts ==
  ASSUME NEW s \in Seq(Observed), NEW i \in 1 .. Len(s)
  PROVE  s[i].rooms \in Lists /\ s[i].at \in Nat /\ Len(s) \in Nat
<1>1. s[i] \in Observed
  OBVIOUS
<1>2. QED
  BY <1>1 DEF Observed

LEMMA LeftFacts ==
  ASSUME NEW s \in Seq(Observed), NEW k \in 1 .. Len(s) - 1
  PROVE  Left(s, k) \subseteq Seekers /\ Left(s, k) \subseteq InRooms(s[k].rooms)
<1>1. s[k].rooms \in Lists
  BY SeenFacts
<1>2. QED
  BY <1>1, ListFacts DEF Left, Departed, RankUsers, InRooms

\* A list more changes nothing of what is said of the lists before it.
LEMMA TrackedLonger ==
  ASSUME NEW s \in Seq(Observed), NEW r \in Seq(Observed), NEW f, NEW n \in 0 .. Len(s),
         \A i \in 1 .. Len(s) : r[i] = s[i], Tracked(s, f, n, n, n)
  PROVE  Tracked(r, f, n, n, n)
<1>1. ASSUME NEW p, NEW k \in 1 .. n - 1 PROVE Since(r, p, k, n) <=> Since(s, p, k, n)
  <2>0. Len(s) \in Nat
    OBVIOUS
  <2>1. k \in 1 .. Len(s) /\ k + 1 \in 1 .. Len(s) /\ \A j \in k + 1 .. n : j \in 1 .. Len(s)
    BY <2>0
  <2>4. r[k] = s[k] /\ r[k + 1] = s[k + 1] /\ \A j \in k + 1 .. n : r[j] = s[j]
    BY <2>1
  <2>2. Left(r, k) = Left(s, k)
    BY <2>4 DEF Left
  <2>3. QED
    BY <2>4, <2>2 DEF Since
<1>2. \A k \in 1 .. n - 1 : r[k + 1] = s[k + 1] /\ r[n] = s[n]
  OBVIOUS
<1>3. QED
  BY <1>1, <1>2 DEF Tracked

LEMMA TrackedDepart ==
  ASSUME NEW s \in Seq(Observed), InOrder(s), NEW n \in 2 .. Len(s), NEW f, NEW g,
         Tracked(s, f, n - 1, n - 1, n - 1),
         g = [p \in DOMAIN f \cup Left(s, n - 1) |-> IF p \in Left(s, n - 1) THEN s[n].at ELSE f[p]]
  PROVE  Tracked(s, g, n, n - 1, n - 1)
<1>1. n - 1 \in 1 .. Len(s) - 1 /\ n - 1 \in 1 .. Len(s) /\ s[n].at \in Nat /\ s[n - 1].at \in Nat
      /\ s[n - 1].at <= s[n].at
  BY SeenFacts DEF InOrder
<1>2. \A p : Since(s, p, n - 1, n - 1) <=> p \in Left(s, n - 1)
  BY DEF Since
<1>3. \A p \in Left(s, n - 1) : \A k \in 1 .. n - 2 : ~Since(s, p, k, n - 1)
  BY <1>1, LeftFacts DEF Since
<1>4. \A k : k \in 1 .. n - 1 <=> k = n - 1 \/ k \in 1 .. (n - 1) - 1
  OBVIOUS
<1>5. (n - 1) + 1 = n /\ (n - 1) - 1 = n - 2
  OBVIOUS
<1>6. s[n - 1].at <= s[n].at + SEARCH_TTL
  BY <1>1, LiveRoomsAssumption
<1>7. QED
  BY <1>2, <1>3, <1>4, <1>5, <1>6 DEF Tracked

LEMMA TrackedReturn ==
  ASSUME NEW s \in Seq(Observed), NEW n \in 2 .. Len(s), NEW f,
         Tracked(s, f, n, n - 1, n - 1)
  PROVE  Tracked(s, Without(f, InRooms(s[n].rooms)), n, n, n - 1)
<1>1. \A p : \A k \in 1 .. n - 1 : Since(s, p, k, n) <=> Since(s, p, k, n - 1) /\ p \notin InRooms(s[n].rooms)
  <2>1. \A k \in 1 .. n - 1 : \A j : j \in k + 1 .. n <=> j = n \/ j \in k + 1 .. n - 1
    OBVIOUS
  <2>2. QED
    BY <2>1 DEF Since
<1>2. QED
  BY <1>1 DEF Tracked, Without

LEMMA TrackedExpire ==
  ASSUME NEW s \in Seq(Observed), InOrder(s), NEW n \in 2 .. Len(s), NEW f, DOMAIN f \subseteq Seekers,
         Tracked(s, f, n, n, n - 1)
  PROVE  Tracked(s, Without(f, {p \in DOMAIN f : s[n].at > f[p] + SEARCH_TTL}), n, n, n)
<1> DEFINE old == {p \in DOMAIN f : s[n].at > f[p] + SEARCH_TTL}
           g == Without(f, old)
<1>1. /\ s[n].at \in Nat /\ s[n - 1].at \in Nat /\ s[n - 1].at <= s[n].at /\ SEARCH_TTL \in Nat
      /\ \A k \in 1 .. n - 1 : s[k + 1].at \in Nat
  BY SeenFacts, LiveRoomsAssumption DEF InOrder
<1>2. DOMAIN g = DOMAIN f \ old /\ \A p \in DOMAIN g : g[p] = f[p]
  BY DEF Without
<1>3. ASSUME NEW p \in Seekers
      PROVE  p \in DOMAIN g <=> \E k \in 1 .. n - 1 : Since(s, p, k, n) /\ s[n].at <= s[k + 1].at + SEARCH_TTL
  <2>1. ASSUME p \in DOMAIN g
        PROVE  \E k \in 1 .. n - 1 : Since(s, p, k, n) /\ s[n].at <= s[k + 1].at + SEARCH_TTL
    <3>1. PICK k \in 1 .. n - 1 : Since(s, p, k, n)
      BY <1>2, <2>1 DEF Tracked
    <3>2. f[p] = s[k + 1].at
      BY <1>2, <2>1, <3>1 DEF Tracked
    <3>3. QED
      BY <1>1, <1>2, <2>1, <3>1, <3>2, SMTT(30)
  <2>2. ASSUME NEW k \in 1 .. n - 1, Since(s, p, k, n), s[n].at <= s[k + 1].at + SEARCH_TTL
        PROVE  p \in DOMAIN g
    <3>1. s[n - 1].at <= s[k + 1].at + SEARCH_TTL
      BY <1>1, <2>2, SMTT(30)
    <3>2. p \in DOMAIN f /\ f[p] = s[k + 1].at
      BY <2>2, <3>1 DEF Tracked
    <3>3. QED
      BY <1>1, <1>2, <2>2, <3>2, SMTT(30)
  <2>3. QED
    BY <2>1, <2>2
<1> HIDE DEF g
<1>4. QED
  BY <1>2, <1>3 DEF Tracked, g

\* What the tracker remembers is what the lists say.
LEMMA TrackedIsExpected ==
  ASSUME NEW s \in Seq(Observed), NEW n \in 1 .. Len(s), NEW f, DOMAIN f \subseteq Seekers,
         Tracked(s, f, n, n, n)
  PROVE  DOMAIN f = Expected(SubSeq(s, 1, n))
<1> DEFINE q == SubSeq(s, 1, n)
<1>1. Len(q) = n /\ \A i \in 1 .. n : q[i] = s[i]
  OBVIOUS
<1> HIDE DEF q
<1>2. ASSUME NEW p, NEW k \in 1 .. n - 1
      PROVE  Since(s, p, k, n) <=>
               /\ \E r \in DOMAIN q[k].rooms \ DOMAIN q[k + 1].rooms :
                    q[k].rooms[r].rank /\ p \in q[k].rooms[r].users
               /\ \A j \in k + 1 .. n : p \notin InRooms(q[j].rooms)
  <2>1. q[k] = s[k] /\ q[k + 1] = s[k + 1] /\ \A j \in k + 1 .. n : q[j] = s[j]
    BY <1>1
  <2>2. QED
    BY <2>1 DEF Since, Left, Departed, RankUsers
<1>3. \A k \in 1 .. n - 1 : q[k + 1] = s[k + 1] /\ q[n] = s[n]
  BY <1>1
<1>4. DOMAIN f = {p \in Seekers : \E k \in 1 .. n - 1 : Since(s, p, k, n) /\ s[n].at <= s[k + 1].at + SEARCH_TTL}
  BY DEF Tracked
<1>5. Expected(q) = {p \in Seekers : \E k \in 1 .. n - 1 :
                       /\ \E r \in DOMAIN q[k].rooms \ DOMAIN q[k + 1].rooms :
                            q[k].rooms[r].rank /\ p \in q[k].rooms[r].users
                       /\ \A j \in k + 1 .. n : p \notin InRooms(q[j].rooms)
                       /\ q[n].at <= q[k + 1].at + SEARCH_TTL}
  BY <1>1 DEF Expected
<1>6. QED
  BY <1>2, <1>3, <1>4, <1>5 DEF q

\* What an update that none overlaps relies on.
LEMMA OnlyUpdate ==
  ASSUME PhantomInv, ~overlapped, NEW x \in Visits, visit[x].pc \in Steps
  PROVE  /\ visit[x].alone /\ visit[x].n = Len(seen) /\ Updating = {x}
         /\ Stage(visit[x].pc, seen, searching, Len(seen))
         /\ seen \in Seq(Observed) /\ Len(seen) \in 1 .. Len(seen) /\ Len(seen) \in Nat
         /\ Rooms(x) = seen[Len(seen)].rooms /\ At(x) = seen[Len(seen)].at
<1>1. x \in Updating /\ visit[x].alone /\ visit[x].n = Len(seen)
      /\ Stage(visit[x].pc, seen, searching, Len(seen))
  BY UpdatingIs DEF PhantomInv, OneByOne
<1>2. Updating = {x}
  BY <1>1 DEF PhantomInv, AloneInv, Apart
<1>3. seen \in Seq(Observed) /\ Len(seen) \in 1 .. Len(seen) /\ Len(seen) \in Nat
  BY <1>1, UpdateFacts DEF PhantomInv, AloneInv, RoomsTypeOK
<1>4. QED
  BY <1>1, <1>2, <1>3 DEF Rooms, At

\* A step of an update keeps the invariant if it brings the tracker to its next stage
\* or, when it is the last, shows what the lists say.
LEMMA Onward ==
  ASSUME PhantomInv, AloneInv', NEW x \in Visits, visit[x].pc \in Steps,
         NEW e, visit' = [visit EXCEPT ![x] = e],
         e.n = visit[x].n, e.alone = visit[x].alone,
         UNCHANGED <<minute, seen, overlapped>>,
         ~overlapped => \/ /\ e.pc \in Steps
                           /\ Stage(e.pc, seen, searching, Len(seen))'
                        \/ /\ e.pc = "answered"
                           /\ (Tracked(seen, searching, Len(seen), Len(seen), Len(seen)))'
                           /\ Last(seen, Len(seen))'
                           /\ e.phantoms = Expected(SubSeq(seen, 1, Len(seen)))
  PROVE  PhantomInv'
<1>1. /\ \A y \in Visits : y # x => visit'[y] = visit[y]
      /\ visit'[x] = e
  BY DEF PhantomInv, AloneInv, RoomsTypeOK
<1>2. OneByOne'
  <2> SUFFICES ASSUME ~overlapped PROVE OneByOne'
    BY DEF OneByOne
  <2>1. visit[x].alone /\ visit[x].n = Len(seen) /\ Updating = {x}
    BY OnlyUpdate
  <2>2. CASE e.pc \in Steps /\ Stage(e.pc, seen, searching, Len(seen))'
    <3>1. Updating' = {x}
      BY <1>1, <2>1, <2>2, UpdatingIs DEF Updating, Steps
    <3>2. visit'[x].alone /\ visit'[x].n = Len(seen') /\ Stage(visit[x].pc, seen, searching, Len(seen))'
      BY <1>1, <2>1, <2>2
    <3>3. QED
      BY <3>1, <3>2 DEF OneByOne
  <2>3. CASE /\ e.pc = "answered"
             /\ (Tracked(seen, searching, Len(seen), Len(seen), Len(seen)))'
             /\ Last(seen, Len(seen))'
    <3>1. Updating' = {}
      BY <1>1, <2>1, <2>3, UpdatingIs DEF Updating, Steps
    <3>2. QED
      BY <3>1, <2>3 DEF OneByOne
  <2>4. QED
    BY <2>2, <2>3
<1>3. PhantomsExplained'
  <2> SUFFICES ASSUME NEW y \in Visits, visit'[y].pc = "answered", ~overlapped
               PROVE  visit'[y].phantoms = Expected(SubSeq(seen', 1, visit'[y].n))
    BY DEF PhantomsExplained
  <2>1. CASE y = x
    <3>1. visit'[y] = e /\ e.n = Len(seen) /\ e.pc \notin Steps
      BY <1>1, <2>1, OnlyUpdate DEF Steps
    <3>2. QED
      BY <3>1
  <2>2. CASE y # x
    BY <1>1, <2>2 DEF PhantomInv, PhantomsExplained
  <2>3. QED
    BY <2>1, <2>2
<1>4. QED
  BY <1>2, <1>3 DEF PhantomInv, InOrder

LEMMA ComparePhantoms ==
  ASSUME PhantomInv, AloneInv', NEW x \in Visits, CompareLists(x)
  PROVE  PhantomInv'
<1> DEFINE N == Len(seen)
<1>1. RoomsTypeOK /\ visit[x].pc = "compare" /\ visit[x].pc \in Steps
      /\ UNCHANGED <<minute, seen, overlapped, searching>>
  BY DEF CompareLists, PhantomInv, AloneInv, Steps
<1>2. ~overlapped => /\ Tracked(seen, searching, N - 1, N - 1, N - 1) /\ Last(seen, N - 1)
                     /\ seen \in Seq(Observed) /\ N \in Nat /\ N \in 1 .. N
                     /\ Rooms(x) = seen[N].rooms /\ N >= 1
  BY <1>1, OnlyUpdate DEF Stage
<1> HIDE DEF N
<1>6. N' = N
  BY <1>1 DEF N
<1>3. CASE previous = Unseen
  <2>1. AnswerVisit(x, {}, TRUE) /\ previous' = Rooms(x) /\ {} \in SUBSET Seekers /\ TRUE \in BOOLEAN
    BY <1>3 DEF CompareLists
  <2>2. PICK e \in Visiting : /\ visit' = [visit EXCEPT ![x] = e]
                              /\ e.pc = "answered" /\ e.n = visit[x].n /\ e.alone = visit[x].alone
                              /\ e.ok = TRUE /\ e.phantoms = {}
    BY <1>1, <2>1, AnswerIs
  <2>3. ASSUME ~overlapped
        PROVE  Tracked(seen, searching, N, N, N) /\ Last(seen, N)' /\ DOMAIN searching = {}
    <3>1. N = 1
      <4>1. \A i \in 1 .. N : seen[i].rooms # Unseen
        BY <1>2, <2>3, SeenFacts, LiveRoomsAssumption DEF N
      <4>2. ASSUME N - 1 # 0 PROVE FALSE
        <5>1. previous = seen[N - 1].rooms
          BY <1>2, <2>3, <4>2 DEF Last
        <5>2. N - 1 \in 1 .. N
          BY <1>2, <2>3, <4>2
        <5>3. QED
          BY <1>3, <4>1, <5>1, <5>2
      <4>3. QED
        BY <1>2, <2>3, <4>2
    <3>2. DOMAIN searching = {}
      <4>1. \A p \in Seekers : p \in DOMAIN searching <=>
              \E k \in 1 .. (N - 1) - 1 : Since(seen, p, k, N - 1)
                                       /\ seen[N - 1].at <= seen[k + 1].at + SEARCH_TTL
        BY <1>2, <2>3 DEF Tracked
      <4>2. 1 .. (N - 1) - 1 = {}
        BY <3>1
      <4>3. \A p \in Seekers : p \notin DOMAIN searching
        BY <4>1, <4>2
      <4>4. QED
        BY <4>3, <1>1 DEF RoomsTypeOK
    <3>3. Last(seen, N)'
      BY <1>1, <1>2, <1>6, <2>1, <2>3, <3>1 DEF Last
    <3>4. QED
      BY <3>1, <3>2, <3>3 DEF Tracked
  <2>4. ASSUME ~overlapped PROVE Expected(SubSeq(seen, 1, N)) = {}
    BY <1>1, <1>2, <2>3, <2>4, TrackedIsExpected DEF N
  <2>5. ~overlapped => (Tracked(seen, searching, Len(seen), Len(seen), Len(seen)))'
    BY <1>1, <2>3 DEF N
  <2>6. QED
    BY <1>1, <2>2, <2>3, <2>4, <2>5, Onward DEF N
<1>4. CASE previous # Unseen
  <2>7. PICK e : e = [pc |-> "depart", n |-> visit[x].n, alone |-> visit[x].alone,
                      gone |-> DOMAIN previous \ DOMAIN Rooms(x)]
    OBVIOUS
  <2>1. visit' = [visit EXCEPT ![x] = e] /\ UNCHANGED previous
    BY <1>4, <2>7 DEF CompareLists
  <2>2. e.pc = "depart" /\ e.n = visit[x].n /\ e.alone = visit[x].alone
    BY <2>7
  <2>3. ASSUME ~overlapped PROVE N > 1
    <3>1. N - 1 # 0
      BY <1>2, <1>4, <2>3 DEF Last
    <3>2. QED
      BY <1>2, <2>3, <3>1
  <2>4. ~overlapped => Stage(e.pc, seen, searching, N)'
    BY <1>1, <1>2, <1>6, <2>1, <2>2, <2>3 DEF Stage, Last
  <2>5. e.pc \in Steps
    BY <2>2 DEF Steps
  <2>6. QED
    BY <1>1, <2>1, <2>2, <2>4, <2>5, Onward DEF N
<1>5. QED
  BY <1>3, <1>4

LEMMA DepartPhantoms ==
  ASSUME PhantomInv, AloneInv', NEW x \in Visits, Depart(x)
  PROVE  PhantomInv'
<1> DEFINE N == Len(seen)
           gone == visit[x].gone
           sent(ids) == [p \in DOMAIN searching \cup Departed(previous, ids) |->
                           IF p \in Departed(previous, ids) THEN At(x) ELSE searching[p]]
<1>1. RoomsTypeOK /\ visit[x].pc = "depart" /\ visit[x].pc \in Steps
      /\ UNCHANGED <<minute, seen, overlapped, previous>>
  BY DEF Depart, PhantomInv, AloneInv, Steps
<1>2. \/ gone \subseteq DOMAIN previous /\ searching' = sent(gone) /\ Go(x, "return")
      \/ ~(gone \subseteq DOMAIN previous) /\ AnswerVisit(x, {}, FALSE)
  BY DEF Depart
<1>3. PICK e \in Visiting : /\ visit' = [visit EXCEPT ![x] = e]
                            /\ e.n = visit[x].n /\ e.alone = visit[x].alone
                            /\ gone \subseteq DOMAIN previous => e.pc = "return"
  <2>1. CASE gone \subseteq DOMAIN previous
    <3>1. Go(x, "return")
      BY <1>2, <2>1
    <3> HIDE DEF gone
    <3>2. QED
      BY <1>1, <3>1, GoOn
  <2>2. CASE ~(gone \subseteq DOMAIN previous)
    <3>1. AnswerVisit(x, {}, FALSE) /\ {} \in SUBSET Seekers /\ FALSE \in BOOLEAN
      BY <1>2, <2>2
    <3> HIDE DEF gone, sent
    <3>2. \E e \in Visiting : /\ visit' = [visit EXCEPT ![x] = e]
                              /\ e.pc = "answered" /\ e.n = visit[x].n /\ e.alone = visit[x].alone
                              /\ e.ok = FALSE /\ e.phantoms = {}
      BY <1>1, <3>1, AnswerIs
    <3>3. QED
      BY <2>2, <3>2
  <2>3. QED
    BY <2>1, <2>2
<1>4. ASSUME ~overlapped
      PROVE  e.pc \in Steps /\ Stage(e.pc, seen, searching, Len(seen))'
  <2>1. /\ visit[x].alone /\ x \in Updating
        /\ Tracked(seen, searching, N - 1, N - 1, N - 1) /\ Last(seen, N - 1) /\ N \in 2 .. N
        /\ seen \in Seq(Observed) /\ N \in Nat
        /\ Rooms(x) = seen[N].rooms /\ At(x) = seen[N].at
    BY <1>1, <1>4, OnlyUpdate DEF Stage
  <2>2. gone = DOMAIN previous \ DOMAIN Rooms(x)
    BY <1>1, <2>1 DEF PhantomInv, AloneInv, OnTrack
  <2>3. previous = seen[N - 1].rooms /\ (N - 1) + 1 = N
    BY <2>1 DEF Last
  <2>4. Departed(previous, gone) = Left(seen, N - 1)
    BY <2>1, <2>2, <2>3 DEF Left
  <2>5. e.pc = "return" /\ searching' = sent(gone)
    BY <1>2, <1>3, <2>2
  <2>6. searching' = [p \in DOMAIN searching \cup Left(seen, N - 1) |->
                        IF p \in Left(seen, N - 1) THEN seen[N].at ELSE searching[p]]
    BY <2>1, <2>4, <2>5
  <2>7. InOrder(seen)
    BY DEF PhantomInv
  <2> HIDE DEF N, gone, sent
  <2>8. Tracked(seen, searching', N, N - 1, N - 1)
    BY <2>1, <2>6, <2>7, TrackedDepart DEF N
  <2>9. QED
    BY <1>1, <2>1, <2>5, <2>8 DEF Stage, Last, Steps, N
<1> HIDE DEF gone, sent, N
<1>5. QED
  BY <1>1, <1>3, <1>4, Onward

LEMMA ReturnPhantoms ==
  ASSUME PhantomInv, AloneInv', NEW x \in Visits, Return(x)
  PROVE  PhantomInv'
<1> DEFINE N == Len(seen)
<1>1. RoomsTypeOK /\ visit[x].pc = "return" /\ visit[x].pc \in Steps
      /\ UNCHANGED <<minute, seen, overlapped, previous>>
      /\ searching' = Without(searching, InRooms(Rooms(x)))
  BY DEF Return, PhantomInv, AloneInv, Steps
<1>2. PICK e \in Visiting : /\ visit' = [visit EXCEPT ![x] = e]
                            /\ e.pc = "list" /\ e.n = visit[x].n /\ e.alone = visit[x].alone
  BY <1>1, GoOn DEF Return
<1>3. ASSUME ~overlapped
      PROVE  e.pc \in Steps /\ Stage(e.pc, seen, searching, Len(seen))'
  <2>1. /\ Tracked(seen, searching, N, N - 1, N - 1) /\ Last(seen, N - 1) /\ N \in 2 .. N
        /\ seen \in Seq(Observed) /\ N \in Nat /\ Rooms(x) = seen[N].rooms
    BY <1>1, <1>3, OnlyUpdate DEF Stage
  <2> HIDE DEF N
  <2>2. Tracked(seen, searching', N, N, N - 1)
    BY <1>1, <2>1, TrackedReturn DEF N
  <2>3. QED
    BY <1>1, <1>2, <2>1, <2>2 DEF Stage, Last, Steps, N
<1> HIDE DEF N
<1>4. QED
  BY <1>1, <1>2, <1>3, Onward

LEMMA ListPhantoms ==
  ASSUME PhantomInv, AloneInv', NEW x \in Visits, List(x)
  PROVE  PhantomInv'
<1>1. PICK e : e = [pc |-> "expire", n |-> visit[x].n, alone |-> visit[x].alone,
                    listed |-> DOMAIN searching]
  OBVIOUS
<1>2. visit[x].pc = "list" /\ visit[x].pc \in Steps /\ visit' = [visit EXCEPT ![x] = e]
      /\ UNCHANGED <<minute, seen, overlapped, previous, searching>>
  BY <1>1 DEF List, Steps
<1>3. e.pc = "expire" /\ e.n = visit[x].n /\ e.alone = visit[x].alone /\ e.pc \in Steps
  BY <1>1 DEF Steps
<1>4. ~overlapped => Stage(e.pc, seen, searching, Len(seen))'
  BY <1>2, <1>3, OnlyUpdate DEF Stage, Last
<1>5. QED
  BY <1>2, <1>3, <1>4, Onward

LEMMA ExpirePhantoms ==
  ASSUME PhantomInv, AloneInv', NEW x \in Visits, Expire(x)
  PROVE  PhantomInv'
<1> DEFINE N == Len(seen)
           listed == visit[x].listed
           here == listed \cap DOMAIN searching
           old == {p \in here : At(x) > searching[p] + SEARCH_TTL}
<1>1. RoomsTypeOK /\ visit[x].pc = "expire" /\ visit[x].pc \in Steps
      /\ UNCHANGED <<minute, seen, overlapped, previous>>
  BY DEF Expire, PhantomInv, AloneInv, Steps
<1>2. \/ listed = here /\ Go(x, "advance") /\ searching' = Without(searching, old)
      \/ listed # here /\ AnswerVisit(x, {}, FALSE)
  BY DEF Expire
<1>3. PICK e \in Visiting : /\ visit' = [visit EXCEPT ![x] = e]
                            /\ e.n = visit[x].n /\ e.alone = visit[x].alone
                            /\ listed = here => e.pc = "advance"
  <2>1. CASE listed = here
    <3>1. Go(x, "advance")
      BY <1>2, <2>1
    <3> HIDE DEF listed, here
    <3>2. QED
      BY <1>1, <3>1, GoOn
  <2>2. CASE listed # here
    <3>1. AnswerVisit(x, {}, FALSE) /\ {} \in SUBSET Seekers /\ FALSE \in BOOLEAN
      BY <1>2, <2>2
    <3> HIDE DEF listed, here, old
    <3>2. \E e \in Visiting : /\ visit' = [visit EXCEPT ![x] = e]
                              /\ e.pc = "answered" /\ e.n = visit[x].n /\ e.alone = visit[x].alone
                              /\ e.ok = FALSE /\ e.phantoms = {}
      BY <1>1, <3>1, AnswerIs
    <3>3. QED
      BY <2>2, <3>2
  <2>3. QED
    BY <2>1, <2>2
<1>4. ASSUME ~overlapped
      PROVE  e.pc \in Steps /\ Stage(e.pc, seen, searching, Len(seen))'
  <2>1. /\ visit[x].alone /\ x \in Updating
        /\ Tracked(seen, searching, N, N, N - 1) /\ Last(seen, N - 1) /\ N \in 2 .. N
        /\ seen \in Seq(Observed) /\ N \in Nat /\ At(x) = seen[N].at
    BY <1>1, <1>4, OnlyUpdate DEF Stage
  <2>2. listed = DOMAIN searching /\ listed = here
    BY <1>1, <2>1 DEF PhantomInv, AloneInv, OnTrack
  <2>3. e.pc = "advance" /\ searching' = Without(searching, old)
    BY <1>2, <1>3, <2>2
  <2>4. old = {p \in DOMAIN searching : seen[N].at > searching[p] + SEARCH_TTL}
    BY <2>1, <2>2
  <2>5. searching' = Without(searching, {p \in DOMAIN searching : seen[N].at > searching[p] + SEARCH_TTL})
    BY <2>3, <2>4
  <2>6. InOrder(seen) /\ DOMAIN searching \subseteq Seekers
    BY <1>1 DEF PhantomInv, RoomsTypeOK
  <2> HIDE DEF N, old, here, listed
  <2>7. Tracked(seen, searching', N, N, N)
    BY <2>1, <2>5, <2>6, TrackedExpire DEF N
  <2>8. QED
    BY <1>1, <2>1, <2>3, <2>7 DEF Stage, Last, Steps, N
<1> HIDE DEF N, old, here, listed
<1>5. QED
  BY <1>1, <1>3, <1>4, Onward

LEMMA AdvancePhantoms ==
  ASSUME PhantomInv, AloneInv', NEW x \in Visits, AdvancePrevious(x)
  PROVE  PhantomInv'
<1>1. RoomsTypeOK /\ visit[x].pc = "advance" /\ visit[x].pc \in Steps
      /\ UNCHANGED <<minute, seen, overlapped, searching>> /\ previous' = Rooms(x)
  BY DEF AdvancePrevious, PhantomInv, AloneInv, Steps
<1>2. PICK e \in Visiting : /\ visit' = [visit EXCEPT ![x] = e]
                            /\ e.pc = "show" /\ e.n = visit[x].n /\ e.alone = visit[x].alone
  BY <1>1, GoOn DEF AdvancePrevious
<1>3. ASSUME ~overlapped PROVE e.pc \in Steps /\ Stage(e.pc, seen, searching, Len(seen))'
  BY <1>1, <1>2, <1>3, OnlyUpdate DEF Stage, Last, Steps
<1>4. QED
  BY <1>1, <1>2, <1>3, Onward

LEMMA ShowPhantoms ==
  ASSUME PhantomInv, AloneInv', NEW x \in Visits, Show(x)
  PROVE  PhantomInv'
<1>1. RoomsTypeOK /\ visit[x].pc = "show" /\ visit[x].pc \in Steps
      /\ UNCHANGED <<minute, seen, overlapped, searching, previous>>
  BY DEF Show, PhantomInv, AloneInv, Steps
<1>2. \/ AnswerVisit(x, DOMAIN searching, TRUE)
      \/ Updating # {x} /\ AnswerVisit(x, {}, FALSE)
  BY DEF Show
<1>3. PICK e \in Visiting : /\ visit' = [visit EXCEPT ![x] = e]
                            /\ e.pc = "answered" /\ e.n = visit[x].n /\ e.alone = visit[x].alone
                            /\ Updating = {x} => e.phantoms = DOMAIN searching
  <2>1. CASE AnswerVisit(x, DOMAIN searching, TRUE)
    <3>1. DOMAIN searching \in SUBSET Seekers /\ TRUE \in BOOLEAN
      BY <1>1 DEF RoomsTypeOK
    <3>2. \E e \in Visiting : /\ visit' = [visit EXCEPT ![x] = e]
                              /\ e.pc = "answered" /\ e.n = visit[x].n /\ e.alone = visit[x].alone
                              /\ e.ok = TRUE /\ e.phantoms = DOMAIN searching
      BY <1>1, <2>1, <3>1, AnswerIs
    <3>3. QED
      BY <3>2
  <2>2. CASE Updating # {x} /\ AnswerVisit(x, {}, FALSE)
    <3>1. AnswerVisit(x, {}, FALSE) /\ {} \in SUBSET Seekers /\ FALSE \in BOOLEAN
      BY <2>2
    <3>2. \E e \in Visiting : /\ visit' = [visit EXCEPT ![x] = e]
                              /\ e.pc = "answered" /\ e.n = visit[x].n /\ e.alone = visit[x].alone
                              /\ e.ok = FALSE /\ e.phantoms = {}
      BY <1>1, <3>1, AnswerIs
    <3>3. QED
      BY <2>2, <3>2
  <2>3. QED
    BY <1>2, <2>1, <2>2
<1>4. ASSUME ~overlapped
      PROVE  /\ Tracked(seen, searching, Len(seen), Len(seen), Len(seen)) /\ Last(seen, Len(seen))
             /\ e.phantoms = Expected(SubSeq(seen, 1, Len(seen)))
  <2>1. /\ Updating = {x} /\ seen \in Seq(Observed) /\ Len(seen) \in 1 .. Len(seen)
        /\ Tracked(seen, searching, Len(seen), Len(seen), Len(seen)) /\ Last(seen, Len(seen))
    BY <1>1, <1>4, OnlyUpdate DEF Stage
  <2>2. DOMAIN searching = Expected(SubSeq(seen, 1, Len(seen)))
    BY <1>1, <2>1, TrackedIsExpected DEF RoomsTypeOK
  <2>3. QED
    BY <1>3, <2>1, <2>2
<1>5. ~overlapped => /\ (Tracked(seen, searching, Len(seen), Len(seen), Len(seen)))'
                     /\ Last(seen, Len(seen))'
  BY <1>1, <1>4 DEF Last
<1>6. QED
  BY <1>1, <1>3, <1>4, <1>5, Onward

LEMMA VisitPhantoms ==
  ASSUME PhantomInv, AloneInv', NEW x \in Visits, Visit(x)
  PROVE  PhantomInv'
<1>1. PICK e \in [pc : {"away", "miss"}] : visit' = [visit EXCEPT ![x] = e]
  BY DEF Visit, Away
<1>2. visit'[x] = e /\ e.pc \notin Steps /\ e.pc # "answered"
      /\ \A y \in Visits : y # x => visit'[y] = visit[y]
  BY <1>1 DEF PhantomInv, AloneInv, RoomsTypeOK, Steps
<1>3. /\ UNCHANGED <<minute, previous, searching, seen, overlapped>>
      /\ visit[x].pc \notin Steps
  BY DEF Visit, Steps
<1>4. Updating' = Updating /\ \A y \in Updating : visit'[y] = visit[y]
  BY <1>2, <1>3, UpdatingIs DEF Updating, Steps
<1>5. OneByOne'
  BY <1>3, <1>4 DEF PhantomInv, OneByOne, Stage, Last
<1>6. PhantomsExplained'
  BY <1>2, <1>3 DEF PhantomInv, PhantomsExplained
<1>7. QED
  BY <1>3, <1>5, <1>6 DEF PhantomInv, InOrder

LEMMA FetchPhantoms ==
  ASSUME PhantomInv, AloneInv', NEW x \in Visits, Fetch(x)
  PROVE  PhantomInv'
<1>1. PICK rooms \in Lists : seen' = Append(seen, [rooms |-> rooms, at |-> minute])
  BY DEF Fetch
<1>2. PICK o \in Observed : o = [rooms |-> rooms, at |-> minute] /\ o.at = minute /\ minute \in Nat
  <2>1. minute \in Nat
    BY DEF PhantomInv, AloneInv, RoomsTypeOK
  <2>2. PICK o : o = [rooms |-> rooms, at |-> minute]
    OBVIOUS
  <2>3. o \in Observed /\ o.at = minute
    BY <2>1, <2>2 DEF Observed
  <2>4. QED
    BY <2>1, <2>2, <2>3
<1>3. PICK N \in Nat : N = Len(seen)
  BY DEF PhantomInv, AloneInv, RoomsTypeOK
<1>4. /\ seen \in Seq(Observed) /\ seen' = Append(seen, o)
      /\ visit[x].pc = "miss" /\ x \notin Updating
      /\ UNCHANGED <<minute, previous, searching>>
  BY <1>1, <1>2, UpdatingIs DEF Fetch, PhantomInv, AloneInv, RoomsTypeOK, Steps
<1>5. /\ seen' \in Seq(Observed) /\ Len(seen') = N + 1 /\ seen'[N + 1] = o
      /\ \A i \in 1 .. N : seen'[i] = seen[i]
  <2>1. \A s \in Seq(Observed) : /\ Append(s, o) \in Seq(Observed) /\ Len(Append(s, o)) = Len(s) + 1
                                 /\ Append(s, o)[Len(s) + 1] = o
                                 /\ \A i \in 1 .. Len(s) : Append(s, o)[i] = s[i]
    OBVIOUS
  <2>2. QED
    BY <1>3, <1>4, <2>1
<1>6. \A i \in 1 .. N : seen[i].at \in Nat
  BY <1>3, <1>4, SeenFacts
<1>7. InOrder(seen') /\ \A i \in 1 .. Len(seen') : seen'[i].at <= minute'
  <2>1. \A i \in 1 .. N + 1 : i = N + 1 \/ i \in 1 .. N
    OBVIOUS
  <2>2. \A i \in 1 .. N + 1 : seen'[i].at <= minute
    BY <1>2, <1>3, <1>5, <2>1 DEF PhantomInv
  <2>3. \A i, j \in 1 .. N + 1 : i <= j => seen'[i].at <= seen'[j].at
    <3> SUFFICES ASSUME NEW i \in 1 .. N + 1, NEW j \in 1 .. N + 1, i <= j
                 PROVE  seen'[i].at <= seen'[j].at
      OBVIOUS
    <3>1. CASE j = N + 1
      BY <1>2, <1>5, <2>2, <3>1
    <3>2. CASE j \in 1 .. N
      <4>1. i \in 1 .. N
        BY <3>2
      <4>2. seen[i].at <= seen[j].at
        BY <1>3, <3>2, <4>1 DEF PhantomInv, InOrder
      <4>3. QED
        BY <1>5, <3>2, <4>1, <4>2
    <3>3. QED
      BY <2>1, <3>1, <3>2
  <2>4. QED
    BY <1>4, <1>5, <2>2, <2>3 DEF InOrder
<1>7a. PICK e : e = [pc |-> "compare", n |-> Len(seen) + 1, alone |-> Updating = {}]
  OBVIOUS
<1>7b. visit'[x] = e
  BY <1>7a, <1>4 DEF Fetch
<1>8. ASSUME ~overlapped'
      PROVE  /\ ~overlapped /\ Updating = {}
             /\ Tracked(seen', searching, N, N, N) /\ Last(seen', N)
             /\ \A y \in Visits : y # x => visit'[y] = visit[y]
             /\ visit'[x].pc = "compare" /\ visit'[x].n = N + 1
  <2>1. ~overlapped /\ Updating = {}
    BY <1>8 DEF Fetch
  <2>2. Tracked(seen, searching, N, N, N) /\ Last(seen, N)
    BY <1>3, <2>1 DEF PhantomInv, OneByOne
  <2>3. Tracked(seen', searching, N, N, N)
    <3>1. \A r \in Seq(Observed) : (\A i \in 1 .. Len(seen) : r[i] = seen[i]) =>
            Tracked(r, searching, N, N, N)
      BY <1>3, <1>4, <2>2, TrackedLonger
    <3>2. QED
      BY <1>3, <1>5, <3>1
  <2>4. Last(seen', N)
    BY <1>5, <2>2 DEF Last
  <2>5. \A y \in Visits : y # x => visit'[y] = visit[y]
    BY <2>1 DEF Fetch
  <2>6. visit'[x].pc = "compare" /\ visit'[x].n = N + 1
    BY <1>3, <1>7a, <1>7b
  <2>7. QED
    BY <2>1, <2>3, <2>4, <2>5, <2>6
<1>9. OneByOne'
  <2> SUFFICES ASSUME ~overlapped' PROVE OneByOne'
    BY DEF OneByOne
  <2>1. Updating' = {x}
    BY <1>8, UpdatingIs DEF Updating, Steps
  <2>2. visit'[x].alone
    <3>1. e.alone = (Updating = {})
      BY <1>7a, Zenon
    <3>2. e.alone
      BY <3>1, <1>8
    <3>3. QED
      BY <1>7b, <3>2
  <2>3. (Stage("compare", seen, searching, Len(seen)))'
    BY <1>4, <1>5, <1>8 DEF Stage, Last
  <2>4. QED
    BY <1>5, <1>8, <2>1, <2>2, <2>3 DEF OneByOne
<1>10. PhantomsExplained'
  <2> SUFFICES ASSUME NEW y \in Visits, visit'[y].pc = "answered", ~overlapped'
               PROVE  visit'[y].phantoms = Expected(SubSeq(seen', 1, visit'[y].n))
    BY DEF PhantomsExplained
  <2>1. y # x /\ visit'[y] = visit[y] /\ ~overlapped
    BY <1>8
  <2>2. visit[y].n \in 1 .. N
    BY <1>3, <2>1 DEF PhantomInv, AloneInv, RoomsTypeOK
  <2>3. SubSeq(seen', 1, visit[y].n) = SubSeq(seen, 1, visit[y].n)
    <3>1. \A s \in Seq(Observed) : \A n \in 1 .. Len(s) : SubSeq(Append(s, o), 1, n) = SubSeq(s, 1, n)
      OBVIOUS
    <3>2. QED
      BY <1>3, <1>4, <2>2, <3>1
  <2>4. QED
    BY <2>1, <2>3 DEF PhantomInv, PhantomsExplained
<1>11. QED
  BY <1>7, <1>9, <1>10 DEF PhantomInv

LEMMA PhantomStep ==
  ASSUME PhantomInv, [LNext]_roomvars
  PROVE  PhantomInv'
<1>1. AloneInv'
  BY RoomsStep DEF PhantomInv
<1>2. CASE PassTime
  <2>1. UNCHANGED <<fresh, previous, searching, visit, seen, overlapped>> /\ minute' = minute + 1
    BY <1>2 DEF PassTime
  <2>2. \A i \in 1 .. Len(seen) : seen[i].at <= minute'
    <3>1. \A i \in 1 .. Len(seen) : seen[i].at \in Nat /\ seen[i].at <= minute
      BY SeenFacts DEF PhantomInv, AloneInv, RoomsTypeOK
    <3>2. QED
      BY <2>1, <3>1 DEF PhantomInv, AloneInv, RoomsTypeOK
  <2>3. QED
    BY <1>1, <2>1, <2>2
    DEF PhantomInv, InOrder, OneByOne, Stage, Last, PhantomsExplained, Updating
<1>3. CASE UNCHANGED roomvars
  BY <1>1, <1>3 DEF roomvars, PhantomInv, InOrder, OneByOne, Stage, Last, PhantomsExplained, Updating
<1>4. QED
  BY <1>1, <1>2, <1>3, VisitPhantoms, FetchPhantoms, ComparePhantoms, DepartPhantoms, ReturnPhantoms,
     ListPhantoms, ExpirePhantoms, AdvancePhantoms, ShowPhantoms DEF LNext

LEMMA PhantomInit == LInit => PhantomInv
<1> SUFFICES ASSUME LInit PROVE PhantomInv
  OBVIOUS
<1>1. Len(seen) = 0 /\ DOMAIN searching = {}
  BY DEF LInit
<1>2. Updating = {} /\ \A x \in Visits : visit[x].pc # "answered"
  BY DEF LInit, Updating, Away
<1>3. Tracked(seen, searching, 0, 0, 0)
  <2>1. 1 .. 0 - 1 = {}
    OBVIOUS
  <2>2. QED
    BY <1>1, <2>1 DEF Tracked
<1>4. Last(seen, 0)
  BY DEF Last, LInit
<1>5. QED
  BY <1>1, <1>2, <1>3, <1>4, RoomsInitInv DEF PhantomInv, InOrder, OneByOne, PhantomsExplained

\* For any lists, visits and timing: as long as no two updates overlap, a list shows
\* as searching exactly the players whose rank room went away at most matchmaking_ttl
\* ago and who have not been in a room since, although the tracker only ever compares
\* two lists and keeps a dictionary.
THEOREM PhantomsAreExplained == LSpec => []PhantomsExplained
<1>1. PhantomInv => PhantomsExplained
  BY DEF PhantomInv
<1>2. PhantomInv /\ [LNext]_roomvars => PhantomInv'
  BY PhantomStep
<1>3. QED
  BY PhantomInit, <1>1, <1>2, PTL DEF LSpec
=============================================================================
