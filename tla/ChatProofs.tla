----------------------------- MODULE ChatProofs -----------------------------
(***************************************************************************)
(* Proofs about Chat for any number of accounts, requests, readers,        *)
(* messages and restarts, and queues of any length.                        *)
(***************************************************************************)
EXTENDS Chat, FiniteSetTheorems, TLAPS

----------------------------------------------------------------------------
(* Sets of numbers *)

\* There is no end to going down: strict inclusion of finite sets is well-founded.
LEMMA Least ==
  ASSUME NEW S \in SUBSET Nat, S # {}
  PROVE  \E m \in S : \A k \in S : m <= k
<1> DEFINE Below == {0 .. i : i \in S}
           R == StrictSubsetOrdering(Nat)
           F == FiniteSubsetsOf(Nat)
<1>1. Below \subseteq F /\ Below # {}
  <2>1. \A i \in S : 0 .. i \in F
    <3> TAKE i \in S
    <3>1. IsFiniteSet(0 .. i) /\ 0 .. i \subseteq Nat
      BY FS_Interval
    <3> QED
      BY <3>1 DEF FiniteSubsetsOf
  <2> QED
    BY <2>1
<1>2. PICK x \in Below : \A y \in Below : <<y, x>> \notin R
  <2>1. IsWellFoundedOn(R, F)
    BY FS_StrictSubsetOrderingWellFounded
  <2> HIDE DEF Below, R, F
  <2> QED
    BY <1>1, <2>1, WFMin
<1>3. PICK m \in S : x = 0 .. m
  OBVIOUS
<1>4. ASSUME NEW k \in S, k < m PROVE FALSE
  <2>1. 0 .. k \subseteq 0 .. m /\ 0 .. k # 0 .. m
    BY <1>4
  <2>2. <<0 .. k, x>> \in R
    BY <1>3, <2>1 DEF StrictSubsetOrdering
  <2> QED
    BY <1>2, <2>2
<1> QED
  BY <1>4

LEMMA Greatest ==
  ASSUME NEW b \in Nat, NEW S \in SUBSET (0 .. b), S # {}
  PROVE  \E m \in S : \A k \in S : k <= m
<1> DEFINE T == {b - k : k \in S}
<1>0. \A k \in S : k \in Int /\ k \in Nat /\ k <= b /\ b - k \in Nat
  <2> TAKE k \in S
  <2>1. k \in 0 .. b
    BY Zenon
  <2> QED
    BY <2>1
<1>1. T \in SUBSET Nat /\ T # {}
  BY <1>0
<1>2. PICK t \in T : \A u \in T : t <= u
  <2> HIDE DEF T
  <2> QED
    BY <1>1, Least
<1>3. PICK m \in S : t = b - m
  OBVIOUS
<1>4. \A k \in S : b - m <= b - k
  BY <1>2, <1>3
<1> QED
  BY <1>0, <1>4

----------------------------------------------------------------------------
(* The invariant *)

Shapes ==
  /\ chatClock \in Nat
  /\ log \in Seq(Message) /\ Len(log) <= MaxMessages
  /\ table \subseteq 1 .. Len(log)
  /\ req \in [Writers -> {NoRequest} \cup PostRequest \cup DeleteRequest]
  /\ subs \subseteq Streams
  /\ queue \in [Streams -> Seq(Event)]
  /\ view \in [Streams -> View]

\* A queue never holds more than it may.
Bounded == \A s \in Streams : Len(queue[s]) <= QueueSize

\* Ids are not used again: a row that is gone stays gone.
Gone(i) == i \in 1 .. Len(log) /\ i \notin table

\* A request erases a row that was there.
Requests ==
  \A p \in Writers : /\ req[p].pc = "erase" => req[p].id \in 1 .. Len(log)
                     /\ req[p].pc = "erased" => Gone(req[p].id)

\* A deletion is announced when it has happened.
Announced(q) ==
  \A n \in DOMAIN q : /\ q[n].type = "message" => q[n].id \in Ids
                      /\ q[n].type = "delete" => Gone(q[n].id)
                      /\ q[n].type = "closed" => q[n].id = 0

\* A stream that is open, and will not be told that it ends, is known to the bus.
Closes(q) == CLOSED \in {q[n] : n \in DOMAIN q}
Heard(s) == view[s].state # "offline" /\ ~Closes(queue[s]) => s \in subs

Coming(s, i) == i \in view[s].shown \/ \E n \in DOMAIN queue[s] : queue[s][n] = Posted(i)
Unpublished(i) == \E p \in Writers : req[p].pc = "appended" /\ req[p].id = i

\* A row that stays has reached the client, is on its way, or is to be published yet.
Covered(s) ==
  view[s].state = "streaming" /\ ~Closes(queue[s]) =>
    \A i \in table : i >= view[s].from => Coming(s, i) \/ Unpublished(i)

\* The inductive invariant.
ChatInv ==
  /\ Shapes /\ Bounded /\ Requests
  /\ \A s \in Streams : Announced(queue[s]) /\ Heard(s) /\ Covered(s)

----------------------------------------------------------------------------
(* Requests, rows and events *)

LEMMA RequestFacts ==
  ASSUME Shapes, NEW p \in Writers
  PROVE  /\ req[p].pc \in {"append", "appended"} => req[p].user \in Posters /\ req[p].now \in Nat
         /\ req[p].pc \in {"appended", "erase", "erased"} => req[p].id \in Ids
         /\ req[p].pc \in {"erase", "erased"} => req[p] \in DeleteRequest
BY DEF Shapes, NoRequest, PostRequest, DeleteRequest

LEMMA RequestNext ==
  ASSUME Shapes, NEW p \in Writers, NEW new \in {NoRequest} \cup PostRequest \cup DeleteRequest,
         req' = [req EXCEPT ![p] = new]
  PROVE  /\ req' \in [Writers -> {NoRequest} \cup PostRequest \cup DeleteRequest] /\ req'[p] = new
         /\ \A o \in Writers : o # p => req'[o] = req[o]
BY DEF Shapes

LEMMA ChatInvInit == ChatInit => ChatInv
BY ChatAssumption DEF ChatInit, ChatInv, Shapes, Bounded, Requests, Announced, Heard, Covered, NoRequest, Offline,
                      View, Closes

\* A step that leaves the streams alone: no row is deleted back into the table, and
\* one that is new is still to be published.
LEMMA RowStep ==
  ASSUME ChatInv, UNCHANGED <<subs, queue, view>>, Shapes', Requests',
         \A i : Gone(i) => Gone(i)',
         \A i \in table' : Unpublished(i)' \/ (i \in table /\ ~Unpublished(i))
  PROVE  ChatInv'
<1>1. Bounded'
  BY DEF ChatInv, Bounded
<1>2. \A s \in Streams : Announced(queue[s])'
  BY DEF ChatInv, Announced
<1>3. \A s \in Streams : Heard(s)' /\ Covered(s)'
  BY DEF ChatInv, Heard, Covered, Coming
<1> QED
  BY <1>1, <1>2, <1>3 DEF ChatInv

LEMMA BeginPostStep ==
  ASSUME ChatInv, NEW p \in Writers, NEW u \in Posters, BeginPost(p, u)
  PROVE  ChatInv'
<1> DEFINE new == [pc |-> "append", user |-> u, now |-> chatClock]
<1>1. new \in PostRequest /\ new.pc = "append"
  BY DEF PostRequest, ChatInv, Shapes
<1>2. /\ req' = [req EXCEPT ![p] = new] /\ req[p].pc = "idle"
      /\ UNCHANGED <<chatClock, log, table, subs, queue, view>>
  BY DEF BeginPost
<1> HIDE DEF new
<1>3. /\ req' \in [Writers -> {NoRequest} \cup PostRequest \cup DeleteRequest] /\ req'[p] = new
      /\ \A o \in Writers : o # p => req'[o] = req[o]
  BY <1>1, <1>2, RequestNext DEF ChatInv
<1>4. Shapes' /\ Requests'
  BY <1>1, <1>2, <1>3 DEF ChatInv, Shapes, Requests, Gone
<1>5. \A i : Gone(i) => Gone(i)'
  BY <1>2 DEF Gone
<1>6. \A i \in table' : Unpublished(i)' \/ (i \in table /\ ~Unpublished(i))
  BY <1>1, <1>2, <1>3 DEF Unpublished
<1> QED
  BY <1>2, <1>4, <1>5, <1>6, RowStep

LEMMA BeginEraseStep ==
  ASSUME ChatInv, NEW p \in Writers, NEW i \in Ids, BeginErase(p, i)
  PROVE  ChatInv'
<1> DEFINE new == [pc |-> "erase", id |-> i]
<1>1. new \in DeleteRequest /\ new.pc = "erase" /\ new.id = i
  BY DEF DeleteRequest
<1>2. /\ req' = [req EXCEPT ![p] = new] /\ req[p].pc = "idle" /\ i \in table
      /\ UNCHANGED <<chatClock, log, table, subs, queue, view>>
  BY DEF BeginErase
<1> HIDE DEF new
<1>3. /\ req' \in [Writers -> {NoRequest} \cup PostRequest \cup DeleteRequest] /\ req'[p] = new
      /\ \A o \in Writers : o # p => req'[o] = req[o]
  BY <1>1, <1>2, RequestNext DEF ChatInv
<1>4. Shapes' /\ Requests'
  BY <1>1, <1>2, <1>3 DEF ChatInv, Shapes, Requests, Gone
<1>5. \A j : Gone(j) => Gone(j)'
  BY <1>2 DEF Gone
<1>6. \A j \in table' : Unpublished(j)' \/ (j \in table /\ ~Unpublished(j))
  BY <1>1, <1>2, <1>3 DEF Unpublished
<1> QED
  BY <1>2, <1>4, <1>5, <1>6, RowStep

LEMMA AppendRowStep ==
  ASSUME ChatInv, NEW p \in Writers, AppendRow(p)
  PROVE  ChatInv'
<1> DEFINE i == Len(log) + 1
           row == [author |-> req[p].user, at |-> req[p].now]
           new == [pc |-> "appended", user |-> req[p].user, now |-> req[p].now, id |-> i]
<1>1. /\ req[p].pc = "append" /\ i <= MaxMessages /\ log' = Append(log, row) /\ table' = table \cup {i}
      /\ req' = [req EXCEPT ![p] = new] /\ UNCHANGED <<chatClock, subs, queue, view>>
  BY DEF AppendRow
<1>2. req[p].user \in Posters /\ req[p].now \in Nat /\ log \in Seq(Message) /\ Len(log) \in Nat
  BY <1>1, RequestFacts DEF ChatInv, Shapes
<1>3. /\ row \in Message /\ i \in Ids /\ new \in PostRequest /\ new.pc = "appended" /\ new.id = i
      /\ table \subseteq 1 .. Len(log)
  BY <1>1, <1>2, ChatAssumption DEF Message, Ids, PostRequest, ChatInv, Shapes
<1> HIDE DEF row, new
<1>4. log' \in Seq(Message) /\ Len(log') = i /\ \A j \in 1 .. Len(log) : j \in 1 .. Len(log') /\ j # i
  BY <1>1, <1>2, <1>3
<1>5. /\ req' \in [Writers -> {NoRequest} \cup PostRequest \cup DeleteRequest] /\ req'[p] = new
      /\ \A o \in Writers : o # p => req'[o] = req[o]
  BY <1>1, <1>3, RequestNext DEF ChatInv
<1>6. Shapes'
  <2>1. i \in 1 .. Len(log') /\ Len(log') <= MaxMessages
    BY <1>1, <1>2, <1>4
  <2>2. table' \subseteq 1 .. Len(log')
    <3> HIDE DEF i
    <3> QED
      BY <1>1, <1>3, <1>4, <2>1
  <2> HIDE DEF i
  <2> QED
    BY <1>1, <1>4, <1>5, <2>1, <2>2 DEF ChatInv, Shapes
<1>7. \A j : Gone(j) => Gone(j)'
  BY <1>1, <1>3, <1>4 DEF Gone
<1>8. Requests'
  BY <1>3, <1>4, <1>5, <1>7 DEF ChatInv, Requests
<1>9. \A j \in table' : Unpublished(j)' \/ (j \in table /\ ~Unpublished(j))
  BY <1>1, <1>3, <1>5 DEF Unpublished
<1> QED
  BY <1>1, <1>6, <1>7, <1>8, <1>9, RowStep

LEMMA EraseRowStep ==
  ASSUME ChatInv, NEW p \in Writers, EraseRow(p)
  PROVE  ChatInv'
<1> DEFINE new == [req[p] EXCEPT !.pc = "erased"]
<1>1. /\ req[p].pc = "erase" /\ table' = table \ {req[p].id} /\ req' = [req EXCEPT ![p] = new]
      /\ UNCHANGED <<chatClock, log, subs, queue, view>>
  BY DEF EraseRow
<1>2. req[p] \in DeleteRequest /\ req[p].id \in 1 .. Len(log)
  BY <1>1, RequestFacts DEF ChatInv, Requests
<1>3. new \in DeleteRequest /\ new.pc = "erased" /\ new.id = req[p].id
  BY <1>2 DEF DeleteRequest
<1> HIDE DEF new
<1>4. /\ req' \in [Writers -> {NoRequest} \cup PostRequest \cup DeleteRequest] /\ req'[p] = new
      /\ \A o \in Writers : o # p => req'[o] = req[o]
  BY <1>1, <1>3, RequestNext DEF ChatInv
<1>5. \A j : Gone(j) => Gone(j)'
  BY <1>1 DEF Gone
<1>6. Shapes'
  BY <1>1, <1>4 DEF ChatInv, Shapes
<1>7. Requests'
  BY <1>1, <1>2, <1>3, <1>4, <1>5 DEF ChatInv, Requests, Gone
<1>8. \A j \in table' : Unpublished(j)' \/ (j \in table /\ ~Unpublished(j))
  BY <1>1, <1>3, <1>4 DEF Unpublished
<1> QED
  BY <1>1, <1>5, <1>6, <1>7, <1>8, RowStep

LEMMA FailStep ==
  ASSUME ChatInv, NEW p \in Writers, Fail(p)
  PROVE  ChatInv'
<1>1. /\ req[p].pc \in {"append", "erase"} /\ req' = [req EXCEPT ![p] = NoRequest]
      /\ UNCHANGED <<chatClock, log, table, subs, queue, view>> /\ NoRequest.pc = "idle"
  BY DEF Fail, Leave, NoRequest
<1>2. /\ req' \in [Writers -> {NoRequest} \cup PostRequest \cup DeleteRequest] /\ req'[p] = NoRequest
      /\ \A o \in Writers : o # p => req'[o] = req[o]
  BY <1>1, RequestNext DEF ChatInv
<1>3. Shapes' /\ Requests'
  BY <1>1, <1>2 DEF ChatInv, Shapes, Requests, Gone
<1>4. \A j : Gone(j) => Gone(j)'
  BY <1>1 DEF Gone
<1>5. \A j \in table' : Unpublished(j)' \/ (j \in table /\ ~Unpublished(j))
  BY <1>1, <1>2 DEF Unpublished
<1> QED
  BY <1>1, <1>3, <1>4, <1>5, RowStep

----------------------------------------------------------------------------
(* The bus *)

\* What becomes of a stream's queue: the bus does not know the stream, has to
\* drop it, or hands it the event.
LEMMA PublishFacts ==
  ASSUME Shapes, NEW e \in Event, Publish(e), NEW s \in Streams
  PROVE  \/ s \notin subs /\ queue'[s] = queue[s] /\ s \notin subs'
         \/ s \in subs /\ queue'[s] = <<CLOSED>>
         \/ s \in subs /\ Len(queue[s]) < QueueSize /\ queue'[s] = Append(queue[s], e) /\ s \in subs'
<1>1. Len(queue[s]) \in Nat /\ QueueSize \in Nat
  BY ChatAssumption DEF Shapes
<1> QED
  BY <1>1 DEF Publish, Full, Shapes

LEMMA Appended ==
  ASSUME NEW q \in Seq(Event), NEW e \in Event
  PROVE  /\ Append(q, e) \in Seq(Event) /\ Len(Append(q, e)) = Len(q) + 1
         /\ DOMAIN Append(q, e) = DOMAIN q \cup {Len(q) + 1}
         /\ \A n \in DOMAIN q : Append(q, e)[n] = q[n]
         /\ Append(q, e)[Len(q) + 1] = e
OBVIOUS

LEMMA OneEvent ==
  /\ <<CLOSED>> \in Seq(Event) /\ Len(<<CLOSED>>) = 1 /\ Announced(<<CLOSED>>) /\ Closes(<<CLOSED>>)
<1>1. CLOSED \in Event /\ CLOSED.type = "closed" /\ CLOSED.id = 0
  BY ChatAssumption DEF CLOSED, Event
<1> DEFINE q == <<CLOSED>>
<1>2. q \in Seq(Event) /\ Len(q) = 1 /\ DOMAIN q = {1} /\ q[1] = CLOSED
  BY <1>1
<1> HIDE DEF q
<1>3. Announced(q) /\ Closes(q)
  BY <1>1, <1>2 DEF Announced, Closes
<1> QED
  BY <1>2, <1>3 DEF q

LEMMA PublishStep ==
  ASSUME ChatInv, NEW e \in Event, Publish(e), UNCHANGED <<chatClock, log, table, view>>,
         req' \in [Writers -> {NoRequest} \cup PostRequest \cup DeleteRequest], Requests',
         e.type # "closed", e.type = "delete" => Gone(e.id), e.type = "message" => e.id \in Ids,
         \A i \in table : Unpublished(i) => Unpublished(i)' \/ e = Posted(i)
  PROVE  ChatInv'
<1>1. Shapes
  BY DEF ChatInv
<1>2. \A s \in Streams : queue[s] \in Seq(Event) /\ Len(queue[s]) \in Nat
  BY <1>1 DEF Shapes
<1>3. queue' \in [Streams -> Seq(Event)] /\ subs' \subseteq Streams
  <2>1. ASSUME NEW s \in Streams PROVE queue'[s] \in Seq(Event)
    <3>1. Append(queue[s], e) \in Seq(Event) /\ <<CLOSED>> \in Seq(Event)
      BY <1>2, Appended, OneEvent
    <3>2. queue'[s] \in {queue[s], <<CLOSED>>, Append(queue[s], e)}
      BY <1>1, PublishFacts
    <3> QED
      BY <1>2, <3>1, <3>2
  <2> QED
    BY <1>1, <2>1 DEF Publish, Shapes
<1>4. Shapes'
  BY <1>1, <1>3 DEF Shapes
<1>5. Bounded'
  <2> SUFFICES ASSUME NEW s \in Streams PROVE Len(queue'[s]) <= QueueSize
    BY DEF Bounded
  <2>1. Len(queue[s]) <= QueueSize /\ 1 <= QueueSize /\ QueueSize \in Nat
    BY ChatAssumption DEF ChatInv, Bounded
  <2>2. Len(Append(queue[s], e)) = Len(queue[s]) + 1
    BY <1>2, Appended
  <2>3. \/ queue'[s] = queue[s]
        \/ queue'[s] = <<CLOSED>>
        \/ Len(queue[s]) < QueueSize /\ queue'[s] = Append(queue[s], e)
    BY <1>1, PublishFacts
  <2>4. CASE Len(queue[s]) < QueueSize /\ queue'[s] = Append(queue[s], e)
    <3>1. Len(queue'[s]) = Len(queue[s]) + 1
      BY <2>2, <2>4, Zenon
    <3> QED
      BY <1>2, <2>1, <2>4, <3>1
  <2>5. CASE queue'[s] = <<CLOSED>>
    BY <2>1, <2>5, OneEvent
  <2> QED
    BY <2>1, <2>3, <2>4, <2>5
<1>6. ASSUME NEW s \in Streams PROVE Announced(queue'[s]) /\ Heard(s)' /\ Covered(s)'
  <2>0. Announced(queue[s]) /\ Heard(s) /\ Covered(s)
    BY DEF ChatInv
  <2>1. CASE s \notin subs /\ queue'[s] = queue[s] /\ s \notin subs'
    <3>1. Announced(queue'[s])
      BY <1>4, <2>0, <2>1 DEF Announced, Gone
    <3>2. Heard(s)'
      BY <2>0, <2>1 DEF Heard
    <3>3. Covered(s)'
      BY <2>0, <2>1 DEF Heard, Covered
    <3> QED
      BY <3>1, <3>2, <3>3
  <2>2. CASE queue'[s] = <<CLOSED>>
    BY <2>2, OneEvent DEF Heard, Covered, Closes
  <2>3. CASE /\ s \in subs /\ Len(queue[s]) < QueueSize
             /\ queue'[s] = Append(queue[s], e) /\ s \in subs'
    <3> DEFINE q == queue[s]
               r == queue'[s]
               last == Len(queue[s]) + 1
    <3>1. /\ DOMAIN r = DOMAIN q \cup {last} /\ r[last] = e
          /\ \A n \in DOMAIN q : r[n] = q[n]
      BY <1>2, <2>3, Appended
    <3> HIDE DEF q, r, last
    <3>2. Announced(r)
      <4>1. Announced(q)
        BY <2>0 DEF q
      <4> QED
        BY <3>1, <4>1 DEF Announced
    <3>3. Closes(q) => Closes(r)
      BY <3>1 DEF Closes
    <3>4. Heard(s)'
      BY <2>3 DEF Heard
    <3>5. Covered(s)'
      <4> SUFFICES ASSUME view[s].state = "streaming", ~Closes(r), NEW i \in table, i >= view[s].from
                   PROVE  Coming(s, i)' \/ Unpublished(i)'
        BY DEF Covered, r
      <4>1. Coming(s, i) \/ Unpublished(i)
        BY <2>0, <3>3 DEF Covered, q
      <4>2. CASE i \in view[s].shown
        BY <4>2 DEF Coming
      <4>3. CASE \E n \in DOMAIN q : q[n] = Posted(i)
        <5>1. PICK n \in DOMAIN r : r[n] = Posted(i)
          BY <3>1, <4>3
        <5> QED
          BY <5>1 DEF Coming, r, Posted
      <4>4. CASE Unpublished(i)
        <5>1. CASE e = Posted(i)
          <6>1. PICK n \in DOMAIN r : r[n] = Posted(i)
            BY <3>1, <5>1
          <6> QED
            BY <6>1 DEF Coming, r, Posted
        <5> QED
          BY <4>4, <5>1
      <4> QED
        BY <4>1, <4>2, <4>3, <4>4 DEF Coming, q
    <3> QED
      BY <3>2, <3>4, <3>5 DEF r
  <2> QED
    BY <1>1, <2>1, <2>2, <2>3, PublishFacts
<1>7. \A s \in Streams : Announced(queue[s])'
  BY <1>6 DEF Announced, Gone
<1> QED
  BY <1>4, <1>5, <1>6, <1>7 DEF ChatInv

LEMMA FinishPostStep ==
  ASSUME ChatInv, NEW p \in Writers, FinishPost(p)
  PROVE  ChatInv'
<1> DEFINE e == Posted(req[p].id)
<1>1. /\ req[p].pc = "appended" /\ Publish(e) /\ req' = [req EXCEPT ![p] = NoRequest]
      /\ UNCHANGED <<chatClock, log, table, view>> /\ NoRequest.pc = "idle"
  BY DEF FinishPost, Leave, NoRequest
<1>2. req[p].id \in Ids
  BY <1>1, RequestFacts DEF ChatInv
<1>3. e \in Event /\ e.type = "message" /\ e.id \in Ids
  BY <1>2, ChatAssumption DEF Posted, Event, Ids
<1>4. /\ req' \in [Writers -> {NoRequest} \cup PostRequest \cup DeleteRequest] /\ req'[p] = NoRequest
      /\ \A o \in Writers : o # p => req'[o] = req[o]
  BY <1>1, RequestNext DEF ChatInv
<1>5. Requests'
  BY <1>1, <1>4 DEF ChatInv, Requests, Gone
<1>6. \A i \in table : Unpublished(i) => Unpublished(i)' \/ e = Posted(i)
  BY <1>4 DEF Unpublished
<1> HIDE DEF e
<1> QED
  BY <1>1, <1>3, <1>4, <1>5, <1>6, PublishStep

LEMMA FinishDeleteStep ==
  ASSUME ChatInv, NEW p \in Writers, FinishDelete(p)
  PROVE  ChatInv'
<1> DEFINE e == Deleted(req[p].id)
<1>1. /\ req[p].pc = "erased" /\ Publish(e) /\ req' = [req EXCEPT ![p] = NoRequest]
      /\ UNCHANGED <<chatClock, log, table, view>> /\ NoRequest.pc = "idle"
  BY DEF FinishDelete, Leave, NoRequest
<1>2. req[p].id \in Ids /\ Gone(req[p].id)
  BY <1>1, RequestFacts DEF ChatInv, Requests
<1>3. e \in Event /\ e.type = "delete" /\ e.id = req[p].id
  BY <1>2, ChatAssumption DEF Deleted, Event, Ids
<1>4. /\ req' \in [Writers -> {NoRequest} \cup PostRequest \cup DeleteRequest] /\ req'[p] = NoRequest
      /\ \A o \in Writers : o # p => req'[o] = req[o]
  BY <1>1, RequestNext DEF ChatInv
<1>5. Requests'
  BY <1>1, <1>4 DEF ChatInv, Requests, Gone
<1>6. \A i \in table : Unpublished(i) => Unpublished(i)'
  BY <1>1, <1>4 DEF Unpublished
<1> HIDE DEF e
<1> QED
  BY <1>1, <1>2, <1>3, <1>4, <1>5, <1>6, PublishStep

----------------------------------------------------------------------------
(* Streams *)

\* A step of one stream.
LEMMA StreamStep ==
  ASSUME ChatInv, NEW s \in Streams, UNCHANGED <<chatClock, log, table, req>>,
         queue' \in [Streams -> Seq(Event)], view' \in [Streams -> View], subs' \subseteq Streams,
         \A o \in Streams : o # s =>
           /\ queue'[o] = queue[o] /\ view'[o] = view[o]
           /\ o \in subs <=> o \in subs',
         Len(queue'[s]) <= QueueSize, Announced(queue'[s]), Heard(s)', Covered(s)'
  PROVE  ChatInv'
<1>1. Shapes' /\ Bounded' /\ Requests'
  BY DEF ChatInv, Shapes, Bounded, Requests, Gone
<1>2. \A o \in Streams : Announced(queue[o])'
  <2> SUFFICES ASSUME NEW o \in Streams PROVE Announced(queue'[o])
    BY DEF Announced, Gone
  <2> QED
    BY DEF ChatInv
<1>3. \A o \in Streams : Heard(o)' /\ Covered(o)'
  <2> SUFFICES ASSUME NEW o \in Streams, o # s PROVE Heard(o)' /\ Covered(o)'
    OBVIOUS
  <2>1. Heard(o) /\ Covered(o) /\ queue'[o] = queue[o] /\ view'[o] = view[o] /\ (o \in subs <=> o \in subs')
    BY DEF ChatInv
  <2>2. Heard(o)'
    BY <2>1 DEF Heard
  <2>3. Covered(o)'
    BY <2>1 DEF Covered, Coming, Unpublished
  <2> QED
    BY <2>2, <2>3
<1> QED
  BY <1>1, <1>2, <1>3 DEF ChatInv

LEMMA Nothing ==
  /\ <<>> \in Seq(Event) /\ Len(<<>>) = 0 /\ Announced(<<>>) /\ ~Closes(<<>>)
BY DEF Announced, Closes

LEMMA SubscribeStep ==
  ASSUME ChatInv, NEW s \in Streams, Subscribe(s)
  PROVE  ChatInv'
<1> DEFINE v == [state |-> "opening", from |-> 0, shown |-> {}]
<1>1. /\ subs' = subs \cup {s} /\ queue' = [queue EXCEPT ![s] = <<>>] /\ view' = [view EXCEPT ![s] = v]
      /\ UNCHANGED <<chatClock, log, table, req>>
  BY DEF Subscribe
<1>2. v \in View /\ v.state = "opening"
  BY ChatAssumption DEF View
<1> HIDE DEF v
<1>3. /\ queue' \in [Streams -> Seq(Event)] /\ queue'[s] = <<>>
      /\ view' \in [Streams -> View] /\ view'[s] = v /\ subs' \subseteq Streams
      /\ \A o \in Streams : o # s =>
           /\ queue'[o] = queue[o] /\ view'[o] = view[o]
           /\ o \in subs <=> o \in subs'
  BY <1>1, <1>2, Nothing DEF ChatInv, Shapes
<1>4. Len(queue'[s]) <= QueueSize /\ Announced(queue'[s])
  BY <1>3, Nothing, ChatAssumption
<1>5. Heard(s)' /\ Covered(s)'
  BY <1>1, <1>2, <1>3 DEF Heard, Covered
<1> QED
  BY <1>1, <1>3, <1>4, <1>5, StreamStep

LEMMA DisconnectStep ==
  ASSUME ChatInv, NEW s \in Streams, Disconnect(s)
  PROVE  ChatInv'
<1>1. /\ subs' = subs \ {s} /\ queue' = [queue EXCEPT ![s] = <<>>] /\ view' = [view EXCEPT ![s] = Offline]
      /\ UNCHANGED <<chatClock, log, table, req>>
  BY DEF Disconnect
<1>2. Offline \in View /\ Offline.state = "offline"
  BY ChatAssumption DEF View, Offline
<1>3. /\ queue' \in [Streams -> Seq(Event)] /\ queue'[s] = <<>>
      /\ view' \in [Streams -> View] /\ view'[s] = Offline /\ subs' \subseteq Streams
      /\ \A o \in Streams : o # s =>
           /\ queue'[o] = queue[o] /\ view'[o] = view[o]
           /\ o \in subs <=> o \in subs'
  BY <1>1, <1>2, Nothing DEF ChatInv, Shapes
<1>4. Len(queue'[s]) <= QueueSize /\ Announced(queue'[s])
  BY <1>3, Nothing, ChatAssumption
<1>5. Heard(s)' /\ Covered(s)'
  BY <1>2, <1>3 DEF Heard, Covered
<1> QED
  BY <1>1, <1>3, <1>4, <1>5, StreamStep

\* What is listed starts at some row and misses none that is newer.
LEMMA ListedFacts ==
  ASSUME Shapes, Listed # table
  PROVE  \E m \in Ids : /\ m = CHOOSE i \in Listed : \A j \in Listed : i <= j
                        /\ \A i \in table : i >= m => i \in Listed
<1> DEFINE Newer(i) == {j \in table : j > i}
           b == Len(log)
<1>1. /\ b \in Nat /\ b <= MaxMessages /\ table \in SUBSET (0 .. b) /\ table \in SUBSET Nat
      /\ table \subseteq Ids /\ MaxListed \in Nat \ {0}
  BY ChatAssumption DEF Shapes, Ids
<1>2. \A i \in table : IsFiniteSet(Newer(i)) /\ Cardinality(Newer(i)) \in Nat
  <2> TAKE i \in table
  <2>1. IsFiniteSet(0 .. b)
    BY <1>1, FS_Interval
  <2>2. Newer(i) \in SUBSET (0 .. b)
    BY <1>1
  <2> QED
    BY <2>1, <2>2, FS_Subset, FS_CardinalityType
<1>3. table # {}
  BY DEF Listed
<1>4. Listed # {}
  <2>1. PICK g \in table : \A k \in table : k <= g
    <3> HIDE DEF b
    <3> QED
      BY <1>1, <1>3, Greatest
  <2>2. Newer(g) = {}
    <3> SUFFICES ASSUME NEW k \in table, k > g PROVE FALSE
      OBVIOUS
    <3>1. k \in Nat /\ g \in Nat /\ k <= g
      BY <1>1, <2>1
    <3> QED
      BY <3>1
  <2>3. Cardinality(Newer(g)) < MaxListed
    <3> HIDE DEF Newer
    <3> QED
      BY <1>1, <2>2, FS_EmptySet
  <2> QED
    BY <2>1, <2>3 DEF Listed
<1> DEFINE m == CHOOSE i \in Listed : \A j \in Listed : i <= j
<1>5. m \in Listed /\ \A j \in Listed : m <= j
  <2>1. Listed \in SUBSET Nat
    BY <1>1 DEF Listed
  <2> QED
    BY <1>4, <2>1, Least
<1>6. m \in Ids /\ m \in table /\ Cardinality(Newer(m)) < MaxListed
  BY <1>1, <1>5 DEF Listed
<1> HIDE DEF m
<1>7. ASSUME NEW i \in table, i >= m PROVE i \in Listed
  <2>1. Newer(i) \in SUBSET Newer(m)
    <3>1. i \in Nat /\ m \in Nat /\ i >= m
      BY <1>1, <1>6, <1>7
    <3> SUFFICES ASSUME NEW k \in table, k > i PROVE k > m
      OBVIOUS
    <3>2. k \in Nat
      BY <1>1
    <3> QED
      BY <3>1, <3>2
  <2>2. Cardinality(Newer(i)) <= Cardinality(Newer(m))
    <3> HIDE DEF Newer
    <3> QED
      BY <1>2, <1>6, <2>1, FS_Subset
  <2>3. Cardinality(Newer(i)) < MaxListed
    <3> HIDE DEF Newer
    <3> QED
      BY <1>1, <1>2, <1>6, <2>2
  <2> QED
    BY <2>3 DEF Listed
<1> QED
  BY <1>6, <1>7 DEF m

LEMMA SnapshotStep ==
  ASSUME ChatInv, NEW s \in Streams, Snapshot(s)
  PROVE  ChatInv'
<1> DEFINE m == CHOOSE i \in Listed : \A j \in Listed : i <= j
           v == [state |-> "streaming", shown |-> Listed, from |-> IF Listed = table THEN 0 ELSE m]
<1>1. /\ view[s].state = "opening" /\ view' = [view EXCEPT ![s] = v]
      /\ UNCHANGED <<chatClock, log, table, req, subs, queue>>
  BY DEF Snapshot
<1>2. Listed \subseteq table /\ table \subseteq Ids
  BY ChatAssumption DEF Listed, ChatInv, Shapes, Ids
<1>3. v.from \in 0 .. MaxMessages /\ \A i \in table : i >= v.from => i \in Listed
  <2>1. CASE Listed = table
    BY <2>1, ChatAssumption
  <2>2. CASE Listed # table
    <3>1. m \in Ids /\ \A i \in table : i >= m => i \in Listed
      BY <2>2, ListedFacts DEF ChatInv
    <3>2. v.from = m
      BY <2>2
    <3> HIDE DEF m, v
    <3> QED
      BY <3>1, <3>2, ChatAssumption DEF Ids
  <2> QED
    BY <2>1, <2>2
<1>4. v \in View /\ v.state = "streaming" /\ v.shown = Listed
  <2> DEFINE f == IF Listed = table THEN 0 ELSE m
  <2>1. f \in 0 .. MaxMessages
    BY <1>3
  <2> HIDE DEF f
  <2>2. [state |-> "streaming", shown |-> Listed, from |-> f] \in View
    BY <1>2, <2>1 DEF View
  <2> QED
    BY <2>2 DEF f
<1> HIDE DEF v
<1>5. /\ queue' \in [Streams -> Seq(Event)] /\ queue'[s] = queue[s]
      /\ view' \in [Streams -> View] /\ view'[s] = v /\ subs' \subseteq Streams
      /\ \A o \in Streams : o # s =>
           /\ queue'[o] = queue[o] /\ view'[o] = view[o]
           /\ o \in subs <=> o \in subs'
  BY <1>1, <1>4 DEF ChatInv, Shapes
<1>6. Len(queue'[s]) <= QueueSize /\ Announced(queue'[s])
  BY <1>5 DEF ChatInv, Bounded
<1>7. Heard(s)'
  BY <1>1, <1>5 DEF Heard, ChatInv
<1>8. Covered(s)'
  BY <1>1, <1>3, <1>4, <1>5 DEF Covered, Coming
<1> QED
  BY <1>1, <1>5, <1>6, <1>7, <1>8, StreamStep

LEMMA ReceiveStep ==
  ASSUME ChatInv, NEW s \in Streams, Receive(s)
  PROVE  ChatInv'
<1> DEFINE q == queue[s]
           r == Tail(queue[s])
           event == Head(queue[s])
<1>1. /\ view[s].state = "streaming" /\ q # <<>> /\ queue' = [queue EXCEPT ![s] = r]
      /\ UNCHANGED <<chatClock, log, table, req>>
  BY DEF Receive
<1>2. \/ /\ event.type = "message" /\ subs' = subs
         /\ view' = [view EXCEPT ![s].shown = @ \cup {event.id}]
      \/ /\ event.type = "delete" /\ subs' = subs
         /\ view' = [view EXCEPT ![s].shown = @ \ {event.id}]
      \/ /\ event.type = "closed" /\ subs' = subs \ {s}
         /\ view' = [view EXCEPT ![s] = Offline]
  BY DEF Receive
<1>3. q \in Seq(Event) /\ view[s] \in View /\ Len(q) \in Nat /\ Len(q) <= QueueSize /\ QueueSize \in Nat
  BY ChatAssumption DEF ChatInv, Shapes, Bounded
<1>4. /\ r \in Seq(Event) /\ Len(r) = Len(q) - 1 /\ event \in Event /\ event = q[1] /\ 1 \in DOMAIN q
      /\ \A n \in DOMAIN r : n + 1 \in DOMAIN q /\ r[n] = q[n + 1]
      /\ \A n \in DOMAIN q : n = 1 \/ (n - 1 \in DOMAIN r /\ r[n - 1] = q[n])
  BY <1>1, <1>3
<1>5. Announced(q) /\ Heard(s) /\ Covered(s)
  BY DEF ChatInv
<1>6. event.type = "delete" => Gone(event.id)
  <2> HIDE DEF q, event
  <2> QED
    BY <1>4, <1>5 DEF Announced
<1>7. Announced(r)
  <2> HIDE DEF q, r
  <2> QED
    BY <1>4, <1>5 DEF Announced
<1>8. Closes(q) => Closes(r) \/ event = CLOSED
  <2> HIDE DEF q, r, event
  <2> QED
    BY <1>4 DEF Closes
<1>9. \A i : (\E n \in DOMAIN q : q[n] = Posted(i)) => event = Posted(i) \/ \E n \in DOMAIN r : r[n] = Posted(i)
  <2> HIDE DEF q, r, event
  <2> QED
    BY <1>4
<1>10. Len(r) <= QueueSize
  <2> HIDE DEF q, r
  <2> QED
    BY <1>3, <1>4
<1>11. /\ queue' \in [Streams -> Seq(Event)] /\ queue'[s] = r
       /\ \A o \in Streams : o # s => queue'[o] = queue[o]
  <2> HIDE DEF r
  <2> QED
    BY <1>1, <1>4 DEF ChatInv, Shapes
<1>12. /\ event.type = "message" => event.id \in Ids
       /\ event.type = "closed" => event = CLOSED
  <2>1. /\ event.type = "message" => event.id \in Ids
        /\ event.type = "closed" => event.id = 0
    <3> HIDE DEF q, event
    <3> QED
      BY <1>4, <1>5 DEF Announced
  <2> HIDE DEF event
  <2> QED
    BY <1>4, <2>1 DEF Event, CLOSED
<1>13. Offline \in View /\ Offline.state = "offline"
  BY ChatAssumption DEF View, Offline
<1> HIDE DEF q, r, event
<1>14. CASE event.type # "closed"
  <2> DEFINE more == IF event.type = "message" THEN view[s].shown \cup {event.id}
                     ELSE view[s].shown \ {event.id}
             v == [view[s] EXCEPT !.shown = more]
  <2>1. view' = [view EXCEPT ![s] = v] /\ subs' = subs
    BY <1>2, <1>14
  <2>2. more \subseteq Ids
    BY <1>3, <1>12 DEF View
  <2> HIDE DEF more
  <2>3. v \in View /\ v.state = view[s].state /\ v.from = view[s].from /\ v.shown = more
    BY <1>3, <2>2 DEF View
  <2> HIDE DEF v
  <2>4. /\ view' \in [Streams -> View] /\ view'[s] = v /\ subs' \subseteq Streams
        /\ \A o \in Streams : o # s => view'[o] = view[o] /\ (o \in subs <=> o \in subs')
    BY <2>1, <2>3 DEF ChatInv, Shapes
  <2>5. Closes(q) => Closes(r)
    BY <1>8, <1>14 DEF CLOSED
  <2>6. Heard(s)'
    BY <1>5, <1>11, <2>1, <2>3, <2>4, <2>5 DEF Heard, q
  <2>7. Covered(s)'
    <3> SUFFICES ASSUME ~Closes(r), NEW i \in table, i >= view[s].from
                 PROVE  Coming(s, i)' \/ Unpublished(i)'
      BY <1>1, <1>11, <2>3, <2>4 DEF Covered
    <3>1. Coming(s, i) \/ Unpublished(i)
      BY <1>1, <1>5, <2>5 DEF Covered, q
    <3>2. i \in more => Coming(s, i)'
      BY <2>3, <2>4 DEF Coming
    <3>3. (\E n \in DOMAIN r : r[n] = Posted(i)) => Coming(s, i)'
      BY <1>11 DEF Coming, Posted
    <3>4. i \in view[s].shown => i \in more
      <4>1. event.type \in {"message", "delete"}
        BY <1>4, <1>14 DEF Event
      <4>2. event.type = "delete" => event.id # i
        BY <1>6 DEF Gone
      <4> QED
        BY <4>1, <4>2 DEF more
    <3>5. event = Posted(i) => i \in more
      BY DEF more, Posted
    <3>6. Coming(s, i) => Coming(s, i)'
      BY <1>9, <3>2, <3>3, <3>4, <3>5 DEF Coming, q
    <3>7. Unpublished(i) => Unpublished(i)'
      BY <1>1 DEF Unpublished
    <3> QED
      BY <3>1, <3>6, <3>7
  <2> QED
    BY <1>1, <1>7, <1>10, <1>11, <2>4, <2>6, <2>7, StreamStep
<1>15. CASE event.type = "closed"
  <2>1. view' = [view EXCEPT ![s] = Offline] /\ subs' = subs \ {s}
    BY <1>2, <1>15
  <2>2. /\ view' \in [Streams -> View] /\ view'[s] = Offline /\ subs' \subseteq Streams
        /\ \A o \in Streams : o # s => view'[o] = view[o] /\ (o \in subs <=> o \in subs')
    BY <1>13, <2>1 DEF ChatInv, Shapes
  <2>3. Heard(s)' /\ Covered(s)'
    BY <1>13, <2>2 DEF Heard, Covered
  <2> QED
    BY <1>1, <1>7, <1>10, <1>11, <2>2, <2>3, StreamStep
<1> QED
  BY <1>14, <1>15

LEMMA RestartStep == ChatInv /\ RestartChat => ChatInv'
<1> SUFFICES ASSUME ChatInv, RestartChat PROVE ChatInv'
  OBVIOUS
<1>1. /\ req' = [p \in Writers |-> NoRequest] /\ subs' = {} /\ queue' = [s \in Streams |-> <<>>]
      /\ view' = [s \in Streams |-> Offline] /\ UNCHANGED <<chatClock, log, table>>
  BY DEF RestartChat
<1>2. Offline \in View /\ Offline.state = "offline" /\ NoRequest.pc = "idle"
  BY ChatAssumption DEF View, Offline, NoRequest
<1>3. Shapes'
  BY <1>1, <1>2, Nothing DEF ChatInv, Shapes
<1>4. Bounded'
  BY <1>1, Nothing, ChatAssumption DEF Bounded
<1>5. Requests'
  BY <1>1, <1>2 DEF Requests
<1>6. \A s \in Streams : Announced(queue[s])' /\ Heard(s)' /\ Covered(s)'
  BY <1>1, <1>2 DEF Announced, Heard, Covered
<1> QED
  BY <1>3, <1>4, <1>5, <1>6 DEF ChatInv

LEMMA ChatInvStep == ChatInv /\ [ChatNext]_chatvars => ChatInv'
<1> SUFFICES ASSUME ChatInv, [ChatNext]_chatvars PROVE ChatInv'
  OBVIOUS
<1>1. CASE \E p \in Writers, u \in Posters : BeginPost(p, u)
  BY <1>1, BeginPostStep
<1>2. CASE \E p \in Writers, i \in Ids : BeginErase(p, i)
  BY <1>2, BeginEraseStep
<1>3. CASE \E p \in Writers : AppendRow(p) \/ HandleChat(p) \/ Fail(p)
  BY <1>3, AppendRowStep, FinishPostStep, EraseRowStep, FinishDeleteStep, FailStep DEF HandleChat
<1>4. CASE \E s \in Streams : Subscribe(s) \/ Snapshot(s) \/ Receive(s) \/ Disconnect(s)
  BY <1>4, SubscribeStep, SnapshotStep, ReceiveStep, DisconnectStep
<1>5. CASE RestartChat
  BY <1>5, RestartStep
<1>6. CASE ChatTick \/ UNCHANGED chatvars
  <2>1. UNCHANGED <<log, table, req, subs, queue, view>> /\ chatClock' \in Nat
    BY <1>6 DEF ChatTick, chatvars, ChatInv, Shapes
  <2>2. Shapes'
    BY <2>1 DEF ChatInv, Shapes
  <2>3. Requests' /\ (\A i : Gone(i) => Gone(i)') /\ \A i : Unpublished(i) => Unpublished(i)'
    BY <2>1 DEF ChatInv, Requests, Gone, Unpublished
  <2> QED
    BY <2>1, <2>2, <2>3, RowStep
<1> QED
  BY <1>1, <1>2, <1>3, <1>4, <1>5, <1>6 DEF ChatNext

----------------------------------------------------------------------------
(* Theorems *)

\* The inductive invariant holds in every behaviour (chat/service.py,
\* chat/adapters/memory_bus.py and chat/router.py together).
THEOREM ChatInvariant == ChatSpec => []ChatInv
<1>1. ChatInit => ChatInv
  BY ChatInvInit
<1>2. ChatInv /\ [ChatNext]_chatvars => ChatInv'
  BY ChatInvStep
<1> QED
  BY <1>1, <1>2, PTL DEF ChatSpec

\* No subscription's queue ever grows past QUEUE_SIZE: publish drops the stream that
\* has stopped reading instead of keeping its events (memory_bus.py).
THEOREM QueuesStayBounded == ChatSpec => []Bounded
<1>1. ChatInv => Bounded
  BY DEF ChatInv
<1> QED
  BY <1>1, ChatInvariant, PTL

\* What is queued about a row that stays is that it was posted.
LEMMA OnlyPosts ==
  ASSUME ChatInv, NEW s \in Streams, NEW i \in table, NEW n \in About(s, i)
  PROVE  queue[s][n].type = "message"
<1>1. queue[s] \in Seq(Event) /\ n \in DOMAIN queue[s] /\ queue[s][n].id = i /\ i # 0
  BY DEF ChatInv, Shapes, About
<1>2. /\ queue[s][n].type = "delete" => Gone(i)
      /\ queue[s][n].type = "closed" => i = 0
  BY <1>1 DEF ChatInv, Announced
<1>3. queue[s][n].type \in {"message", "delete", "closed"}
  <2> DEFINE q == queue[s]
  <2>1. q[n] \in Event
    <3> HIDE DEF q
    <3> QED
      BY <1>1 DEF q
  <2>2. \A e \in Event : e.type \in {"message", "delete", "closed"}
    BY DEF Event
  <2> QED
    BY <2>1, <2>2
<1> QED
  BY <1>1, <1>2, <1>3 DEF Gone

LEMMA InvMissesNothing == ChatInv => NothingMissed
<1> SUFFICES ASSUME ChatInv, NEW s \in Streams, Watching(s), NEW i \in table, i >= view[s].from
             PROVE  WillShow(s, i) \/ \E p \in Writers : req[p].pc = "appended" /\ req[p].id = i
  BY DEF NothingMissed
<1>1. Coming(s, i) \/ Unpublished(i)
  BY DEF ChatInv, Covered, Watching, Closes
<1>2. CASE About(s, i) = {}
  <2>1. \A n \in DOMAIN queue[s] : queue[s][n] # Posted(i)
    BY <1>2 DEF About, Posted
  <2> QED
    BY <1>1, <1>2, <2>1 DEF Coming, WillShow, Unpublished
<1>3. CASE About(s, i) # {}
  <2>1. Len(queue[s]) \in Nat /\ About(s, i) \in SUBSET (0 .. Len(queue[s]))
    BY DEF ChatInv, Shapes, About
  <2>2. PICK n \in About(s, i) : \A k \in About(s, i) : k <= n
    BY <1>3, <2>1, Greatest
  <2>3. queue[s][n].type = "message"
    BY OnlyPosts
  <2> QED
    BY <1>3, <2>2, <2>3 DEF WillShow
<1> QED
  BY <1>2, <1>3

\* A stream that goes on shows, or has queued, every message since its snapshot
\* began, unless the message's own request is still about to publish it: to
\* subscribe before the snapshot is read loses nothing (the docstring of the stream
\* in chat/router.py), whatever posts, deletions and other streams run in between.
THEOREM StreamsMissNothing == ChatSpec => []NothingMissed
<1> QED
  BY InvMissesNothing, ChatInvariant, PTL
=============================================================================
