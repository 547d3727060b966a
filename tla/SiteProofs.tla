----------------------------- MODULE SiteProofs -----------------------------
(***************************************************************************)
(* Proofs about the services behind the cache, for any number of requests, *)
(* posts, channels and players, any time to live, and a cache that may     *)
(* lose what it is told: what is served is current unless a race or a loss *)
(* explains it, votes are counted right, replies are shown where they      *)
(* belong, and a channel is beside one player in an answer.                *)
(*                                                                         *)
(* The inductive invariant SInv has a part for each kind of state: Shapes  *)
(* for the cache and the requests under way, Current for what entries and  *)
(* unfinished fills may be relied on for, Paired for views made together,  *)
(* Ballots for the thumbs and the post's lock, Threads for the comments,   *)
(* OnAir for the streams, Pictures for the popups and Edits for the saves. *)
(***************************************************************************)
EXTENDS SiteServices, FiniteSetTheorems, SequenceTheorems, TLAPS

\* The entries filled by one request in two steps.
FillKeys == {LIST, ACTIVE, CHANNELS} \cup Posts \cup Players

\* An answer in which no channel is beside two players, and no player has two.
OneEach(answer) ==
  /\ \A x \in answer : x.channel \in Channels
  /\ \A x, y \in answer : x.user = y.user <=> x.channel = y.channel

\* What any value of an entry is, current or not.
Fits(k, v) ==
  /\ k = ACTIVE => \A x \in v : x.id \in Popups
  /\ k = CHANNELS => OneEach(v)

\* A value of an entry that is current.
Right(k, v) ==
  /\ k = LIST => Titles(v) = Titles(Listing)
  /\ k \in Posts => posts[k] # NoPost /\ v = Truth(k)
  /\ k = ACTIVE => v = ActivePopups
  /\ k = CHANNELS => v = Registered
  /\ k \in Players => v >= edited[k]

Entry(e) == e = [value |-> e.value, left |-> e.left, excused |-> e.excused]
            /\ e.left \in 1 .. TTL /\ e.excused \in BOOLEAN

\* A read of an entry that is to be stored.
Reading(j) == j = [pc |-> j.pc, key |-> j.key, value |-> j.value, late |-> j.late] /\ j.late \in BOOLEAN

\* What a request knows of what it is about to do.
Shaped(j) ==
  /\ j.pc = "fill" => Reading(j) /\ j.key \in FillKeys /\ Fits(j.key, j.value)
  /\ j.pc = "comments" => Reading(j) /\ j.key \in Posts /\ j.value = [row |-> j.value.row]
  /\ j.pc = "invalidate" => j.keys \subseteq FillKeys
  /\ j.pc = "ranks" => j.keys = {RANKS, HOLDERS} \/ j.keys = {BOARD, PLAYER}
  /\ j.pc = "create" => j.who \in People /\ j.notice \in BOOLEAN
  /\ j.pc = "update" => j.id \in Posts /\ j.notice \in BOOLEAN
  /\ j.pc \in {"delete", "reply", "erase", "thumb", "tally", "counted"} => j.id \in Posts
  /\ j.pc \in {"thumb", "tally"} =>
       j = [pc |-> j.pc, id |-> j.id, who |-> j.who, up |-> j.up] /\ j.up \in BOOLEAN
  /\ j.pc = "live" =>
       j = [pc |-> j.pc, todo |-> j.todo, found |-> j.found] /\ OneEach(j.todo \cup j.found)

Shapes ==
  /\ store = [k \in Keys |-> store[k]]
  /\ \A k \in Keys : Cached(k) => Entry(store[k]) /\ Fits(k, store[k].value)
  /\ job = [q \in Requests |-> job[q]]
  /\ \A q \in Requests : Shaped(job[q])

\* A row as read, while it is the post's.
RowRead(p, row) == Exists(p) /\ posts[p] = row

\* A fill under way that nothing overtook is current, and so is the row of a post
\* whose comments are still to be read.
Current ==
  /\ \A k \in Keys : \A v : Trusted(k) /\ store[k].value = v => Right(k, v)
  /\ \A q \in Requests : \A k, v :
       job[q].pc = "fill" /\ job[q].key = k /\ job[q].value = v /\ ~job[q].late => Right(k, v)
  /\ \A q \in Requests : \A p, row :
       job[q].pc = "comments" /\ job[q].key = p /\ job[q].value.row = row /\ ~job[q].late => RowRead(p, row)

\* The views that are made of one answer.
Paired ==
  /\ Trusted(RANKS) /\ Trusted(HOLDERS) => store[RANKS].value = store[HOLDERS].value
  /\ Trusted(BOARD) /\ Trusted(PLAYER) => store[BOARD].value = store[PLAYER].value

VotedBy(p, who) == \E t \in thumb : t.on = p /\ t.voter = who

\* The votes on p, with one more that is not committed yet.
With(votes, counts) == votes + IF counts THEN 1 ELSE 0

\* What a request has counted under the lock is still so.
Counting(q) ==
  /\ job[q].pc = "tally" => postLock[job[q].id] = q /\ ~VotedBy(job[q].id, job[q].who)
  /\ job[q].pc = "counted" =>
       LET v == job[q].vote IN
       /\ postLock[job[q].id] = q
       /\ v = [on |-> job[q].id, voter |-> v.voter, up |-> v.up] /\ v.up \in BOOLEAN
       /\ ~VotedBy(job[q].id, v.voter)
       /\ job[q].up = With(Votes(job[q].id, TRUE), v.up)
       /\ job[q].down = With(Votes(job[q].id, FALSE), ~v.up)

\* Whoever is between the lock and the commit of a vote holds the post's row.
Locks ==
  /\ posts \in [Posts -> PostRow \cup {NoPost, Gone}]
  /\ postLock \in [Posts -> Requests \cup {NoHolder}]
  /\ \A p \in Posts : postLock[p] # NoHolder =>
       /\ job[postLock[p]].pc \in {"tally", "counted"} /\ job[postLock[p]].id = p
       /\ Exists(p)

Thumbs ==
  /\ IsFiniteSet(thumb)
  /\ \A t \in thumb : t = [on |-> t.on, voter |-> t.voter, up |-> t.up] /\ t.up \in BOOLEAN
                      /\ t.on \in Posts /\ Exists(t.on)

Ballots == Locks /\ Thumbs /\ ThumbsAgree /\ \A q \in Requests : Counting(q)

\* What a request that is to write a comment, or to delete, relies on.
Claim(r) ==
  /\ job[r].pc \in {"reply", "erase", "delete"} => posts[job[r].id] # NoPost
  /\ job[r].pc = "reply" =>
       /\ job[r].who \in People
       /\ job[r].parent = 0 \/
            /\ job[r].parent \in DOMAIN comment /\ comment[job[r].parent].parent = 0
            /\ \/ comment[job[r].parent].on = job[r].id
               \/ posts[job[r].id] = Gone
  /\ job[r].pc = "erase" => job[r].n \in DOMAIN comment /\ comment[job[r].n].on \in {job[r].id, Gone}

\* Replies have one level, and stay with their heads, on the post or with it gone.
Threads ==
  /\ comment \in Seq([on : Posts \cup {Gone}, parent : Nat, author : People, deleted : BOOLEAN])
  /\ \A n \in DOMAIN comment :
       /\ comment[n].parent < n
       /\ comment[n].parent # 0 =>
            comment[comment[n].parent].parent = 0 /\ comment[comment[n].parent].on = comment[n].on
  /\ \A q \in Requests : Claim(q)

OnAir ==
  /\ channel \in [Streamers -> Channels \cup {NoChannel}]
  /\ \A u, v \in Streamers : channel[u] = channel[v] /\ channel[u] # NoChannel => u = v

Pictures ==
  /\ popup = [p \in Popups |-> popup[p]]
  /\ \A p \in Popups : popup[p] # Nothing => popup[p].image \in Images \cup {NoImage}
  /\ \A x \in asked : x.id \in Popups
  /\ \A x \in keptImages : x.image \in Images

Edits ==
  /\ save \in [Players -> Nat] /\ edited \in [Players -> Nat]
  /\ \A u \in Players : edited[u] <= save[u]
  /\ preview = [q \in Requests |-> preview[q]]
  /\ \A q \in Requests : preview[q].npid \in Players \cup {Nothing}

CacheInv == Shapes /\ Current /\ Paired

SInv == CacheInv /\ Ballots /\ Threads /\ OnAir /\ Pictures /\ Edits

----------------------------------------------------------------------------
(* The cache, whatever is behind it *)

\* What a step makes of the keys in ks leaves right values right, and rows as read.
Keeps(ks) ==
  /\ \A k \in ks : \A v : Right(k, v) => Right(k, v)'
  /\ \A p \in ks \cap Posts : \A row : RowRead(p, row) => RowRead(p, row)'

LEMMA KeyFacts ==
  /\ FillKeys \subseteq Keys /\ Channels \subseteq Keys
  /\ {RANKS, HOLDERS, BOARD, PLAYER} \subseteq Keys
  /\ {RANKS, HOLDERS, BOARD, PLAYER} \cap (FillKeys \cup Channels) = {}
BY KeysAssumption DEF FillKeys, BoardKeys, LIST, ACTIVE, CHANNELS, RANKS, HOLDERS, BOARD, PLAYER

\* A request goes on, and what it is about to do fits what is there after the step.
LEMMA Moves ==
  ASSUME CacheInv, Keeps(Keys), NEW q \in Requests, NEW j, To(q, j), UNCHANGED store,
         job[q].pc # "invalidate", Shaped(j),
         \A k, v : j.pc = "fill" /\ j.key = k /\ j.value = v /\ ~j.late => Right(k, v)',
         \A p, row : j.pc = "comments" /\ j.key = p /\ j.value.row = row /\ ~j.late => RowRead(p, row)'
  PROVE  CacheInv'
<1> USE DEF CacheInv
<1>1. DOMAIN job = Requests /\ job' = [job EXCEPT ![q] = j]
  BY DEF Shapes, To
<1>2. job'[q] = j /\ \A r \in Requests : r # q => job'[r] = job[r]
  BY <1>1
<1>3. Shapes'
  <2>1. job' = [r \in Requests |-> job'[r]]
    BY <1>1
  <2>2. \A r \in Requests : Shaped(job'[r])
    BY <1>2 DEF Shapes
  <2> QED
    BY <2>1, <2>2 DEF Shapes, Cached
<1>4. \A k \in Keys : Pending(k) => Pending(k)'
  BY <1>2 DEF Pending
<1>5. \A k \in Keys : Trusted(k)' => Trusted(k)
  BY <1>4 DEF Trusted, Cached
<1>6. Current'
  <2>1. ASSUME NEW k \in Keys, NEW v, Trusted(k)', store'[k].value = v PROVE Right(k, v)'
    BY <2>1, <1>5 DEF Current, Keeps
  <2>2. ASSUME NEW r \in Requests, NEW k, NEW v, job'[r].pc = "fill", job'[r].key = k,
               job'[r].value = v, ~job'[r].late
        PROVE  Right(k, v)'
    <3>1. CASE r = q
      BY <3>1, <2>2, <1>2
    <3>2. CASE r # q
      <4>1. job'[r] = job[r] /\ Shaped(job[r])
        BY <3>2, <1>2 DEF Shapes
      <4>2. k \in Keys
        BY <4>1, <2>2, KeyFacts DEF Shaped
      <4> QED
        BY <4>1, <4>2, <2>2 DEF Current, Keeps
    <3> QED
      BY <3>1, <3>2
  <2>3. ASSUME NEW r \in Requests, NEW p, NEW row, job'[r].pc = "comments", job'[r].key = p,
               job'[r].value.row = row, ~job'[r].late
        PROVE  RowRead(p, row)'
    <3>1. CASE r = q
      BY <3>1, <2>3, <1>2
    <3>2. CASE r # q
      <4>1. job'[r] = job[r] /\ Shaped(job[r])
        BY <3>2, <1>2 DEF Shapes
      <4>2. p \in Keys \cap Posts
        BY <4>1, <2>3, KeyFacts DEF Shaped, FillKeys
      <4> QED
        BY <4>1, <4>2, <2>3 DEF Current, Keeps
    <3> QED
      BY <3>1, <3>2
  <2> QED
    BY <2>1, <2>2, <2>3 DEF Current
<1>7. Paired'
  BY <1>5, KeyFacts DEF Paired
<1> QED
  BY <1>3, <1>6, <1>7

\* Neither the cache nor a request is touched.
LEMMA Rests ==
  ASSUME CacheInv, Keeps(Keys), UNCHANGED <<store, job>>
  PROVE  CacheInv'
<1> USE DEF CacheInv
<1>1. Shapes' /\ \A k \in Keys : Trusted(k)' => Trusted(k)
  BY DEF Shapes, Trusted, Cached, Pending
<1>2. ASSUME NEW k \in Keys, NEW v, Trusted(k)', store'[k].value = v PROVE Right(k, v)'
  BY <1>1, <1>2 DEF Current, Keeps
<1>3. ASSUME NEW r \in Requests, NEW k, NEW v, job'[r].pc = "fill", job'[r].key = k,
             job'[r].value = v, ~job'[r].late
      PROVE  Right(k, v)'
  <2>1. k \in Keys
    BY <1>3, KeyFacts DEF Shapes, Shaped
  <2> QED
    BY <1>3, <2>1 DEF Current, Keeps
<1>4. ASSUME NEW r \in Requests, NEW p, NEW row, job'[r].pc = "comments", job'[r].key = p,
             job'[r].value.row = row, ~job'[r].late
      PROVE  RowRead(p, row)'
  <2>1. p \in Keys \cap Posts
    BY <1>4, KeyFacts DEF Shapes, Shaped, FillKeys
  <2> QED
    BY <1>4, <2>1 DEF Current, Keeps
<1>5. Current'
  BY <1>2, <1>3, <1>4 DEF Current
<1>6. Paired'
  BY <1>1, KeyFacts DEF Paired
<1> QED
  BY <1>1, <1>5, <1>6

\* A write commits: fills of what it changes come late, and what it is going to drop
\* is pending; of everything else the values stay right.
LEMMA Commits ==
  ASSUME CacheInv, NEW q \in Requests, NEW keys \in SUBSET FillKeys, NEW changed,
         Committed(q, keys, changed), UNCHANGED store,
         job[q].pc \notin {"comments", "fill", "invalidate"},
         Keeps(Keys \ changed), \A k \in Keys \ keys : \A v : Right(k, v) => Right(k, v)'
  PROVE  CacheInv'
<1> USE DEF CacheInv
<1>1. job'[q] = [pc |-> "invalidate", keys |-> keys]
  BY DEF Committed
<1>2. ASSUME NEW r \in Requests, r # q, job[r].pc \in {"comments", "fill"}
      PROVE  /\ job'[r].pc = job[r].pc /\ job'[r].key = job[r].key /\ job'[r].value = job[r].value
             /\ job'[r].late <=> job[r].late \/ job[r].key \in changed
             /\ Reading(job'[r])
  <2>1. PICK late \in BOOLEAN : late = (job[r].late \/ job[r].key \in changed)
    BY <1>2 DEF Shapes, Shaped, Reading
  <2>2. job'[r] = [job[r] EXCEPT !.late = @ \/ job[r].key \in changed]
    BY <1>2 DEF Committed
  <2>3. job'[r] = [job[r] EXCEPT !.late = late]
    BY <2>1, <2>2, Zenon
  <2>4. Reading(job[r])
    BY <1>2 DEF Shapes, Shaped
  <2>5. job'[r] = [pc |-> job[r].pc, key |-> job[r].key, value |-> job[r].value, late |-> late]
    BY <2>3, <2>4 DEF Reading
  <2>6. /\ job'[r].pc = job[r].pc /\ job'[r].key = job[r].key /\ job'[r].value = job[r].value
        /\ job'[r].late = late /\ Reading(job'[r])
    BY <2>5 DEF Reading
  <2> QED
    BY <2>1, <2>6, Zenon
<1>3. ASSUME NEW r \in Requests, r # q, job[r].pc \notin {"comments", "fill"}
      PROVE  job'[r] = job[r]
  BY <1>3 DEF Committed
<1>4. Shapes'
  <2>1. job' = [r \in Requests |-> job'[r]]
    BY DEF Committed
  <2>2. ASSUME NEW r \in Requests PROVE Shaped(job'[r])
    <3>1. CASE r = q
      BY <3>1, <1>1 DEF Shaped
    <3>2. CASE r # q /\ job[r].pc \in {"comments", "fill"}
      <4>1. Shaped(job[r]) /\ Reading(job[r])
        BY <3>2 DEF Shapes, Shaped
      <4> QED
        BY <3>2, <4>1, <1>2 DEF Shaped
    <3>3. CASE r # q /\ job[r].pc \notin {"comments", "fill"}
      BY <3>3, <1>3 DEF Shapes
    <3> QED
      BY <3>1, <3>2, <3>3
  <2> QED
    BY <2>1, <2>2 DEF Shapes, Cached
<1>5. ASSUME NEW k \in Keys, Trusted(k)' PROVE Trusted(k) /\ k \notin keys
  <2>1. k \notin keys
    BY <1>5, <1>1 DEF Trusted, Pending
  <2>2. ~Pending(k)
    <3> SUFFICES ASSUME NEW r \in Requests, job[r].pc = "invalidate", k \in job[r].keys PROVE FALSE
      BY DEF Pending
    <3>1. job'[r] = job[r]
      BY <1>3
    <3> QED
      BY <3>1, <1>5 DEF Trusted, Pending
  <2> QED
    BY <1>5, <2>1, <2>2 DEF Trusted, Cached
<1>6. ASSUME NEW k \in Keys, NEW v, Trusted(k)', store'[k].value = v PROVE Right(k, v)'
  BY <1>5, <1>6 DEF Current
<1>7. ASSUME NEW r \in Requests, NEW k, NEW v, job'[r].pc = "fill", job'[r].key = k,
             job'[r].value = v, ~job'[r].late
      PROVE  Right(k, v)'
  <2>1. r # q
    BY <1>7, <1>1
  <2>2. job[r].pc = "fill"
    BY <2>1, <1>7, <1>2, <1>3
  <2>3. job[r].key = k /\ job[r].value = v /\ ~job[r].late /\ k \notin changed
    BY <2>1, <2>2, <1>7, <1>2
  <2>4. k \in Keys
    BY <2>2, <2>3, KeyFacts DEF Shapes, Shaped
  <2> QED
    BY <2>2, <2>3, <2>4 DEF Current, Keeps
<1>8. ASSUME NEW r \in Requests, NEW p, NEW row, job'[r].pc = "comments", job'[r].key = p,
             job'[r].value.row = row, ~job'[r].late
      PROVE  RowRead(p, row)'
  <2>1. r # q
    BY <1>8, <1>1
  <2>2. job[r].pc = "comments"
    BY <2>1, <1>8, <1>2, <1>3
  <2>3. job[r].key = p /\ job[r].value.row = row /\ ~job[r].late /\ p \notin changed
    BY <2>1, <2>2, <1>8, <1>2
  <2>4. p \in Keys \cap Posts
    BY <2>2, <2>3, KeyFacts DEF Shapes, Shaped, FillKeys
  <2> QED
    BY <2>2, <2>3, <2>4 DEF Current, Keeps
<1>9. Current'
  BY <1>6, <1>7, <1>8 DEF Current
<1>10. Paired'
  BY <1>5, KeyFacts DEF Paired
<1> QED
  BY <1>4, <1>9, <1>10

\* A request stores a value and goes on to something that is not a fill.
LEMMA Stores ==
  ASSUME CacheInv, Keeps(Keys), NEW q \in Requests, NEW j, To(q, j),
         job[q].pc # "invalidate", j.pc \notin {"fill", "comments"}, Shaped(j),
         NEW k \in FillKeys \cup Channels, NEW v, NEW late \in BOOLEAN, Put(k, v, late),
         Fits(k, v), ~late => Right(k, v)
  PROVE  CacheInv'
<1>1. CASE UNCHANGED store
  BY <1>1, Moves
<1>2. CASE store' = [store EXCEPT ![k] = [value |-> v, left |-> TTL, excused |-> late]]
  <2> USE DEF CacheInv
  <2>1. DOMAIN job = Requests /\ job' = [job EXCEPT ![q] = j]
    BY DEF Shapes, To
  <2>2. job'[q] = j /\ \A r \in Requests : r # q => job'[r] = job[r]
    BY <2>1
  <2>3. k \in Keys /\ DOMAIN store = Keys
    BY KeyFacts DEF Shapes
  <2>4. store'[k] = [value |-> v, left |-> TTL, excused |-> late] /\ \A x \in Keys : x # k => store'[x] = store[x]
    BY <2>3, <1>2
  <2>5. Shapes'
    <3>1. job' = [r \in Requests |-> job'[r]] /\ store' = [x \in Keys |-> store'[x]]
      BY <2>1, <2>3, <1>2
    <3>2. \A r \in Requests : Shaped(job'[r])
      BY <2>2 DEF Shapes
    <3>3. ASSUME NEW x \in Keys, Cached(x)' PROVE Entry(store'[x]) /\ Fits(x, store'[x].value)
      <4>1. CASE x = k
        BY <4>1, <2>4, CacheAssumption DEF Entry
      <4>2. CASE x # k
        BY <4>2, <2>4, <3>3 DEF Shapes, Cached
      <4> QED
        BY <4>1, <4>2
    <3> QED
      BY <3>1, <3>2, <3>3 DEF Shapes
  <2>6. \A x \in Keys : Pending(x) => Pending(x)'
    BY <2>2 DEF Pending
  <2>7. \A x \in Keys : x # k /\ Trusted(x)' => Trusted(x) /\ store'[x] = store[x]
    BY <2>6, <2>4 DEF Trusted, Cached
  <2>8. ASSUME NEW x \in Keys, NEW w, Trusted(x)', store'[x].value = w PROVE Right(x, w)'
    <3>1. CASE x = k
      <4>1. w = v /\ ~late
        BY <3>1, <2>8, <2>4 DEF Trusted
      <4> QED
        BY <3>1, <4>1, <2>3 DEF Keeps
    <3>2. CASE x # k
      BY <3>2, <2>7, <2>8 DEF Current, Keeps
    <3> QED
      BY <3>1, <3>2
  <2>9. ASSUME NEW r \in Requests, NEW x, NEW w, job'[r].pc = "fill", job'[r].key = x,
               job'[r].value = w, ~job'[r].late
        PROVE  Right(x, w)'
    <3>1. r # q /\ job'[r] = job[r]
      BY <2>9, <2>2
    <3>2. x \in Keys
      BY <3>1, <2>9, KeyFacts DEF Shapes, Shaped
    <3> QED
      BY <3>1, <3>2, <2>9 DEF Current, Keeps
  <2>10. ASSUME NEW r \in Requests, NEW p, NEW row, job'[r].pc = "comments", job'[r].key = p,
               job'[r].value.row = row, ~job'[r].late
        PROVE  RowRead(p, row)'
    <3>1. r # q /\ job'[r] = job[r]
      BY <2>10, <2>2
    <3>2. p \in Keys \cap Posts
      BY <3>1, <2>10, KeyFacts DEF Shapes, Shaped, FillKeys
    <3> QED
      BY <3>1, <3>2, <2>10 DEF Current, Keeps
  <2>11. Current'
    BY <2>8, <2>9, <2>10 DEF Current
  <2>12. Paired'
    BY <2>7, KeyFacts DEF Paired
  <2> QED
    BY <2>5, <2>11, <2>12
<1> QED
  BY <1>1, <1>2 DEF Put

\* Entries age, go or are excused, and requests come to their end.
LEMMA Fades ==
  ASSUME CacheInv, Keeps(Keys),
         store' = [k \in Keys |-> store'[k]], job' = [r \in Requests |-> job'[r]],
         \A r \in Requests : job'[r] \in {job[r], Waiting},
         \A k \in Keys : Cached(k)' => Cached(k) /\ Entry(store'[k]) /\ store'[k].value = store[k].value,
         \A k \in Keys : Trusted(k)' => Trusted(k)
  PROVE  CacheInv'
<1> USE DEF CacheInv
<1>1. Shapes'
  <2>1. \A r \in Requests : Shaped(job'[r])
    <3>1. Shaped(Waiting)
      BY DEF Shaped, Waiting
    <3> QED
      BY <3>1 DEF Shapes
  <2>2. \A k \in Keys : Cached(k)' => Entry(store'[k]) /\ Fits(k, store'[k].value)
    BY DEF Shapes
  <2> QED
    BY <2>1, <2>2 DEF Shapes
<1>2. ASSUME NEW k \in Keys, NEW v, Trusted(k)', store'[k].value = v PROVE Right(k, v)'
  <2>1. Trusted(k) /\ store[k].value = v
    BY <1>2 DEF Trusted
  <2> QED
    BY <2>1 DEF Current, Keeps
<1>3. ASSUME NEW r \in Requests, NEW k, NEW v, job'[r].pc = "fill", job'[r].key = k,
             job'[r].value = v, ~job'[r].late
      PROVE  Right(k, v)'
  <2>1. job'[r] = job[r]
    BY <1>3 DEF Waiting
  <2>2. k \in Keys
    BY <1>3, <2>1, KeyFacts DEF Shapes, Shaped
  <2> QED
    BY <1>3, <2>1, <2>2 DEF Current, Keeps
<1>4. ASSUME NEW r \in Requests, NEW p, NEW row, job'[r].pc = "comments", job'[r].key = p,
             job'[r].value.row = row, ~job'[r].late
      PROVE  RowRead(p, row)'
  <2>1. job'[r] = job[r]
    BY <1>4 DEF Waiting
  <2>2. p \in Keys \cap Posts
    BY <1>4, <2>1, KeyFacts DEF Shapes, Shaped, FillKeys
  <2> QED
    BY <1>4, <2>1, <2>2 DEF Current, Keeps
<1>5. Current'
  BY <1>2, <1>3, <1>4 DEF Current
<1>6. Paired'
  <2>1. \A k \in Keys : Trusted(k)' => Trusted(k) /\ store'[k].value = store[k].value
    BY DEF Trusted
  <2> QED
    BY <2>1, KeyFacts DEF Paired
<1> QED
  BY <1>1, <1>5, <1>6

\* A delete reaches every entry, or the entry is excused.
LEMMA Invalidates ==
  ASSUME CacheInv, Keeps(Keys), NEW q \in Requests, Invalidate(q)
  PROVE  CacheInv'
<1> DEFINE keys == job[q].keys
<1>1. PICK lost \in SUBSET keys : store' = [k \in Keys |->
        CASE k \in lost /\ Cached(k) -> [store[k] EXCEPT !.excused = TRUE]
          [] k \in keys \ lost -> Nothing
          [] OTHER -> store[k]]
  BY Zenon DEF Invalidate, Drop
<1>2. DOMAIN job = Requests /\ job' = [job EXCEPT ![q] = Waiting] /\ job[q].pc = "invalidate"
  BY DEF Invalidate, To, CacheInv, Shapes
<1>3. job'[q] = Waiting /\ \A r \in Requests : r # q => job'[r] = job[r]
  BY <1>2
<1>4. ASSUME NEW k \in Keys, k \in lost, Cached(k)
      PROVE  Cached(k)' => /\ store'[k] = [store[k] EXCEPT !.excused = TRUE]
                           /\ store'[k].excused /\ Entry(store'[k])
                           /\ store'[k].value = store[k].value
  <2>1. store'[k] = [store[k] EXCEPT !.excused = TRUE]
    BY <1>1, <1>4
  <2>2. Entry(store[k])
    BY <1>4 DEF CacheInv, Shapes
  <2>3. store'[k] = [value |-> store[k].value, left |-> store[k].left, excused |-> TRUE]
    BY <2>1, <2>2 DEF Entry
  <2> QED
    BY <2>1, <2>2, <2>3 DEF Entry
<1>5. ASSUME NEW k \in Keys, k \in keys \ lost PROVE ~Cached(k)'
  BY <1>1, <1>5 DEF Cached
<1>6. ASSUME NEW k \in Keys, ~(k \in lost /\ Cached(k)), k \notin keys \ lost PROVE store'[k] = store[k]
  BY <1>1, <1>6
<1>7. ASSUME NEW k \in Keys, Cached(k)'
      PROVE  Cached(k) /\ Entry(store'[k]) /\ store'[k].value = store[k].value
  <2>1. Cached(k)
    BY <1>7, <1>5, <1>6 DEF Cached
  <2> QED
    BY <1>7, <2>1, <1>4, <1>5, <1>6 DEF CacheInv, Shapes
<1>8. ASSUME NEW k \in Keys, Trusted(k)' PROVE Trusted(k)
  <2>1. Cached(k)' /\ ~store'[k].excused /\ ~Pending(k)'
    BY <1>8 DEF Trusted
  <2>2. Cached(k) /\ ~(k \in lost) /\ k \notin keys \ lost
    BY <2>1, <1>7, <1>4, <1>5
  <2>3. store'[k] = store[k] /\ k \notin keys
    BY <2>2, <1>6
  <2>4. ~Pending(k)
    BY <2>1, <2>3, <1>3 DEF Pending
  <2> QED
    BY <2>1, <2>2, <2>3, <2>4 DEF Trusted
<1>9. store' = [k \in Keys |-> store'[k]] /\ job' = [r \in Requests |-> job'[r]]
  BY <1>1, <1>2
<1>10. \A r \in Requests : job'[r] \in {job[r], Waiting}
  BY <1>3
<1> HIDE DEF keys
<1> QED
  BY <1>7, <1>8, <1>9, <1>10, Fades

\* Time passes, or Redis forgets an entry.
LEMMA Ages ==
  ASSUME CacheInv, Keeps(Keys), CacheTick \/ Evict
  PROVE  CacheInv'
<1>1. job' = job /\ job = [r \in Requests |-> job[r]]
  BY DEF CacheTick, Evict, CacheInv, Shapes
<1>2. \A k \in Keys : Pending(k)' <=> Pending(k)
  BY <1>1 DEF Pending
<1>3. store' = [k \in Keys |-> store'[k]]
  BY DEF CacheTick, Age, Evict, Forget, CacheInv, Shapes
<1>4. ASSUME NEW k \in Keys, Cached(k)'
      PROVE  /\ Cached(k) /\ Entry(store'[k]) /\ store'[k].value = store[k].value
             /\ store'[k].excused = store[k].excused
  <2>1. CASE CacheTick
    <3>1. Cached(k) /\ store[k].left > 1 /\ store'[k] = [store[k] EXCEPT !.left = @ - 1]
      BY <2>1, <1>4 DEF CacheTick, Age, Cached
    <3>2. Entry(store[k])
      BY <3>1 DEF CacheInv, Shapes
    <3>3. store'[k] = [value |-> store[k].value, left |-> store[k].left - 1, excused |-> store[k].excused]
      BY <3>1, <3>2 DEF Entry
    <3>4. store[k].left - 1 \in 1 .. TTL
      BY <3>1, <3>2, CacheAssumption DEF Entry
    <3> QED
      BY <3>1, <3>2, <3>3, <3>4 DEF Entry
  <2>2. CASE Evict
    <3>1. PICK x \in Keys : store' = [store EXCEPT ![x] = Nothing]
      BY <2>2 DEF Evict, Forget
    <3>2. k # x
      BY <3>1, <1>4 DEF Cached, CacheInv, Shapes
    <3>3. store'[k] = store[k]
      BY <3>1, <3>2 DEF CacheInv, Shapes
    <3> QED
      BY <3>3, <1>4 DEF Cached, CacheInv, Shapes
  <2> QED
    BY <2>1, <2>2
<1>5. \A k \in Keys : Trusted(k)' => Trusted(k)
  BY <1>4, <1>2, Zenon DEF Trusted
<1> QED
  BY <1>1, <1>3, <1>4, <1>5, Fades

\* The fill of an entry; it is as current as its read was.
LEMMA Fills ==
  ASSUME CacheInv, Keeps(Keys), NEW q \in Requests, Fill(q)
  PROVE  CacheInv'
<1>1. PICK k, v, late : k = job[q].key /\ v = job[q].value /\ late = job[q].late
  OBVIOUS
<1>2. job[q].pc = "fill" /\ Put(k, v, late) /\ To(q, Waiting)
  BY <1>1 DEF Fill
<1>3. k \in FillKeys /\ Fits(k, v) /\ late \in BOOLEAN
  BY <1>1, <1>2 DEF CacheInv, Shapes, Shaped, Reading
<1>4. ~late => Right(k, v)
  BY <1>1, <1>2 DEF CacheInv, Current
<1>5. Shaped(Waiting) /\ Waiting.pc \notin {"fill", "comments"}
  BY DEF Shaped, Waiting
<1> QED
  BY <1>2, <1>3, <1>4, <1>5, Stores

LEMMA CacheSteps ==
  ASSUME CacheInv, Keeps(Keys), CacheStep
  PROVE  CacheInv'
BY Invalidates, Ages, Fills DEF CacheStep

LEMMA RankKeys ==
  ASSUME NEW k \in {RANKS, HOLDERS, BOARD, PLAYER}, NEW v
  PROVE  Fits(k, v) /\ Right(k, v)'
BY KeysAssumption DEF Fits, Right, LIST, ACTIVE, CHANNELS, RANKS, HOLDERS, BOARD, PLAYER

\* The views made of one answer are set one after the other; a set that is lost
\* leaves an excused entry.
LEMMA FillsRanks ==
  ASSUME CacheInv, Keeps(Keys), NEW q \in Requests, FillRanks(q)
  PROVE  CacheInv'
<1> USE DEF CacheInv
<1>1. PICK keys, v : keys = job[q].keys /\ v = job[q].value
  OBVIOUS
<1>2. keys = {RANKS, HOLDERS} \/ keys = {BOARD, PLAYER}
  BY <1>1 DEF FillRanks, Shapes, Shaped
<1>3. PICK lost \in SUBSET keys : store' = [k \in Keys |->
        CASE k \in keys \ lost -> [value |-> v, left |-> TTL, excused |-> FALSE]
          [] k \in lost /\ Cached(k) -> [store[k] EXCEPT !.excused = TRUE]
          [] OTHER -> store[k]]
  BY <1>1, Zenon DEF FillRanks
<1>4. DOMAIN job = Requests /\ job' = [job EXCEPT ![q] = Waiting] /\ job[q].pc = "ranks"
  BY DEF FillRanks, To, Shapes
<1>5. job'[q] = Waiting /\ \A r \in Requests : r # q => job'[r] = job[r]
  BY <1>4
<1>6. ASSUME NEW k \in Keys, k \in keys \ lost
      PROVE  store'[k] = [value |-> v, left |-> TTL, excused |-> FALSE]
  BY <1>3, <1>6
<1>7. ASSUME NEW k \in Keys, k \in lost, Cached(k)'
      PROVE  store'[k].excused /\ Entry(store'[k])
  <2>1. CASE Cached(k)
    <3>1. store'[k] = [store[k] EXCEPT !.excused = TRUE] /\ Entry(store[k])
      BY <1>3, <1>7, <2>1 DEF Shapes
    <3>2. store'[k] = [value |-> store[k].value, left |-> store[k].left, excused |-> TRUE]
      BY <3>1 DEF Entry
    <3> QED
      BY <3>1, <3>2 DEF Entry
  <2>2. CASE ~Cached(k)
    <3>1. store'[k] = store[k]
      BY <1>3, <1>7, <2>2
    <3> QED
      BY <3>1, <2>2, <1>7 DEF Cached
  <2> QED
    BY <2>1, <2>2
<1>8. ASSUME NEW k \in Keys, k \notin keys PROVE store'[k] = store[k]
  BY <1>3, <1>8
<1>9. Shapes'
  <2>1. \A r \in Requests : Shaped(job'[r])
    <3>1. Shaped(Waiting)
      BY DEF Shaped, Waiting
    <3> QED
      BY <3>1, <1>5 DEF Shapes
  <2>2. ASSUME NEW k \in Keys, Cached(k)' PROVE Entry(store'[k]) /\ Fits(k, store'[k].value)
    <3>1. CASE k \in keys
      <4>1. k \in {RANKS, HOLDERS, BOARD, PLAYER}
        BY <3>1, <1>2
      <4>2. Fits(k, store'[k].value)
        BY <4>1, RankKeys
      <4>3. Entry(store'[k])
        <5>1. CASE k \in lost
          BY <5>1, <2>2, <1>7
        <5>2. CASE k \in keys \ lost
          <6>1. store'[k] = [value |-> v, left |-> TTL, excused |-> FALSE]
            BY <5>2, <1>6
          <6> QED
            BY <6>1, CacheAssumption DEF Entry
        <5> QED
          BY <3>1, <5>1, <5>2
      <4> QED
        BY <4>2, <4>3
    <3>2. CASE k \notin keys
      BY <3>2, <2>2, <1>8 DEF Shapes, Cached
    <3> QED
      BY <3>1, <3>2
  <2>3. store' = [k \in Keys |-> store'[k]] /\ job' = [r \in Requests |-> job'[r]]
    BY <1>3, <1>4
  <2> QED
    BY <2>1, <2>2, <2>3 DEF Shapes
<1>10. \A k \in Keys : Pending(k) => Pending(k)'
  BY <1>4, <1>5 DEF Pending
<1>11. ASSUME NEW k \in Keys, Trusted(k)', k \notin keys PROVE Trusted(k) /\ store'[k] = store[k]
  BY <1>10, <1>11, <1>8 DEF Trusted, Cached
<1>12. ASSUME NEW k \in Keys, NEW w, Trusted(k)', store'[k].value = w PROVE Right(k, w)'
  <2>1. CASE k \in keys
    BY <2>1, <1>2, RankKeys
  <2>2. CASE k \notin keys
    BY <2>2, <1>11, <1>12 DEF Current, Keeps
  <2> QED
    BY <2>1, <2>2
<1>13. ASSUME NEW r \in Requests, NEW k, NEW w, job'[r].pc = "fill", job'[r].key = k,
             job'[r].value = w, ~job'[r].late
      PROVE  Right(k, w)'
  <2>1. job'[r] = job[r]
    BY <1>13, <1>5 DEF Waiting
  <2>2. k \in Keys
    BY <1>13, <2>1, KeyFacts DEF Shapes, Shaped
  <2> QED
    BY <1>13, <2>1, <2>2 DEF Current, Keeps
<1>14. ASSUME NEW r \in Requests, NEW p, NEW row, job'[r].pc = "comments", job'[r].key = p,
             job'[r].value.row = row, ~job'[r].late
      PROVE  RowRead(p, row)'
  <2>1. job'[r] = job[r]
    BY <1>14, <1>5 DEF Waiting
  <2>2. p \in Keys \cap Posts
    BY <1>14, <2>1, KeyFacts DEF Shapes, Shaped, FillKeys
  <2> QED
    BY <1>14, <2>1, <2>2 DEF Current, Keeps
<1>15. Current'
  BY <1>12, <1>13, <1>14 DEF Current
<1>16. Paired'
  <2>1. ASSUME NEW x \in Keys, NEW y \in Keys, Trusted(x)', Trusted(y)', x \in keys, y \in keys
        PROVE  store'[x].value = store'[y].value
    <3>1. ASSUME NEW k \in {x, y} PROVE store'[k].value = v
      <4>1. k \notin lost
        BY <1>7, <2>1 DEF Trusted
      <4> QED
        BY <4>1, <2>1, <1>6
    <3> QED
      BY <3>1
  <2>2. ASSUME NEW x \in Keys, NEW y \in Keys, Trusted(x)', Trusted(y)', x \notin keys, y \notin keys
        PROVE  Trusted(x) /\ Trusted(y) /\ store'[x] = store[x] /\ store'[y] = store[y]
    BY <2>2, <1>11
  <2>3. RANKS \in Keys /\ HOLDERS \in Keys /\ BOARD \in Keys /\ PLAYER \in Keys
    BY KeyFacts
  <2>4. CASE keys = {RANKS, HOLDERS}
    <3>1. BOARD \notin keys /\ PLAYER \notin keys
      BY <2>4 DEF RANKS, HOLDERS, BOARD, PLAYER
    <3> QED
      BY <3>1, <2>4, <2>3, <2>1, <2>2 DEF Paired
  <2>5. CASE keys = {BOARD, PLAYER}
    <3>1. RANKS \notin keys /\ HOLDERS \notin keys
      BY <2>5 DEF RANKS, HOLDERS, BOARD, PLAYER
    <3> QED
      BY <3>1, <2>5, <2>3, <2>1, <2>2 DEF Paired
  <2> QED
    BY <2>4, <2>5, <1>2
<1> QED
  BY <1>9, <1>15, <1>16

----------------------------------------------------------------------------
(* What is right of each service's keys, and what keeps it right *)

\* The board's part of Right, and the others', are about state of their own.
LEMMA BoardUntouched ==
  ASSUME UNCHANGED <<posts, comment>>
  PROVE  /\ \A p \in Posts : \A row : RowRead(p, row) => RowRead(p, row)'
         /\ \A k \in BoardKeys : Truth(k)' = Truth(k)
         /\ Titles(Listing)' = Titles(Listing)
<1>1. \A p : CommentsOn(p)' = CommentsOn(p)
  BY DEF CommentsOn
<1>2. \A p : Exists(p)' <=> Exists(p)
  BY DEF Exists
<1>3. Listing' = Listing
  BY DEF Listing, CommentCount, Exists, CommentsOn, Live
<1>4. \A p : Detail(p)' = Detail(p)
  BY DEF Detail, Nest, Thread, Hide, CommentsOn, Live
<1>5. \A k \in BoardKeys : Truth(k)' = Truth(k)
  BY <1>2, <1>3, <1>4 DEF Truth
<1>6. Titles(Listing)' = Titles(Listing)
  BY <1>3 DEF Titles
<1>7. \A p \in Posts : \A row : RowRead(p, row) => RowRead(p, row)'
  BY <1>2 DEF RowRead
<1> QED
  BY <1>5, <1>6, <1>7

\* What the values of an entry depend on.
LEMMA RightKept ==
  ASSUME NEW k, NEW v, Right(k, v),
         k = LIST => Titles(Listing)' = Titles(Listing),
         k \in Posts => posts'[k] # NoPost /\ Truth(k)' = Truth(k),
         k = ACTIVE => ActivePopups' = ActivePopups,
         k = CHANNELS => Registered' = Registered,
         k \in Players => edited'[k] = edited[k]
  PROVE  Right(k, v)'
BY DEF Right

LEMMA NothingTouched ==
  ASSUME UNCHANGED <<posts, comment, popup, channel, edited>>
  PROVE  Keeps(Keys)
<1>1. ActivePopups' = ActivePopups /\ Registered' = Registered
  BY DEF ActivePopups, Registered
<1>2. ASSUME NEW k \in Keys, NEW v, Right(k, v) PROVE Right(k, v)'
  <2>1. k \in Posts => posts'[k] # NoPost /\ Truth(k)' = Truth(k)
    BY <1>2, BoardUntouched DEF Right, BoardKeys
  <2>2. Titles(Listing)' = Titles(Listing)
    BY BoardUntouched
  <2> QED
    BY <1>1, <1>2, <2>1, <2>2, RightKept
<1> QED
  BY <1>2, BoardUntouched DEF Keeps

\* The same for a step that changes one service's state, of keys it is not about.
LEMMA KeepsOthers ==
  ASSUME UNCHANGED <<posts, comment>>, NEW ks \in SUBSET Keys,
         ACTIVE \in ks => ActivePopups' = ActivePopups,
         CHANNELS \in ks => Registered' = Registered,
         \A u \in ks \cap Players : edited'[u] = edited[u]
  PROVE  Keeps(ks)
<1>2. ASSUME NEW k \in ks, NEW v, Right(k, v) PROVE Right(k, v)'
  <2>1. k \in Posts => posts'[k] # NoPost /\ Truth(k)' = Truth(k)
    BY <1>2, BoardUntouched DEF Right, BoardKeys
  <2>2. Titles(Listing)' = Titles(Listing)
    BY BoardUntouched
  <2>3. /\ k = ACTIVE => ActivePopups' = ActivePopups
        /\ k = CHANNELS => Registered' = Registered
        /\ k \in Players => edited'[k] = edited[k]
    OBVIOUS
  <2> QED
    BY <1>2, <2>1, <2>2, <2>3, RightKept
<1> QED
  BY <1>2, BoardUntouched DEF Keeps

\* Requests that write to the board.
BoardJobs == {"tally", "counted", "reply", "erase", "delete"}
JobsKept ==
  \A r \in Requests : {job[r].pc, job'[r].pc} \cap BoardJobs # {} => job'[r] = job[r]

LEMMA JobsKeptByMove ==
  ASSUME Shapes, NEW q \in Requests, NEW j, To(q, j), job[q].pc \notin BoardJobs, j.pc \notin BoardJobs
  PROVE  JobsKept
<1>1. DOMAIN job = Requests /\ job' = [job EXCEPT ![q] = j]
  BY DEF Shapes, To
<1>2. job'[q] = j /\ \A r \in Requests : r # q => job'[r] = job[r]
  BY <1>1
<1> QED
  BY <1>2 DEF JobsKept

LEMMA JobsKeptByCommit ==
  ASSUME Shapes, NEW q \in Requests, NEW keys, NEW changed, Committed(q, keys, changed),
         job[q].pc \notin BoardJobs \cup {"comments", "fill"}
  PROVE  JobsKept
<1> SUFFICES ASSUME NEW r \in Requests PROVE {job[r].pc, job'[r].pc} \cap BoardJobs # {} => job'[r] = job[r]
  BY DEF JobsKept
<1>1. CASE r = q
  <2>1. job'[r] = [pc |-> "invalidate", keys |-> keys]
    BY <1>1 DEF Committed
  <2> QED
    BY <1>1, <2>1 DEF BoardJobs
<1>2. CASE r # q /\ job[r].pc \in {"comments", "fill"}
  <2>1. job'[r] = [job[r] EXCEPT !.late = @ \/ job[r].key \in changed]
    BY <1>2 DEF Committed
  <2>2. job'[r].pc = job[r].pc
    <3>1. Reading(job[r])
      BY <1>2 DEF Shapes, Shaped
    <3> QED
      BY <2>1, <3>1, Zenon DEF Reading
  <2> QED
    BY <1>2, <2>2 DEF BoardJobs
<1>3. CASE r # q /\ job[r].pc \notin {"comments", "fill"}
  BY <1>3 DEF Committed
<1> QED
  BY <1>1, <1>2, <1>3

LEMMA JobsKeptByCache ==
  ASSUME Shapes, CacheStep
  PROVE  JobsKept
<1>1. ASSUME NEW q \in Requests, Fill(q) \/ Invalidate(q) PROVE JobsKept
  <2>1. To(q, Waiting) /\ job[q].pc \notin BoardJobs /\ Waiting.pc \notin BoardJobs
    BY <1>1 DEF Fill, Invalidate, BoardJobs, Waiting
  <2> QED
    BY <2>1, JobsKeptByMove
<1>2. CASE CacheTick \/ Evict
  BY <1>2 DEF CacheTick, Evict, JobsKept
<1> QED
  BY <1>1, <1>2 DEF CacheStep

\* The board at rest.
LEMMA BoardRests ==
  ASSUME Ballots, Threads, UNCHANGED boardrows, JobsKept
  PROVE  Ballots' /\ Threads'
<1> USE DEF boardrows
<1>1. \A r \in Requests : job[r].pc \in BoardJobs \/ job'[r].pc \in BoardJobs => job'[r] = job[r]
  BY DEF JobsKept
<1>2. \A p : Votes(p, TRUE)' = Votes(p, TRUE) /\ Votes(p, FALSE)' = Votes(p, FALSE)
  BY DEF Votes
<1>3. \A p, who : VotedBy(p, who)' <=> VotedBy(p, who)
  BY DEF VotedBy
<1>4. Ballots'
  <2>1. Locks' /\ Thumbs'
    BY <1>1 DEF Ballots, Locks, Thumbs, Exists, BoardJobs
  <2>2. ThumbsAgree'
    <3>1. ThumbsAgree
      BY DEF Ballots
    <3>2. ASSUME NEW p \in Posts, Exists(p)'
          PROVE  /\ posts'[p].up = Votes(p, TRUE)' /\ posts'[p].down = Votes(p, FALSE)'
                 /\ \A t, u \in thumb' : t.on = p /\ u.on = p /\ t.voter = u.voter => t = u
      <4>1. posts[p].up = Votes(p, TRUE) /\ posts[p].down = Votes(p, FALSE)
        BY <3>1, <3>2 DEF ThumbsAgree, Exists
      <4>2. posts'[p].up = Votes(p, TRUE)' /\ posts'[p].down = Votes(p, FALSE)'
        BY <4>1, <1>2
      <4> QED
        BY <4>2, <3>1, <3>2 DEF ThumbsAgree, Exists
    <3> QED
      BY <3>2 DEF ThumbsAgree
  <2>3. ASSUME NEW q \in Requests PROVE Counting(q)'
    <3>1. CASE job'[q].pc \in {"tally", "counted"}
      <4>1. job'[q] = job[q] /\ Counting(q)
        BY <3>1, <1>1 DEF Ballots, BoardJobs
      <4> QED
        BY <4>1, <1>2, <1>3, Zenon DEF Counting
    <3>2. CASE job'[q].pc \notin {"tally", "counted"}
      BY <3>2 DEF Counting
    <3> QED
      BY <3>1, <3>2
  <2> QED
    BY <2>1, <2>2, <2>3 DEF Ballots
<1>5. Threads'
  BY <1>1 DEF Threads, Claim, BoardJobs
<1> QED
  BY <1>4, <1>5

----------------------------------------------------------------------------
(* Popups *)

\* A miss of a key that is not a post's, of the value that is right now.
LEMMA Misses ==
  ASSUME CacheInv, Keeps(Keys), NEW q \in Requests, NEW k \in FillKeys, NEW v, Miss(q, k, v),
         Fits(k, v), Right(k, v)
  PROVE  CacheInv' /\ JobsKept
<1>1. PICK j : j = [pc |-> "fill", key |-> k, value |-> v, late |-> FALSE]
  OBVIOUS
<1>2. To(q, j) /\ job[q] = Waiting /\ UNCHANGED store
  BY <1>1 DEF Miss
<1>3. Shaped(j) /\ j.pc = "fill" /\ j.key = k /\ j.value = v
  BY <1>1 DEF Shaped, Reading
<1>4. Right(k, v)'
  BY KeyFacts DEF Keeps
<1>5. \A x, w : j.pc = "fill" /\ j.key = x /\ j.value = w /\ ~j.late => Right(x, w)'
  BY <1>3, <1>4
<1>6. job[q].pc = "waiting"
  BY <1>2 DEF Waiting
<1>7. CacheInv'
  BY <1>2, <1>3, <1>5, <1>6, Moves
<1>8. JobsKept
  BY <1>2, <1>3, <1>6, JobsKeptByMove DEF BoardJobs, CacheInv
<1> QED
  BY <1>7, <1>8

\* Whatever becomes of popups, the list is dropped.
LEMMA SavesPopup ==
  ASSUME CacheInv, NEW q \in Requests, NEW p, NEW row, SavePopup(q, p, row),
         UNCHANGED <<boardrows, svars, fvars>>
  PROVE  CacheInv' /\ JobsKept
<1>1. PICK changed : changed = IF ActivePopups' # ActivePopups THEN {ACTIVE} ELSE {}
  OBVIOUS
<1>2. Committed(q, {ACTIVE}, changed) /\ UNCHANGED store /\ job[q].pc = "waiting"
  BY <1>1 DEF SavePopup, Waiting
<1>3. UNCHANGED <<posts, comment>> /\ Registered' = Registered /\ \A u \in Players : edited'[u] = edited[u]
  BY DEF boardrows, svars, fvars, Registered
<1>4. Keeps(Keys \ changed)
  BY <1>1, <1>3, KeepsOthers
<1>5. Keeps(Keys \ {ACTIVE})
  BY <1>3, KeepsOthers
<1>6. \A k \in Keys \ {ACTIVE} : \A v : Right(k, v) => Right(k, v)'
  BY <1>5 DEF Keeps
<1>7. {ACTIVE} \in SUBSET FillKeys
  BY DEF FillKeys
<1>8. CacheInv'
  BY <1>2, <1>4, <1>6, <1>7, Commits
<1>9. JobsKept
  BY <1>2, JobsKeptByCommit DEF CacheInv, BoardJobs
<1> QED
  BY <1>8, <1>9

LEMMA PopupSteps ==
  ASSUME CacheInv, Pictures, PopupNext, UNCHANGED <<boardrows, svars, fvars>>
  PROVE  CacheInv' /\ JobsKept /\ Pictures'
<1>1. UNCHANGED <<posts, comment, channel, edited>>
  BY DEF boardrows, svars, fvars
<1>2. CASE OpenPage
  <2>1. CacheInv' /\ JobsKept
    BY <1>1, <1>2, NothingTouched, Rests DEF OpenPage, JobsKept
  <2>2. \A list \in Answers : \A x \in list : x.id \in Popups
    <3>1. ASSUME NEW list \in Answers PROVE Fits(ACTIVE, list)
      <4>1. CASE Cached(ACTIVE) /\ list = store[ACTIVE].value
        BY <4>1, KeyFacts DEF CacheInv, Shapes, FillKeys
      <4>2. CASE \E q \in Requests : job[q].pc = "fill" /\ job[q].key = ACTIVE /\ list = job[q].value
        BY <4>2 DEF CacheInv, Shapes, Shaped
      <4> QED
        BY <4>1, <4>2 DEF Answers
    <3> QED
      BY <3>1 DEF Fits
  <2>3. Pictures'
    BY <1>2, <2>2 DEF OpenPage, Pictures
  <2> QED
    BY <2>1, <2>3
<1>3. ASSUME NEW url \in asked, Load(url) PROVE CacheInv' /\ JobsKept /\ Pictures'
  <2>1. CacheInv' /\ JobsKept
    BY <1>1, <1>3, NothingTouched, Rests DEF Load, JobsKept
  <2>2. popup[url.id].image \in Images
    BY <1>3 DEF Load, Pictures
  <2>3. Pictures'
    BY <1>3, <2>2 DEF Load, Pictures
  <2> QED
    BY <2>1, <2>3
<1>4. ASSUME NEW q \in Requests, ListActive(q) PROVE CacheInv' /\ JobsKept /\ Pictures'
  <2>1. Keeps(Keys)
    BY <1>1, <1>4, NothingTouched DEF ListActive, pvars
  <2>2. ACTIVE \in FillKeys /\ Fits(ACTIVE, ActivePopups)
    BY DEF FillKeys, Fits, ActivePopups, ACTIVE, CHANNELS
  <2>3. Right(ACTIVE, ActivePopups)
    BY KeysAssumption DEF Right, ACTIVE, CHANNELS, LIST
  <2>4. CacheInv' /\ JobsKept
    BY <1>4, <2>1, <2>2, <2>3, Misses DEF ListActive
  <2>5. Pictures'
    BY <1>4 DEF ListActive, pvars, Pictures
  <2> QED
    BY <2>4, <2>5
<1>5. ASSUME NEW q \in Requests, NEW p \in Popups, NEW row, SavePopup(q, p, row),
             row # Nothing => row.image \in Images \cup {NoImage}
      PROVE  CacheInv' /\ JobsKept /\ Pictures'
  <2>1. CacheInv' /\ JobsKept
    BY <1>5, SavesPopup
  <2>2. popup' = [popup EXCEPT ![p] = row] /\ UNCHANGED <<asked, keptImages>>
    BY <1>5 DEF SavePopup
  <2>3. Pictures'
    BY <1>5, <2>2 DEF Pictures
  <2> QED
    BY <2>1, <2>3
<1>6. ASSUME NEW q \in Requests, NEW image \in Images \cup {NoImage}, NEW active \in BOOLEAN,
             CreatePopup(q, image, active)
      PROVE  CacheInv' /\ JobsKept /\ Pictures'
  <2>1. PICK p \in Popups : SavePopup(q, p, [image |-> image, active |-> active])
    BY <1>6 DEF CreatePopup
  <2>2. [image |-> image, active |-> active].image \in Images \cup {NoImage}
    OBVIOUS
  <2> QED
    BY <2>1, <2>2, <1>5
<1>7. ASSUME NEW q \in Requests, NEW image \in Images \cup {NoImage}, NEW active \in BOOLEAN,
             NEW p \in Popups, NEW remove \in BOOLEAN, UpdatePopup(q, p, image, remove, active)
      PROVE  CacheInv' /\ JobsKept /\ Pictures'
  <2>1. PICK kept : kept = IF image # NoImage \/ remove THEN image ELSE popup[p].image
    OBVIOUS
  <2>2. SavePopup(q, p, [image |-> kept, active |-> active]) /\ kept \in Images \cup {NoImage}
    BY <1>7, <2>1 DEF UpdatePopup, Pictures
  <2>3. [image |-> kept, active |-> active].image \in Images \cup {NoImage}
    BY <2>2
  <2> QED
    BY <2>2, <2>3, <1>5
<1>8. ASSUME NEW q \in Requests, NEW p \in Popups, DeletePopup(q, p)
      PROVE  CacheInv' /\ JobsKept /\ Pictures'
  BY <1>8, <1>5 DEF DeletePopup
<1> QED
  BY <1>2, <1>3, <1>4, <1>6, <1>7, <1>8 DEF PopupNext

----------------------------------------------------------------------------
(* Streams *)

LEMMA RegisteredFits ==
  ASSUME OnAir
  PROVE  Fits(CHANNELS, Registered) /\ Right(CHANNELS, Registered)
<1>1. \A x \in Registered : x.user \in Streamers /\ x.channel = channel[x.user] /\ x.channel # NoChannel
  BY DEF Registered
<1>2. OneEach(Registered)
  BY <1>1 DEF OnAir, OneEach
<1> QED
  BY <1>2, KeysAssumption DEF Fits, Right, ACTIVE, CHANNELS, LIST

\* The registrations asked about are of one list.
LEMMA Asks ==
  ASSUME CacheInv, Keeps(Keys), NEW q \in Requests, NEW npids, LiveFor(q, npids)
  PROVE  CacheInv' /\ JobsKept
<1>1. ASSUME NEW list, OneEach(list), Ask(q, list, npids)
      PROVE  \E j : To(q, j) /\ j.pc = "live" /\ Shaped(j)
  <2>1. PICK wanted : wanted = {r \in list : r.user \in npids}
    OBVIOUS
  <2>2. PICK j : j = [pc |-> "live", todo |-> wanted, found |-> {}]
    OBVIOUS
  <2>3. To(q, j)
    BY <1>1, <2>1, <2>2 DEF Ask
  <2>4. OneEach(wanted)
    BY <1>1, <2>1 DEF OneEach
  <2>5. wanted \cup {} = wanted
    OBVIOUS
  <2>6. Shaped(j)
    BY <2>2, <2>4, <2>5 DEF Shaped
  <2> QED
    BY <2>2, <2>3, <2>6
<1>2. CASE job[q] = Waiting /\ Cached(CHANNELS) /\ Ask(q, store[CHANNELS].value, npids) /\ UNCHANGED store
  <2>1. Fits(CHANNELS, store[CHANNELS].value)
    BY <1>2, KeyFacts DEF CacheInv, Shapes, FillKeys
  <2>2. OneEach(store[CHANNELS].value)
    BY <2>1 DEF Fits
  <2>3. PICK j : To(q, j) /\ j.pc = "live" /\ Shaped(j)
    BY <2>2, <1>1, <1>2
  <2>4. job[q].pc = "waiting"
    BY <1>2 DEF Waiting
  <2>5. CacheInv'
    BY <2>3, <2>4, <1>2, Moves
  <2>6. JobsKept
    BY <2>3, <2>4, JobsKeptByMove DEF CacheInv, BoardJobs
  <2> QED
    BY <2>5, <2>6
<1>3. CASE /\ job[q].pc = "fill" /\ job[q].key = CHANNELS /\ Ask(q, job[q].value, npids)
           /\ Put(CHANNELS, job[q].value, job[q].late)
  <2>1. PICK v, late : v = job[q].value /\ late = job[q].late
    OBVIOUS
  <2>2. Fits(CHANNELS, v) /\ late \in BOOLEAN /\ Put(CHANNELS, v, late)
    BY <1>3, <2>1 DEF CacheInv, Shapes, Shaped, Reading
  <2>3. ~late => Right(CHANNELS, v)
    BY <1>3, <2>1 DEF CacheInv, Current
  <2>4. OneEach(v)
    BY <2>2 DEF Fits
  <2>5. PICK j : To(q, j) /\ j.pc = "live" /\ Shaped(j)
    BY <2>1, <2>4, <1>1, <1>3
  <2>6. CHANNELS \in FillKeys \cup Channels
    BY DEF FillKeys
  <2>7. CacheInv'
    BY <1>3, <2>2, <2>3, <2>5, <2>6, Stores
  <2>8. JobsKept
    BY <1>3, <2>5, JobsKeptByMove DEF CacheInv, BoardJobs
  <2> QED
    BY <2>7, <2>8
<1> QED
  BY <1>2, <1>3 DEF LiveFor

\* One check of a player; the marks found are among those asked about.
LEMMA Checks ==
  ASSUME CacheInv, Keeps(Keys), NEW q \in Requests, job[q].pc = "live", NEW r \in job[q].todo,
         CheckLive(q, r)
  PROVE  CacheInv' /\ JobsKept
<1>1. PICK todo, found : job[q] = [pc |-> "live", todo |-> todo, found |-> found] /\ OneEach(todo \cup found)
  BY DEF CacheInv, Shapes, Shaped
<1>2. r \in todo /\ r.channel \in Channels
  BY <1>1 DEF OneEach
<1>3. PICK live \in BOOLEAN :
        /\ UNCHANGED store \/ Put(r.channel, live, FALSE)
        /\ To(q, [pc |-> "live", todo |-> job[q].todo \ {r},
                  found |-> IF live THEN job[q].found \cup {r} ELSE job[q].found])
  BY Zenon DEF CheckLive
<1>4. PICK now : now = IF live THEN job[q].found \cup {r} ELSE job[q].found
  OBVIOUS
<1>5. PICK j : j = [pc |-> "live", todo |-> todo \ {r}, found |-> now]
  OBVIOUS
<1>6. To(q, j)
  <2>1. job[q].todo = todo /\ job[q].found = found
    BY <1>1
  <2> QED
    BY <2>1, <1>3, <1>4, <1>5, Zenon
<1>7. (todo \ {r}) \cup now \subseteq todo \cup found
  BY <1>1, <1>2, <1>4
<1>8. OneEach((todo \ {r}) \cup now)
  BY <1>1, <1>7 DEF OneEach
<1>9. Shaped(j) /\ j.pc = "live"
  BY <1>5, <1>8 DEF Shaped
<1>10. Fits(r.channel, live) /\ Right(r.channel, live)
  BY <1>2, KeysAssumption DEF Fits, Right, LIST, ACTIVE, CHANNELS
<1>11. CacheInv'
  <2>1. CASE UNCHANGED store
    BY <2>1, <1>6, <1>9, Moves
  <2>2. CASE Put(r.channel, live, FALSE)
    <3>1. PICK k : k = r.channel
      OBVIOUS
    <3>2. k \in FillKeys \cup Channels /\ Put(k, live, FALSE) /\ Fits(k, live) /\ Right(k, live)
      BY <2>2, <3>1, <1>2, <1>10
    <3> QED
      BY <3>2, <1>6, <1>9, Stores
  <2> QED
    BY <2>1, <2>2, <1>3
<1>12. JobsKept
  BY <1>6, <1>9, JobsKeptByMove DEF CacheInv, BoardJobs
<1> QED
  BY <1>11, <1>12

\* A registration, or its removal, drops the list.
LEMMA Links ==
  ASSUME CacheInv, OnAir, NEW q \in Requests, NEW u \in Streamers, NEW c \in Channels \cup {NoChannel},
         Link(q, u, c), c # NoChannel => \A v \in Streamers \ {u} : channel[v] # c,
         UNCHANGED <<boardrows, pvars, fvars>>
  PROVE  CacheInv' /\ JobsKept /\ OnAir'
<1>1. PICK changed : changed = IF Registered' # Registered THEN {CHANNELS} ELSE {}
  OBVIOUS
<1>2. Committed(q, {CHANNELS}, changed) /\ UNCHANGED store /\ job[q].pc = "waiting"
  BY <1>1 DEF Link, Waiting
<1>3. UNCHANGED <<posts, comment>> /\ ActivePopups' = ActivePopups /\ \A v \in Players : edited'[v] = edited[v]
  BY DEF boardrows, pvars, fvars, ActivePopups
<1>4. Keeps(Keys \ changed)
  BY <1>1, <1>3, KeepsOthers
<1>5. Keeps(Keys \ {CHANNELS})
  BY <1>3, KeepsOthers
<1>6. \A k \in Keys \ {CHANNELS} : \A v : Right(k, v) => Right(k, v)'
  BY <1>5 DEF Keeps
<1>7. {CHANNELS} \in SUBSET FillKeys
  BY DEF FillKeys
<1>8. CacheInv'
  BY <1>2, <1>4, <1>6, <1>7, Commits
<1>9. JobsKept
  BY <1>2, JobsKeptByCommit DEF CacheInv, BoardJobs
<1>10. OnAir'
  BY DEF OnAir, Link
<1> QED
  BY <1>8, <1>9, <1>10

LEMMA StreamingSteps ==
  ASSUME CacheInv, OnAir, StreamingNext, UNCHANGED <<boardrows, pvars, fvars>>
  PROVE  CacheInv' /\ JobsKept /\ OnAir'
<1>1. UNCHANGED <<posts, comment, popup, edited>>
  BY DEF boardrows, pvars, fvars
<1>2. ASSUME NEW c \in Channels, Broadcast(c) PROVE CacheInv' /\ JobsKept /\ OnAir'
  <2>1. CacheInv' /\ JobsKept
    BY <1>1, <1>2, NothingTouched, Rests DEF Broadcast, JobsKept
  <2> QED
    BY <2>1, <1>2 DEF Broadcast, OnAir
<1>3. ASSUME UNCHANGED svars PROVE Keeps(Keys) /\ OnAir'
  BY <1>1, <1>3, NothingTouched DEF svars, OnAir
<1>4. ASSUME NEW q \in Requests, ListChannels(q) PROVE CacheInv' /\ JobsKept /\ OnAir'
  <2>1. CHANNELS \in FillKeys
    BY DEF FillKeys
  <2> QED
    BY <1>3, <1>4, <2>1, RegisteredFits, Misses DEF ListChannels
<1>5. ASSUME NEW q \in Requests, Answer(q) PROVE CacheInv' /\ JobsKept /\ OnAir'
  <2>1. Keeps(Keys) /\ OnAir' /\ To(q, Waiting) /\ UNCHANGED store /\ job[q].pc = "live"
    BY <1>3, <1>5 DEF Answer
  <2>2. Shaped(Waiting) /\ Waiting.pc = "waiting"
    BY DEF Shaped, Waiting
  <2>3. CacheInv'
    BY <2>1, <2>2, Moves
  <2>4. JobsKept
    BY <2>1, <2>2, JobsKeptByMove DEF CacheInv, BoardJobs
  <2> QED
    BY <2>1, <2>3, <2>4
<1>6. ASSUME NEW q \in Requests, NEW npids \in SUBSET Streamers, LiveFor(q, npids)
      PROVE  CacheInv' /\ JobsKept /\ OnAir'
  BY <1>3, <1>6, Asks DEF LiveFor
<1>7. ASSUME NEW q \in Requests, job[q].pc = "live", NEW r \in job[q].todo, CheckLive(q, r)
      PROVE  CacheInv' /\ JobsKept /\ OnAir'
  BY <1>3, <1>7, Checks DEF CheckLive
<1>8. ASSUME NEW q \in Requests, NEW u \in Streamers, NEW c \in Channels, Upsert(q, u, c)
      PROVE  CacheInv' /\ JobsKept /\ OnAir'
  BY <1>8, Links DEF Upsert
<1>9. ASSUME NEW q \in Requests, NEW u \in Streamers, NEW admin \in BOOLEAN, Unlink(q, u, admin)
      PROVE  CacheInv' /\ JobsKept /\ OnAir'
  BY <1>9, Links DEF Unlink
<1> QED
  BY <1>2, <1>4, <1>5, <1>6, <1>7, <1>8, <1>9 DEF StreamingNext

----------------------------------------------------------------------------
(* Saves and the event *)

\* A read of the ranks asks for both views of it.
LEMMA AsksRanks ==
  ASSUME CacheInv, Keeps(Keys), NEW q \in Requests, NEW keys, AskRanks(q, keys),
         keys = {RANKS, HOLDERS} \/ keys = {BOARD, PLAYER}
  PROVE  CacheInv' /\ JobsKept
<1>1. PICK j : j = [pc |-> "ranks", keys |-> keys, value |-> save]
  OBVIOUS
<1>2. To(q, j) /\ job[q].pc = "waiting" /\ UNCHANGED store
  BY <1>1 DEF AskRanks, Waiting
<1>3. Shaped(j) /\ j.pc = "ranks"
  BY <1>1 DEF Shaped
<1>4. CacheInv'
  BY <1>2, <1>3, Moves
<1>5. JobsKept
  BY <1>2, <1>3, JobsKeptByMove DEF CacheInv, BoardJobs
<1> QED
  BY <1>4, <1>5

LEMMA RanksFilled ==
  ASSUME CacheInv, Keeps(Keys), NEW q \in Requests, FillRanks(q)
  PROVE  CacheInv' /\ JobsKept
<1>1. To(q, Waiting) /\ job[q].pc = "ranks" /\ Waiting.pc = "waiting"
  BY DEF FillRanks, Waiting
<1>2. JobsKept
  BY <1>1, JobsKeptByMove DEF CacheInv, BoardJobs
<1> QED
  BY <1>2, FillsRanks

LEMMA Plays ==
  ASSUME CacheInv, Edits, NEW u \in Players, PlaySession(u), UNCHANGED <<boardrows, pvars, svars>>
  PROVE  CacheInv' /\ JobsKept /\ Edits'
<1>1. UNCHANGED <<posts, comment, popup, channel, edited, store, job>>
  BY DEF boardrows, pvars, svars, PlaySession
<1>2. CacheInv'
  BY <1>1, NothingTouched, Rests
<1>3. Edits'
  BY <1>1 DEF PlaySession, Edits
<1> QED
  BY <1>1, <1>2, <1>3 DEF JobsKept

LEMMA SavesSteps ==
  ASSUME CacheInv, Edits, SavesNext, UNCHANGED <<boardrows, pvars, svars>>
  PROVE  CacheInv' /\ JobsKept /\ Edits'
<1>1. UNCHANGED <<posts, comment, popup, channel>>
  BY DEF boardrows, pvars, svars
<1>2. ASSUME UNCHANGED fvars PROVE Keeps(Keys) /\ Edits'
  BY <1>1, <1>2, NothingTouched DEF fvars, Edits
<1>3. ASSUME NEW q \in Requests, ReadRanks(q) PROVE CacheInv' /\ JobsKept /\ Edits'
  <2>1. AskRanks(q, {RANKS, HOLDERS}) /\ UNCHANGED fvars
    BY <1>3 DEF ReadRanks, AskRanks
  <2> QED
    BY <1>2, <2>1, AsksRanks
<1>4. ASSUME NEW q \in Requests, FillRanks(q) PROVE CacheInv' /\ JobsKept /\ Edits'
  BY <1>2, <1>4, RanksFilled DEF FillRanks
<1>5. ASSUME NEW q \in Requests, NEW u \in Players, ReadSave(q, u)
      PROVE  CacheInv' /\ JobsKept /\ Edits'
  <2>1. PICK v : v = save[u]
    OBVIOUS
  <2>2. Miss(q, u, v) /\ UNCHANGED fvars
    BY <1>5, <2>1 DEF ReadSave
  <2>3. u \in FillKeys /\ u \notin {LIST, ACTIVE, CHANNELS} \cup Posts
    BY KeysAssumption DEF FillKeys
  <2>4. v >= edited[u]
    BY <2>1 DEF Edits
  <2>5. Fits(u, v) /\ Right(u, v)
    BY <2>3, <2>4 DEF Fits, Right
  <2> QED
    BY <1>2, <2>2, <2>3, <2>5, Misses
<1>6. ASSUME NEW q \in Requests, NEW u \in Players, Preview(q, u)
      PROVE  CacheInv' /\ JobsKept /\ Edits'
  <2>1. UNCHANGED <<edited, store, job>>
    BY <1>6 DEF Preview
  <2>2. CacheInv' /\ JobsKept
    BY <2>1, <1>1, NothingTouched, Rests DEF JobsKept
  <2>3. Edits'
    <3>1. PICK version : version = save[u]
      OBVIOUS
    <3>2. preview' = [preview EXCEPT ![q] = [npid |-> u, version |-> version]] /\ UNCHANGED <<save, edited>>
      BY <1>6, <3>1 DEF Preview
    <3> QED
      BY <3>2 DEF Edits
  <2> QED
    BY <2>2, <2>3
<1>7. ASSUME NEW q \in Requests, Edit(q) PROVE CacheInv' /\ JobsKept /\ Edits'
  <2>1. PICK u : u = preview[q].npid
    OBVIOUS
  <2>2. u \in Players /\ job[q].pc = "waiting" /\ UNCHANGED store /\ preview' = [preview EXCEPT ![q] = NoPreview]
    BY <1>7, <2>1 DEF Edit, Edits, Waiting
  <2>3. CASE UNCHANGED <<save, edited, job>>
    <3>1. CacheInv' /\ JobsKept
      BY <2>2, <2>3, <1>1, NothingTouched, Rests DEF JobsKept
    <3>2. Edits'
      BY <2>2, <2>3 DEF Edits, NoPreview
    <3> QED
      BY <3>1, <3>2
  <2>4. CASE /\ save' = [save EXCEPT ![u] = @ + 1]
             /\ edited' = [edited EXCEPT ![u] = save[u] + 1]
             /\ Committed(q, {u}, {u})
    <3>1. \A w \in Players \ {u} : edited'[w] = edited[w]
      BY <2>4 DEF Edits
    <3>2. ActivePopups' = ActivePopups /\ Registered' = Registered
      BY <1>1 DEF ActivePopups, Registered
    <3>3. Keeps(Keys \ {u})
      BY <3>1, <3>2, <1>1, KeepsOthers
    <3>4. \A k \in Keys \ {u} : \A v : Right(k, v) => Right(k, v)'
      BY <3>3 DEF Keeps
    <3>5. {u} \in SUBSET FillKeys
      BY <2>2 DEF FillKeys
    <3>6. CacheInv'
      BY <2>2, <2>4, <3>3, <3>4, <3>5, Commits
    <3>7. JobsKept
      BY <2>2, <2>4, JobsKeptByCommit DEF CacheInv, BoardJobs
    <3>8. Edits'
      <4>1. save' \in [Players -> Nat] /\ edited' \in [Players -> Nat]
        BY <2>2, <2>4 DEF Edits
      <4>2. \A w \in Players : edited'[w] <= save'[w]
        BY <2>2, <2>4 DEF Edits
      <4>3. \A r \in Requests : preview'[r].npid \in Players \cup {Nothing}
        BY <2>2 DEF Edits, NoPreview
      <4>4. preview' = [r \in Requests |-> preview'[r]]
        BY <2>2 DEF Edits
      <4> QED
        BY <4>1, <4>2, <4>3, <4>4 DEF Edits
    <3> QED
      BY <3>6, <3>7, <3>8
  <2> QED
    BY <1>7, <2>1, <2>3, <2>4, Zenon DEF Edit
<1>8. ASSUME NEW q \in Requests, EditUnanswered(q) PROVE CacheInv' /\ JobsKept /\ Edits'
  <2>1. PICK u : u = preview[q].npid
    OBVIOUS
  <2>2. u \in Players /\ UNCHANGED <<edited, store, job>> /\ save' = [save EXCEPT ![u] = @ + 1]
        /\ preview' = [preview EXCEPT ![q] = NoPreview]
    BY <1>8, <2>1 DEF EditUnanswered, Edits
  <2>3. CacheInv' /\ JobsKept
    BY <2>2, <1>1, NothingTouched, Rests DEF JobsKept
  <2>4. Edits'
    BY <2>2 DEF Edits, NoPreview
  <2> QED
    BY <2>3, <2>4
<1> QED
  BY <1>3, <1>4, <1>5, <1>6, <1>7, <1>8, Plays DEF SavesNext

LEMMA EventSteps ==
  ASSUME CacheInv, Edits, EventNext, UNCHANGED <<boardrows, pvars, svars>>
  PROVE  CacheInv' /\ JobsKept /\ Edits'
<1>1. ASSUME UNCHANGED fvars PROVE Keeps(Keys) /\ Edits'
  BY <1>1, NothingTouched DEF fvars, Edits, boardrows, pvars, svars
<1>2. ASSUME NEW q \in Requests, ReadEvent(q) PROVE CacheInv' /\ JobsKept /\ Edits'
  <2>1. AskRanks(q, {BOARD, PLAYER}) /\ UNCHANGED fvars
    BY <1>2 DEF ReadEvent, AskRanks
  <2> QED
    BY <1>1, <2>1, AsksRanks
<1>3. ASSUME NEW q \in Requests, FillRanks(q) PROVE CacheInv' /\ JobsKept /\ Edits'
  BY <1>1, <1>3, RanksFilled DEF FillRanks
<1> QED
  BY <1>2, <1>3, Plays DEF EventNext

----------------------------------------------------------------------------
(* The board behind the cache *)

\* Every list of the posts there are has the same titles.
LEMMA TitlesAre ==
  /\ Titles(Listing) = {Title(posts[p]) : p \in {x \in Posts : Exists(x)}}
  /\ Titles(Listing)' = {Title(posts'[p]) : p \in {x \in Posts : Exists(x)'}}
<1>1. /\ \A y \in Listing.posts : y.id \in Posts /\ Exists(y.id) /\ y.row = posts[y.id]
      /\ \A p \in Posts : Exists(p) => \E y \in Listing.posts : y.id = p
  <2>1. PICK posted : posted = {[id |-> p, row |-> posts[p], count |-> CommentCount(p)] : p \in {x \in Posts : Exists(x)}}
    OBVIOUS
  <2>2. Listing.posts = posted
    BY <2>1 DEF Listing
  <2>3. \A y \in posted : y.id \in Posts /\ Exists(y.id) /\ y.row = posts[y.id]
    BY <2>1
  <2>4. ASSUME NEW p \in Posts, Exists(p) PROVE \E y \in posted : y.id = p
    <3>1. [id |-> p, row |-> posts[p], count |-> CommentCount(p)] \in posted
      BY <2>1, <2>4
    <3> QED
      BY <3>1
  <2> QED
    BY <2>2, <2>3, <2>4
<1>2. /\ \A y \in Listing'.posts : y.id \in Posts /\ Exists(y.id)' /\ y.row = posts'[y.id]
      /\ \A p \in Posts : Exists(p)' => \E y \in Listing'.posts : y.id = p
  <2>1. PICK posted : posted = {[id |-> p, row |-> posts'[p], count |-> CommentCount(p)'] : p \in {x \in Posts : Exists(x)'}}
    OBVIOUS
  <2>2. Listing'.posts = posted
    BY <2>1 DEF Listing
  <2>3. \A y \in posted : y.id \in Posts /\ Exists(y.id)' /\ y.row = posts'[y.id]
    BY <2>1
  <2>4. ASSUME NEW p \in Posts, Exists(p)' PROVE \E y \in posted : y.id = p
    <3>1. [id |-> p, row |-> posts'[p], count |-> CommentCount(p)'] \in posted
      BY <2>1, <2>4
    <3> QED
      BY <3>1
  <2> QED
    BY <2>2, <2>3, <2>4
<1>3. PICK l, m : l = Listing /\ m = Listing'
  OBVIOUS
<1>4. \A x : x \in Titles(l) <=> \E y \in l.posts : x = Title(y.row)
  BY DEF Titles
<1>5. \A x : x \in Titles(m) <=> \E y \in m.posts : x = Title(y.row)
  BY DEF Titles
<1>6. Titles(l) = {Title(posts[p]) : p \in {x \in Posts : Exists(x)}}
  BY <1>1, <1>3, <1>4
<1>7. Titles(m) = {Title(posts'[p]) : p \in {x \in Posts : Exists(x)'}}
  BY <1>2, <1>3, <1>5
<1> QED
  BY <1>3, <1>6, <1>7

LEMMA SameTitles ==
  ASSUME \A p \in Posts : (Exists(p)' <=> Exists(p)) /\ (Exists(p) => Title(posts'[p]) = Title(posts[p]))
  PROVE  Titles(Listing)' = Titles(Listing)
BY TitlesAre

\* A post is shown as before when its row and its comments are as before.
LEMMA SameTruth ==
  ASSUME NEW p \in Posts, posts'[p] = posts[p], CommentsOn(p)' = CommentsOn(p),
         \A n \in CommentsOn(p) : /\ comment'[n].deleted = comment[n].deleted
                                  /\ comment'[n].parent = comment[n].parent
  PROVE  Truth(p)' = Truth(p)
<1>1. PICK ns : ns = CommentsOn(p)
  OBVIOUS
<1>2. ns = CommentsOn(p)'
  BY <1>1
<1>3. \A n \in ns : (Live(n)' <=> Live(n)) /\ comment'[n].parent = comment[n].parent
  BY <1>1 DEF Live
<1>4. PICK hs : hs = Hide(ns)
  OBVIOUS
<1>5. hs = Hide(ns)' /\ hs \subseteq ns
  BY <1>3, <1>4 DEF Hide
<1>6. Nest(hs)' = Nest(hs)
  <2>1. \A n \in hs : {r \in hs : comment'[r].parent = n} = {r \in hs : comment[r].parent = n}
    BY <1>3, <1>5
  <2>2. {t \in hs : comment'[t].parent \notin hs} = {t \in hs : comment[t].parent \notin hs}
    BY <1>3, <1>5
  <2>3. ASSUME NEW n \in hs PROVE Thread(hs, n)' = Thread(hs, n)
    <3>1. (~Live(n)') = (~Live(n))
      BY <1>3, <1>5
    <3> QED
      BY <3>1, <2>1, Zenon DEF Thread
  <2>4. PICK heads : heads = {t \in hs : comment[t].parent \notin hs}
    OBVIOUS
  <2>5. Nest(hs) = {Thread(hs, n) : n \in heads} /\ Nest(hs)' = {Thread(hs, n)' : n \in heads}
    BY <2>2, <2>4, Zenon DEF Nest
  <2> QED
    BY <2>3, <2>4, <2>5
<1>7. Detail(p) = [row |-> posts[p], comments |-> Nest(hs)]
  BY <1>1, <1>4 DEF Detail
<1>8. Detail(p)' = [row |-> posts'[p], comments |-> Nest(hs)']
  BY <1>2, <1>5 DEF Detail
<1>9. Detail(p)' = Detail(p) /\ (Exists(p)' <=> Exists(p))
  BY <1>6, <1>7, <1>8 DEF Exists
<1> QED
  BY <1>9, KeysAssumption DEF Truth

\* An answer of get_post is a page, and so is not "no post".
LEMMA DetailIsPage ==
  ASSUME Locks, Threads, NEW p \in Posts, Exists(p)
  PROVE  Detail(p) # Nothing
<1>1. posts[p] \in PostRow
  BY DEF Locks, Exists
<1>2. \A ns : Hide(ns) \subseteq ns
  BY DEF Hide
<1>3. CommentsOn(p) \subseteq Nat
  BY DEF CommentsOn, Threads
<1>4. PICK hs : hs = Hide(CommentsOn(p))
  OBVIOUS
<1>5. hs \in SUBSET Nat
  BY <1>2, <1>3, <1>4
<1>6. ASSUME NEW n \in hs
      PROVE  Thread(hs, n) \in [id : Nat, deleted : BOOLEAN, replies : SUBSET Nat]
  <2>1. {r \in hs : comment[r].parent = n} \in SUBSET Nat
    BY <1>5
  <2>2. (~Live(n)) \in BOOLEAN
    OBVIOUS
  <2>3. n \in Nat
    BY <1>5
  <2> QED
    BY <2>1, <2>2, <2>3, Zenon DEF Thread
<1>7. Nest(hs) \in SUBSET [id : Nat, deleted : BOOLEAN, replies : SUBSET Nat]
  BY <1>6 DEF Nest
<1>8. PICK threads : threads = Nest(hs)
  OBVIOUS
<1>9. Detail(p) = [row |-> posts[p], comments |-> threads]
  BY <1>4, <1>8 DEF Detail
<1>10. Detail(p) \in Page
  BY <1>1, <1>7, <1>8, <1>9 DEF Page
<1> QED
  BY <1>10, CommunityAssumption

\* Nobody brings a post back to before it was written.
Written == \A p \in Posts : posts[p] # NoPost => posts'[p] # NoPost

\* Whatever a write does not change stays right: fills of it are not late.
LEMMA UnchangedKeys ==
  ASSUME Locks, Threads, Written, UNCHANGED <<pvars, svars, fvars>>
  PROVE  Keeps(Keys \ Changed)
<1>1. ActivePopups' = ActivePopups /\ Registered' = Registered /\ edited' = edited
  BY DEF ActivePopups, Registered, pvars, svars, fvars
<1>2. \A k \in BoardKeys \ Changed : Truth(k)' = Truth(k)
  BY DEF Changed
<1>3. ASSUME LIST \notin Changed PROVE Titles(Listing)' = Titles(Listing)
  <2>1. Listing' = Listing
    BY <1>2, <1>3 DEF Truth, BoardKeys
  <2> QED
    BY <2>1 DEF Titles
<1>4. ASSUME NEW k \in Keys \ Changed, NEW v, Right(k, v) PROVE Right(k, v)'
  <2>1. k \in Posts => posts'[k] # NoPost /\ Truth(k)' = Truth(k)
    BY <1>2, <1>4 DEF Right, Written, BoardKeys
  <2>2. k = LIST => Titles(Listing)' = Titles(Listing)
    BY <1>3, <1>4
  <2> QED
    BY <1>1, <1>4, <2>1, <2>2, RightKept
<1>5. ASSUME NEW p \in (Keys \ Changed) \cap Posts, NEW row, RowRead(p, row) PROVE RowRead(p, row)'
  <2>1. p # LIST
    BY KeysAssumption
  <2>2. Exists(p) /\ Truth(p) = Detail(p) /\ Truth(p)' = Detail(p)
    BY <1>2, <1>5, <2>1 DEF RowRead, Truth, BoardKeys
  <2>3. Detail(p) # Nothing
    BY <2>2, DetailIsPage
  <2>4. Exists(p)' /\ Truth(p)' = Detail(p)'
    BY <2>1, <2>2, <2>3 DEF Truth
  <2>5. Detail(p).row = posts[p] /\ Detail(p)'.row = posts'[p]
    BY DEF Detail
  <2>6. posts'[p] = posts[p]
    BY <2>2, <2>4, <2>5
  <2> QED
    BY <1>5, <2>4, <2>6 DEF RowRead
<1> QED
  BY <1>4, <1>5 DEF Keeps

\* A write of the board commits: the posts it does not drop are as they were, and so
\* are the titles, unless it drops the list.
LEMMA BoardCommits ==
  ASSUME CacheInv, Locks, Threads, NEW q \in Requests, NEW keys \in SUBSET BoardKeys,
         Committed(q, keys, Changed), UNCHANGED store, UNCHANGED <<pvars, svars, fvars>>,
         job[q].pc \notin {"comments", "fill", "invalidate"}, Written,
         \A p \in Posts \ keys : posts[p] # NoPost => Truth(p)' = Truth(p),
         LIST \in keys \/ Titles(Listing)' = Titles(Listing)
  PROVE  CacheInv'
<1>1. Keeps(Keys \ Changed)
  BY UnchangedKeys
<1>2. PICK changed : changed = Changed
  OBVIOUS
<1>3. ActivePopups' = ActivePopups /\ Registered' = Registered /\ edited' = edited
  BY DEF ActivePopups, Registered, pvars, svars, fvars
<1>4. ASSUME NEW k \in Keys \ keys, NEW v, Right(k, v) PROVE Right(k, v)'
  <2>1. k \in Posts => posts'[k] # NoPost /\ Truth(k)' = Truth(k)
    BY <1>4 DEF Right, Written
  <2>2. k = LIST => Titles(Listing)' = Titles(Listing)
    BY <1>4
  <2> QED
    BY <1>3, <1>4, <2>1, <2>2, RightKept
<1>5. keys \in SUBSET FillKeys
  BY DEF FillKeys, BoardKeys
<1> QED
  BY <1>1, <1>2, <1>4, <1>5, Commits

\* The other requests of a write.
JobsKeptBut(q) ==
  \A r \in Requests \ {q} : {job[r].pc, job'[r].pc} \cap BoardJobs # {} => job'[r] = job[r]

LEMMA KeptByCommit ==
  ASSUME Shapes, NEW q \in Requests, NEW keys, NEW changed, Committed(q, keys, changed),
         job[q].pc \notin {"comments", "fill"}
  PROVE  JobsKeptBut(q) /\ job'[q].pc = "invalidate"
<1>1. job'[q].pc = "invalidate"
  <2>1. job'[q] = [pc |-> "invalidate", keys |-> keys]
    BY DEF Committed
  <2> QED
    BY <2>1
<1>2. ASSUME NEW r \in Requests \ {q} PROVE {job[r].pc, job'[r].pc} \cap BoardJobs # {} => job'[r] = job[r]
  <2>1. CASE job[r].pc \in {"comments", "fill"}
    <3>1. job'[r] = [job[r] EXCEPT !.late = @ \/ job[r].key \in changed]
      BY <2>1 DEF Committed
    <3>2. Reading(job[r])
      BY <2>1 DEF Shapes, Shaped
    <3>3. job'[r].pc = job[r].pc
      BY <3>1, <3>2, Zenon DEF Reading
    <3> QED
      BY <2>1, <3>3 DEF BoardJobs
  <2>2. CASE job[r].pc \notin {"comments", "fill"}
    BY <2>2 DEF Committed
  <2> QED
    BY <2>1, <2>2
<1> QED
  BY <1>1, <1>2 DEF JobsKeptBut

LEMMA KeptByMove ==
  ASSUME Shapes, NEW q \in Requests, NEW j, To(q, j)
  PROVE  JobsKeptBut(q) /\ job'[q] = j
BY DEF Shapes, To, JobsKeptBut

----------------------------------------------------------------------------
(* Votes *)

\* What a request has counted stays so while its lock and the post's votes do.
LEMMA CountsKept ==
  ASSUME NEW r \in Requests, Counting(r), job'[r] = job[r],
         job[r].pc \in {"tally", "counted"} =>
           /\ postLock'[job[r].id] = postLock[job[r].id]
           /\ Votes(job[r].id, TRUE)' = Votes(job[r].id, TRUE)
           /\ Votes(job[r].id, FALSE)' = Votes(job[r].id, FALSE)
           /\ \A who : VotedBy(job[r].id, who)' => VotedBy(job[r].id, who)
  PROVE  Counting(r)'
<1>1. PICK p : p = job[r].id
  OBVIOUS
<1>2. \A x, who : VotedBy(x, who) <=> \E t \in thumb : t.on = x /\ t.voter = who
  BY DEF VotedBy
<1>3. CASE job[r].pc = "tally"
  BY <1>3, Zenon DEF Counting
<1>4. CASE job[r].pc = "counted"
  BY <1>4, Zenon DEF Counting
<1>5. CASE job[r].pc \notin {"tally", "counted"}
  BY <1>5 DEF Counting
<1> QED
  BY <1>3, <1>4, <1>5

\* A post nobody has voted for yet has no votes.
LEMMA NoVotes ==
  ASSUME NEW p, \A t \in thumb : t.on # p
  PROVE  Votes(p, TRUE) = 0 /\ Votes(p, FALSE) = 0
<1>1. {t \in thumb : t.on = p /\ t.up = TRUE} = {} /\ {t \in thumb : t.on = p /\ t.up = FALSE} = {}
  OBVIOUS
<1> QED
  BY <1>1, FS_EmptySet DEF Votes

\* Posts are written without a vote, or change in what is not about votes.
LEMMA RowsVotes ==
  ASSUME Ballots, NEW q \in Requests, UNCHANGED <<thumb, postLock>>, JobsKeptBut(q),
         {job[q].pc, job'[q].pc} \cap {"tally", "counted"} = {},
         posts' \in [Posts -> PostRow \cup {NoPost, Gone}],
         \A p \in Posts : Exists(p) =>
           Exists(p)' /\ posts'[p].up = posts[p].up /\ posts'[p].down = posts[p].down,
         \A p \in Posts : Exists(p)' /\ ~Exists(p) => posts'[p].up = 0 /\ posts'[p].down = 0
  PROVE  Ballots'
<1>1. \A r \in Requests \ {q} : job[r].pc \in {"tally", "counted"} \/ job'[r].pc \in {"tally", "counted"}
                                  => job'[r] = job[r]
  BY DEF JobsKeptBut, BoardJobs
<1>2. \A p : Votes(p, TRUE)' = Votes(p, TRUE) /\ Votes(p, FALSE)' = Votes(p, FALSE)
  BY DEF Votes
<1>3. \A p, who : VotedBy(p, who)' <=> VotedBy(p, who)
  BY DEF VotedBy
<1>4. Thumbs'
  BY DEF Ballots, Thumbs
<1>5. Locks'
  <2>1. postLock' \in [Posts -> Requests \cup {NoHolder}]
    BY DEF Ballots, Locks
  <2>2. ASSUME NEW p \in Posts, postLock'[p] # NoHolder
        PROVE  job'[postLock'[p]].pc \in {"tally", "counted"} /\ job'[postLock'[p]].id = p /\ Exists(p)'
    <3>1. postLock[p] \in Requests /\ job[postLock[p]].pc \in {"tally", "counted"} /\ job[postLock[p]].id = p
          /\ Exists(p)
      BY <2>2 DEF Ballots, Locks
    <3> QED
      BY <3>1, <1>1
  <2> QED
    BY <2>1, <2>2 DEF Locks
<1>6. ThumbsAgree'
  <2>1. ASSUME NEW p \in Posts, Exists(p)'
        PROVE  /\ posts'[p].up = Votes(p, TRUE)' /\ posts'[p].down = Votes(p, FALSE)'
               /\ \A t, u \in thumb' : t.on = p /\ u.on = p /\ t.voter = u.voter => t = u
    <3>1. CASE Exists(p)
      <4>1. /\ posts[p].up = Votes(p, TRUE) /\ posts[p].down = Votes(p, FALSE)
            /\ \A t, u \in thumb : t.on = p /\ u.on = p /\ t.voter = u.voter => t = u
        BY <3>1 DEF Ballots, ThumbsAgree
      <4> QED
        BY <3>1, <4>1, <1>2
    <3>2. CASE ~Exists(p)
      <4>1. \A t \in thumb : t.on # p
        BY <3>2 DEF Ballots, Thumbs
      <4>2. Votes(p, TRUE) = 0 /\ Votes(p, FALSE) = 0
        BY <4>1, NoVotes
      <4> QED
        BY <2>1, <3>2, <4>1, <4>2, <1>2
    <3> QED
      BY <3>1, <3>2
  <2> QED
    BY <2>1 DEF ThumbsAgree
<1>7. ASSUME NEW r \in Requests PROVE Counting(r)'
  <2>1. CASE job'[r].pc \in {"tally", "counted"}
    <3>1. job'[r] = job[r] /\ Counting(r)
      BY <2>1, <1>1 DEF Ballots
    <3> QED
      BY <3>1, <1>2, <1>3, CountsKept
  <2>2. CASE job'[r].pc \notin {"tally", "counted"}
    BY <2>2 DEF Counting
  <2> QED
    BY <2>1, <2>2
<1> QED
  BY <1>4, <1>5, <1>6, <1>7 DEF Ballots

\* A post goes with its votes; nobody is counting them.
LEMMA DeleteVotes ==
  ASSUME Shapes, Ballots, NEW q \in Requests, Delete(q)
  PROVE  Ballots'
<1>1. PICK id : id = job[q].id
  OBVIOUS
<1>2. /\ job[q].pc = "delete" /\ id \in Posts /\ postLock[id] = NoHolder
      /\ posts' = [posts EXCEPT ![id] = Gone] /\ thumb' = {t \in thumb : t.on # id}
      /\ postLock' = postLock
  BY <1>1 DEF Delete, RowFree, Shapes, Shaped
<1>3. JobsKeptBut(q) /\ job'[q].pc = "invalidate"
  BY KeptByCommit DEF Delete
<1>4. \A r \in Requests \ {q} : job[r].pc \in {"tally", "counted"} \/ job'[r].pc \in {"tally", "counted"}
                                  => job'[r] = job[r]
  BY <1>3 DEF JobsKeptBut, BoardJobs
<1>5. posts \in [Posts -> PostRow \cup {NoPost, Gone}] /\ postLock \in [Posts -> Requests \cup {NoHolder}]
  BY DEF Ballots, Locks
<1>6. posts'[id] = Gone /\ ~Exists(id)' /\ \A p \in Posts \ {id} : posts'[p] = posts[p] /\ (Exists(p)' <=> Exists(p))
  BY <1>2, <1>5 DEF Exists
<1>7. ASSUME NEW p \in Posts \ {id}
      PROVE  /\ Votes(p, TRUE)' = Votes(p, TRUE) /\ Votes(p, FALSE)' = Votes(p, FALSE)
             /\ \A who : VotedBy(p, who)' => VotedBy(p, who)
  <2>1. {t \in thumb' : t.on = p /\ t.up = TRUE} = {t \in thumb : t.on = p /\ t.up = TRUE}
    BY <1>2
  <2>2. {t \in thumb' : t.on = p /\ t.up = FALSE} = {t \in thumb : t.on = p /\ t.up = FALSE}
    BY <1>2
  <2>3. Votes(p, TRUE)' = Votes(p, TRUE)
    BY <2>1 DEF Votes
  <2>4. Votes(p, FALSE)' = Votes(p, FALSE)
    BY <2>2 DEF Votes
  <2>5. \A who : VotedBy(p, who)' => VotedBy(p, who)
    BY <1>2 DEF VotedBy
  <2> QED
    BY <2>3, <2>4, <2>5
<1>8. Thumbs'
  <2>1. IsFiniteSet(thumb')
    BY <1>2, FS_Subset DEF Ballots, Thumbs
  <2>2. \A t \in thumb' : t = [on |-> t.on, voter |-> t.voter, up |-> t.up] /\ t.up \in BOOLEAN
                          /\ t.on \in Posts /\ Exists(t.on)'
    BY <1>2, <1>6 DEF Ballots, Thumbs
  <2> QED
    BY <2>1, <2>2 DEF Thumbs
<1>9. Locks'
  <2>1. posts' \in [Posts -> PostRow \cup {NoPost, Gone}] /\ postLock' \in [Posts -> Requests \cup {NoHolder}]
    BY <1>2, <1>5
  <2>2. ASSUME NEW p \in Posts, postLock'[p] # NoHolder
        PROVE  job'[postLock'[p]].pc \in {"tally", "counted"} /\ job'[postLock'[p]].id = p /\ Exists(p)'
    <3>1. p # id
      BY <2>2, <1>2
    <3>2. postLock[p] \in Requests /\ job[postLock[p]].pc \in {"tally", "counted"} /\ job[postLock[p]].id = p
          /\ Exists(p)
      BY <2>2, <1>2, <1>5 DEF Ballots, Locks
    <3>3. job'[postLock[p]] = job[postLock[p]]
      BY <3>2, <1>2, <1>4
    <3> QED
      BY <3>1, <3>2, <3>3, <1>2, <1>6
  <2> QED
    BY <2>1, <2>2 DEF Locks
<1>10. ThumbsAgree'
  <2>1. ASSUME NEW p \in Posts, Exists(p)'
        PROVE  /\ posts'[p].up = Votes(p, TRUE)' /\ posts'[p].down = Votes(p, FALSE)'
               /\ \A t, u \in thumb' : t.on = p /\ u.on = p /\ t.voter = u.voter => t = u
    <3>1. p # id /\ Exists(p)
      BY <2>1, <1>6
    <3>2. /\ posts[p].up = Votes(p, TRUE) /\ posts[p].down = Votes(p, FALSE)
          /\ \A t, u \in thumb : t.on = p /\ u.on = p /\ t.voter = u.voter => t = u
      BY <3>1 DEF Ballots, ThumbsAgree
    <3>3. posts'[p].up = Votes(p, TRUE)' /\ posts'[p].down = Votes(p, FALSE)'
      BY <3>1, <3>2, <1>6, <1>7
    <3> QED
      BY <3>2, <3>3, <1>2
  <2> QED
    BY <2>1 DEF ThumbsAgree
<1>11. ASSUME NEW r \in Requests PROVE Counting(r)'
  <2>1. CASE job'[r].pc \in {"tally", "counted"}
    <3>1. r # q /\ job'[r] = job[r] /\ Counting(r)
      BY <2>1, <1>3, <1>4 DEF Ballots
    <3>2. job[r].id \in Posts /\ postLock[job[r].id] = r
      BY <2>1, <3>1 DEF Shapes, Shaped, Counting
    <3>3. job[r].id \in Posts \ {id}
      BY <3>2, <1>2, CommunityAssumption
    <3> QED
      BY <3>1, <3>3, <1>2, <1>7, CountsKept
  <2>2. CASE job'[r].pc \notin {"tally", "counted"}
    BY <2>2 DEF Counting
  <2> QED
    BY <2>1, <2>2
<1> QED
  BY <1>8, <1>9, <1>10, <1>11 DEF Ballots

\* A request takes the lock of a post its voter has not voted for.
LEMMA LocksPost ==
  ASSUME Shapes, Ballots, NEW q \in Requests, LockPost(q)
  PROVE  Ballots'
<1>1. PICK id, who, up : id = job[q].id /\ who = job[q].who /\ up = job[q].up
  OBVIOUS
<1>2. PICK j : j = [pc |-> "tally", id |-> id, who |-> who, up |-> up]
  OBVIOUS
<1>3. /\ job[q] = [pc |-> "thumb", id |-> id, who |-> who, up |-> up] /\ id \in Posts
      /\ Exists(id) /\ postLock[id] = NoHolder /\ ~VotedBy(id, who)
      /\ postLock' = [postLock EXCEPT ![id] = q] /\ UNCHANGED <<posts, comment, thumb>>
  BY <1>1 DEF LockPost, RowFree, VotedBy, Shapes, Shaped
<1>4. To(q, j)
  <2>1. [job[q] EXCEPT !.pc = "tally"] = j
    BY <1>2, <1>3
  <2> QED
    BY <2>1 DEF LockPost
<1>5. JobsKeptBut(q) /\ job'[q] = j
  BY <1>4, KeptByMove
<1>6. \A r \in Requests \ {q} : job[r].pc \in {"tally", "counted"} \/ job'[r].pc \in {"tally", "counted"}
                                  => job'[r] = job[r]
  BY <1>5 DEF JobsKeptBut, BoardJobs
<1>7. posts \in [Posts -> PostRow \cup {NoPost, Gone}] /\ postLock \in [Posts -> Requests \cup {NoHolder}]
  BY DEF Ballots, Locks
<1>8. \A p : Votes(p, TRUE)' = Votes(p, TRUE) /\ Votes(p, FALSE)' = Votes(p, FALSE) /\ (Exists(p)' <=> Exists(p))
  BY <1>3 DEF Votes, Exists
<1>9. \A p, x : VotedBy(p, x)' <=> VotedBy(p, x)
  BY <1>3 DEF VotedBy
<1>10. Locks'
  <2>1. postLock' \in [Posts -> Requests \cup {NoHolder}] /\ posts' \in [Posts -> PostRow \cup {NoPost, Gone}]
    BY <1>3, <1>7
  <2>2. ASSUME NEW p \in Posts, postLock'[p] # NoHolder
        PROVE  job'[postLock'[p]].pc \in {"tally", "counted"} /\ job'[postLock'[p]].id = p /\ Exists(p)'
    <3>1. CASE p = id
      BY <3>1, <1>2, <1>3, <1>5, <1>7, <1>8
    <3>2. CASE p # id
      <4>1. postLock'[p] = postLock[p]
        BY <3>2, <1>3, <1>7
      <4>2. postLock[p] \in Requests /\ job[postLock[p]].pc \in {"tally", "counted"} /\ job[postLock[p]].id = p
            /\ Exists(p)
        BY <2>2, <4>1, <1>7 DEF Ballots, Locks
      <4>3. job'[postLock[p]] = job[postLock[p]]
        BY <4>2, <1>3, <1>6
      <4> QED
        BY <4>1, <4>2, <4>3, <1>8
    <3> QED
      BY <3>1, <3>2
  <2> QED
    BY <2>1, <2>2 DEF Locks
<1>11. Thumbs' /\ ThumbsAgree'
  <2>1. Thumbs'
    BY <1>3, <1>8 DEF Ballots, Thumbs
  <2>2. ASSUME NEW p \in Posts, Exists(p)'
        PROVE  /\ posts'[p].up = Votes(p, TRUE)' /\ posts'[p].down = Votes(p, FALSE)'
               /\ \A t, u \in thumb' : t.on = p /\ u.on = p /\ t.voter = u.voter => t = u
    <3>1. /\ posts[p].up = Votes(p, TRUE) /\ posts[p].down = Votes(p, FALSE)
          /\ \A t, u \in thumb : t.on = p /\ u.on = p /\ t.voter = u.voter => t = u
      BY <2>2, <1>8 DEF Ballots, ThumbsAgree
    <3>2. posts'[p].up = Votes(p, TRUE)' /\ posts'[p].down = Votes(p, FALSE)'
      BY <3>1, <1>3, <1>8
    <3> QED
      BY <3>1, <3>2, <1>3
  <2> QED
    BY <2>1, <2>2 DEF ThumbsAgree
<1>12. ASSUME NEW r \in Requests PROVE Counting(r)'
  <2>1. CASE r = q
    <3>1. job'[r].pc = "tally" /\ job'[r].id = id /\ job'[r].who = who
      BY <2>1, <1>2, <1>5
    <3>2. postLock'[id] = r /\ ~VotedBy(id, who)'
      BY <2>1, <1>3, <1>7, <1>9
    <3> QED
      BY <3>1, <3>2, Zenon DEF Counting
  <2>2. CASE r # q /\ job'[r].pc \in {"tally", "counted"}
    <3>1. job'[r] = job[r] /\ Counting(r)
      BY <2>2, <1>6 DEF Ballots
    <3>2. job[r].id \in Posts /\ postLock[job[r].id] = r
      BY <2>2, <3>1 DEF Shapes, Shaped, Counting
    <3>3. postLock'[job[r].id] = postLock[job[r].id]
      BY <3>2, <1>3, <1>7, CommunityAssumption
    <3> QED
      BY <3>1, <3>3, <1>8, <1>9, CountsKept
  <2>3. CASE job'[r].pc \notin {"tally", "counted"}
    BY <2>3 DEF Counting
  <2> QED
    BY <2>1, <2>2, <2>3
<1> QED
  BY <1>10, <1>11, <1>12 DEF Ballots

\* Under the lock a request counts the votes there are, and its own.
LEMMA CountsVotes ==
  ASSUME Shapes, Ballots, NEW q \in Requests, CountVotes(q)
  PROVE  Ballots' /\ Shaped(job'[q]) /\ \E j : To(q, j) /\ job'[q] = j /\ j.pc = "counted"
<1>1. PICK id, who, up : id = job[q].id /\ who = job[q].who /\ up = job[q].up
  OBVIOUS
<1>2. /\ job[q].pc = "tally" /\ id \in Posts /\ up \in BOOLEAN
      /\ UNCHANGED <<posts, comment, thumb, postLock>>
  BY <1>1 DEF CountVotes, boardrows, Shapes, Shaped
<1>3. PICK vote : vote = [on |-> id, voter |-> who, up |-> up]
  OBVIOUS
<1>4. PICK ups, downs : ups = With(Votes(id, TRUE), up) /\ downs = With(Votes(id, FALSE), ~up)
  OBVIOUS
<1>5. PICK j : j = [pc |-> "counted", id |-> id, vote |-> vote, up |-> ups, down |-> downs]
  OBVIOUS
<1>6. To(q, j)
  <2>1. To(q, [pc |-> "counted", id |-> id, vote |-> vote,
               up |-> Votes(id, TRUE) + IF up = TRUE THEN 1 ELSE 0,
               down |-> Votes(id, FALSE) + IF up = FALSE THEN 1 ELSE 0])
    BY <1>1, <1>3, Zenon DEF CountVotes
  <2>2. (IF up = TRUE THEN 1 ELSE 0) = (IF up THEN 1 ELSE 0) /\ (IF up = FALSE THEN 1 ELSE 0) = (IF ~up THEN 1 ELSE 0)
    BY <1>2
  <2>3. ups = Votes(id, TRUE) + (IF up = TRUE THEN 1 ELSE 0) /\ downs = Votes(id, FALSE) + (IF up = FALSE THEN 1 ELSE 0)
    BY <1>4, <2>2, Zenon DEF With
  <2> QED
    BY <1>5, <2>1, <2>3, Zenon
<1>7. JobsKeptBut(q) /\ job'[q] = j
  BY <1>6, KeptByMove
<1>8. \A r \in Requests \ {q} : job[r].pc \in {"tally", "counted"} \/ job'[r].pc \in {"tally", "counted"}
                                  => job'[r] = job[r]
  BY <1>7 DEF JobsKeptBut, BoardJobs
<1>9. postLock[id] = q /\ ~VotedBy(id, who)
  BY <1>1, <1>2 DEF Ballots, Counting
<1>10. \A p : Votes(p, TRUE)' = Votes(p, TRUE) /\ Votes(p, FALSE)' = Votes(p, FALSE) /\ (Exists(p)' <=> Exists(p))
  BY <1>2 DEF Votes, Exists
<1>11. \A p, x : VotedBy(p, x)' <=> VotedBy(p, x)
  BY <1>2 DEF VotedBy
<1>12. j.pc = "counted" /\ j.id = id /\ j.vote = vote /\ j.up = ups /\ j.down = downs
  BY <1>5
<1>13. Locks'
  <2>1. ASSUME NEW p \in Posts, postLock'[p] # NoHolder
        PROVE  job'[postLock'[p]].pc \in {"tally", "counted"} /\ job'[postLock'[p]].id = p /\ Exists(p)'
    <3>1. postLock[p] \in Requests /\ job[postLock[p]].pc \in {"tally", "counted"} /\ job[postLock[p]].id = p
          /\ Exists(p)
      BY <2>1, <1>2 DEF Ballots, Locks
    <3>2. CASE postLock[p] = q
      BY <3>1, <3>2, <1>1, <1>2, <1>7, <1>10, <1>12
    <3>3. CASE postLock[p] # q
      BY <3>1, <3>3, <1>2, <1>8, <1>10
    <3> QED
      BY <3>2, <3>3
  <2> QED
    BY <2>1, <1>2 DEF Ballots, Locks
<1>14. Thumbs' /\ ThumbsAgree'
  <2>1. Thumbs'
    BY <1>2, <1>10 DEF Ballots, Thumbs
  <2>2. ASSUME NEW p \in Posts, Exists(p)'
        PROVE  /\ posts'[p].up = Votes(p, TRUE)' /\ posts'[p].down = Votes(p, FALSE)'
               /\ \A t, u \in thumb' : t.on = p /\ u.on = p /\ t.voter = u.voter => t = u
    <3>1. /\ posts[p].up = Votes(p, TRUE) /\ posts[p].down = Votes(p, FALSE)
          /\ \A t, u \in thumb : t.on = p /\ u.on = p /\ t.voter = u.voter => t = u
      BY <2>2, <1>10 DEF Ballots, ThumbsAgree
    <3>2. posts'[p].up = Votes(p, TRUE)' /\ posts'[p].down = Votes(p, FALSE)'
      BY <3>1, <1>2, <1>10
    <3> QED
      BY <3>1, <3>2, <1>2
  <2> QED
    BY <2>1, <2>2 DEF ThumbsAgree
<1>15. ASSUME NEW r \in Requests PROVE Counting(r)'
  <2>1. CASE r = q
    <3>1. /\ job'[r].pc = "counted" /\ job'[r].id = id /\ job'[r].vote = vote
          /\ job'[r].up = ups /\ job'[r].down = downs
      BY <2>1, <1>7, <1>12
    <3>2. vote.voter = who /\ vote.up = up /\ vote = [on |-> id, voter |-> vote.voter, up |-> vote.up]
      BY <1>3
    <3>3. ups = With(Votes(id, TRUE)', vote.up) /\ downs = With(Votes(id, FALSE)', ~vote.up)
      BY <3>2, <1>4, <1>10, Zenon
    <3>4. postLock'[id] = r /\ ~VotedBy(id, vote.voter)' /\ vote.up \in BOOLEAN
      BY <2>1, <3>2, <1>2, <1>9, <1>11
    <3> QED
      BY <3>1, <3>2, <3>3, <3>4, Zenon DEF Counting
  <2>2. CASE r # q /\ job'[r].pc \in {"tally", "counted"}
    <3>1. job'[r] = job[r] /\ Counting(r)
      BY <2>2, <1>8 DEF Ballots
    <3> QED
      BY <3>1, <1>2, <1>10, <1>11, CountsKept
  <2>3. CASE job'[r].pc \notin {"tally", "counted"}
    BY <2>3 DEF Counting
  <2> QED
    BY <2>1, <2>2, <2>3
<1>16. Ballots'
  BY <1>13, <1>14, <1>15 DEF Ballots
<1>17. Shaped(job'[q])
  BY <1>2, <1>7, <1>12 DEF Shaped
<1> QED
  BY <1>6, <1>7, <1>12, <1>16, <1>17

\* A request that is given up lets its post go.
LEMMA AbortVotes ==
  ASSUME Shapes, Ballots, NEW q \in Requests, AbortRequest(q)
  PROVE  Ballots'
<1>1. /\ postLock' = [p \in Posts |-> IF postLock[p] = q THEN NoHolder ELSE postLock[p]]
      /\ UNCHANGED <<posts, comment, thumb>>
  BY DEF AbortRequest
<1>2. PICK j : j = Waiting
  OBVIOUS
<1>3. JobsKeptBut(q) /\ job'[q] = j /\ j.pc = "waiting"
  BY <1>2, KeptByMove DEF AbortRequest, Waiting
<1>4. \A r \in Requests : job'[r].pc \in {"tally", "counted"} => r # q /\ job'[r] = job[r]
  BY <1>3 DEF JobsKeptBut, BoardJobs
<1>5. \A p : Votes(p, TRUE)' = Votes(p, TRUE) /\ Votes(p, FALSE)' = Votes(p, FALSE) /\ (Exists(p)' <=> Exists(p))
  BY <1>1 DEF Votes, Exists
<1>6. \A p, x : VotedBy(p, x)' <=> VotedBy(p, x)
  BY <1>1 DEF VotedBy
<1>7. Locks'
  <2>1. postLock' \in [Posts -> Requests \cup {NoHolder}]
    BY <1>1 DEF Ballots, Locks
  <2>2. ASSUME NEW p \in Posts, postLock'[p] # NoHolder
        PROVE  job'[postLock'[p]].pc \in {"tally", "counted"} /\ job'[postLock'[p]].id = p /\ Exists(p)'
    <3>1. postLock'[p] = postLock[p] /\ postLock[p] # q
      BY <2>2, <1>1
    <3>2. postLock[p] \in Requests /\ job[postLock[p]].pc \in {"tally", "counted"} /\ job[postLock[p]].id = p
          /\ Exists(p)
      BY <2>2, <3>1 DEF Ballots, Locks
    <3>3. job'[postLock[p]] = job[postLock[p]]
      BY <3>1, <3>2, <1>3 DEF JobsKeptBut, BoardJobs
    <3> QED
      BY <3>1, <3>2, <3>3, <1>5
  <2> QED
    BY <2>1, <2>2, <1>1 DEF Ballots, Locks
<1>8. Thumbs' /\ ThumbsAgree'
  <2>1. Thumbs'
    BY <1>1, <1>5 DEF Ballots, Thumbs
  <2>2. ASSUME NEW p \in Posts, Exists(p)'
        PROVE  /\ posts'[p].up = Votes(p, TRUE)' /\ posts'[p].down = Votes(p, FALSE)'
               /\ \A t, u \in thumb' : t.on = p /\ u.on = p /\ t.voter = u.voter => t = u
    <3>1. /\ posts[p].up = Votes(p, TRUE) /\ posts[p].down = Votes(p, FALSE)
          /\ \A t, u \in thumb : t.on = p /\ u.on = p /\ t.voter = u.voter => t = u
      BY <2>2, <1>5 DEF Ballots, ThumbsAgree
    <3>2. posts'[p].up = Votes(p, TRUE)' /\ posts'[p].down = Votes(p, FALSE)'
      BY <3>1, <1>1, <1>5
    <3> QED
      BY <3>1, <3>2, <1>1
  <2> QED
    BY <2>1, <2>2 DEF ThumbsAgree
<1>9. ASSUME NEW r \in Requests PROVE Counting(r)'
  <2>1. CASE job'[r].pc \in {"tally", "counted"}
    <3>1. r # q /\ job'[r] = job[r] /\ Counting(r)
      BY <2>1, <1>4 DEF Ballots
    <3>2. job[r].id \in Posts /\ postLock[job[r].id] = r
      BY <2>1, <3>1 DEF Shapes, Shaped, Counting
    <3>3. postLock'[job[r].id] = postLock[job[r].id]
      BY <3>1, <3>2, <1>1
    <3> QED
      BY <3>1, <3>3, <1>5, <1>6, CountsKept
  <2>2. CASE job'[r].pc \notin {"tally", "counted"}
    BY <2>2 DEF Counting
  <2> QED
    BY <2>1, <2>2
<1> QED
  BY <1>7, <1>8, <1>9 DEF Ballots

LEMMA WithValues ==
  ASSUME NEW n \in Nat
  PROVE  /\ With(n, TRUE) = n + 1 /\ With(n, FALSE) = n
         /\ \A c : With(n, c) \in Nat
<1>1. With(n, TRUE) = n + 1
  BY DEF With
<1>2. With(n, FALSE) = n
  BY DEF With
<1>3. ASSUME NEW c PROVE With(n, c) \in Nat
  <2>1. CASE c
    BY <2>1, SMT DEF With
  <2>2. CASE ~c
    BY <2>2, SMT DEF With
  <2> QED
    BY <2>1, <2>2
<1> QED
  BY <1>1, <1>2, <1>3

\* One vote more, of somebody who had not voted for the post.
LEMMA VoteAdded ==
  ASSUME IsFiniteSet(thumb), NEW v, NEW id, v.on = id, v.up \in BOOLEAN, thumb' = thumb \cup {v},
         ~VotedBy(id, v.voter)
  PROVE  /\ IsFiniteSet(thumb')
         /\ Votes(id, TRUE) \in Nat /\ Votes(id, FALSE) \in Nat
         /\ Votes(id, TRUE)' = With(Votes(id, TRUE), v.up)
         /\ Votes(id, FALSE)' = With(Votes(id, FALSE), ~v.up)
         /\ \A p : p # id =>
              /\ Votes(p, TRUE)' = Votes(p, TRUE) /\ Votes(p, FALSE)' = Votes(p, FALSE)
              /\ \A who : VotedBy(p, who)' => VotedBy(p, who)
<1>1. v \notin thumb
  BY DEF VotedBy
<1>2. PICK ups, downs : ups = {t \in thumb : t.on = id /\ t.up = TRUE} /\ downs = {t \in thumb : t.on = id /\ t.up = FALSE}
  OBVIOUS
<1>3. IsFiniteSet(ups) /\ IsFiniteSet(downs) /\ v \notin ups /\ v \notin downs
  <2>1. ups \subseteq thumb /\ downs \subseteq thumb
    BY <1>2
  <2> QED
    BY <2>1, <1>1, FS_Subset
<1>4. Votes(id, TRUE) = Cardinality(ups) /\ Votes(id, FALSE) = Cardinality(downs)
  BY <1>2 DEF Votes
<1>5. Cardinality(ups) \in Nat /\ Cardinality(downs) \in Nat
  BY <1>3, FS_CardinalityType
<1>6. /\ Cardinality(ups \cup {v}) = Cardinality(ups) + 1
      /\ Cardinality(downs \cup {v}) = Cardinality(downs) + 1
  BY <1>3, FS_AddElement
<1>7. ASSUME v.up = TRUE
      PROVE  /\ Votes(id, TRUE)' = With(Votes(id, TRUE), v.up)
             /\ Votes(id, FALSE)' = With(Votes(id, FALSE), ~v.up)
  <2>1. {t \in thumb' : t.on = id /\ t.up = TRUE} = ups \cup {v}
    BY <1>2, <1>7
  <2>2. {t \in thumb' : t.on = id /\ t.up = FALSE} = downs
    BY <1>2, <1>7
  <2>3. Votes(id, TRUE)' = Cardinality(ups \cup {v}) /\ Votes(id, FALSE)' = Cardinality(downs)
    BY <2>1, <2>2 DEF Votes
  <2>4. With(Votes(id, TRUE), TRUE) = Cardinality(ups) + 1 /\ With(Votes(id, FALSE), FALSE) = Cardinality(downs)
    BY <1>4, <1>5, WithValues
  <2>5. (~v.up) = FALSE
    BY <1>7
  <2>6. With(Votes(id, TRUE), v.up) = With(Votes(id, TRUE), TRUE) /\ With(Votes(id, FALSE), ~v.up) = With(Votes(id, FALSE), FALSE)
    BY <2>5, <1>7, Zenon
  <2> QED
    BY <1>6, <2>3, <2>4, <2>6
<1>8. ASSUME v.up = FALSE
      PROVE  /\ Votes(id, TRUE)' = With(Votes(id, TRUE), v.up)
             /\ Votes(id, FALSE)' = With(Votes(id, FALSE), ~v.up)
  <2>1. {t \in thumb' : t.on = id /\ t.up = TRUE} = ups
    BY <1>2, <1>8
  <2>2. {t \in thumb' : t.on = id /\ t.up = FALSE} = downs \cup {v}
    BY <1>2, <1>8
  <2>3. Votes(id, TRUE)' = Cardinality(ups) /\ Votes(id, FALSE)' = Cardinality(downs \cup {v})
    BY <2>1, <2>2 DEF Votes
  <2>4. With(Votes(id, TRUE), FALSE) = Cardinality(ups) /\ With(Votes(id, FALSE), TRUE) = Cardinality(downs) + 1
    BY <1>4, <1>5, WithValues
  <2>5. (~v.up) = TRUE
    BY <1>8
  <2>6. With(Votes(id, TRUE), v.up) = With(Votes(id, TRUE), FALSE) /\ With(Votes(id, FALSE), ~v.up) = With(Votes(id, FALSE), TRUE)
    BY <2>5, <1>8, Zenon
  <2> QED
    BY <1>6, <2>3, <2>4, <2>6
<1>9. ASSUME NEW p, p # id
      PROVE  /\ Votes(p, TRUE)' = Votes(p, TRUE) /\ Votes(p, FALSE)' = Votes(p, FALSE)
             /\ \A who : VotedBy(p, who)' => VotedBy(p, who)
  <2>1. {t \in thumb' : t.on = p /\ t.up = TRUE} = {t \in thumb : t.on = p /\ t.up = TRUE}
    BY <1>9
  <2>2. {t \in thumb' : t.on = p /\ t.up = FALSE} = {t \in thumb : t.on = p /\ t.up = FALSE}
    BY <1>9
  <2>3. Votes(p, TRUE)' = Votes(p, TRUE)
    BY <2>1 DEF Votes
  <2>4. Votes(p, FALSE)' = Votes(p, FALSE)
    BY <2>2 DEF Votes
  <2>5. \A who : VotedBy(p, who)' => VotedBy(p, who)
    BY <1>9 DEF VotedBy
  <2> QED
    BY <2>3, <2>4, <2>5
<1>10. IsFiniteSet(thumb')
  BY FS_AddElement
<1> QED
  BY <1>4, <1>5, <1>7, <1>8, <1>9, <1>10

\* What the commit of a vote writes.
LEMMA ThumbRow ==
  ASSUME Shapes, Ballots, NEW q \in Requests, CommitThumb(q), NEW id, id = job[q].id
  PROVE  /\ id \in Posts /\ Exists(id) /\ job[q].pc = "counted"
         /\ job[q].up \in Nat /\ job[q].down \in Nat
         /\ posts'[id] = [author |-> posts[id].author, notice |-> posts[id].notice, text |-> posts[id].text,
                          up |-> job[q].up, down |-> job[q].down]
         /\ posts[id] \in PostRow /\ posts'[id] \in PostRow
         /\ \A p \in Posts \ {id} : posts'[p] = posts[p]
         /\ posts' \in [Posts -> PostRow \cup {NoPost, Gone}]
<1>1. job[q].pc = "counted" /\ id \in Posts /\ Exists(id)
  BY DEF CommitThumb, Shapes, Shaped
<1>2. posts \in [Posts -> PostRow \cup {NoPost, Gone}] /\ posts[id] \in PostRow
  BY <1>1 DEF Ballots, Locks, Exists
<1>3. PICK up, down : up = job[q].up /\ down = job[q].down
  OBVIOUS
<1>4. posts' = [posts EXCEPT ![id].up = up, ![id].down = down]
  BY <1>3 DEF CommitThumb
<1>5. PICK row : row = [author |-> posts[id].author, notice |-> posts[id].notice, text |-> posts[id].text,
                        up |-> up, down |-> down]
  OBVIOUS
<1>6. posts'[id] = row /\ \A p \in Posts \ {id} : posts'[p] = posts[p]
  BY <1>1, <1>2, <1>4, <1>5 DEF PostRow
<1>7. up \in Nat /\ down \in Nat
  <2>1. PICK v : v = job[q].vote
    OBVIOUS
  <2>2. up = With(Votes(id, TRUE), v.up) /\ down = With(Votes(id, FALSE), ~v.up)
    BY <1>1, <1>3, <2>1, Zenon DEF Ballots, Counting
  <2>3. Votes(id, TRUE) \in Nat /\ Votes(id, FALSE) \in Nat
    <3>1. \A x \in {TRUE, FALSE} : IsFiniteSet({t \in thumb : t.on = id /\ t.up = x})
      BY FS_Subset DEF Ballots, Thumbs
    <3> QED
      BY <3>1, FS_CardinalityType DEF Votes
  <2> QED
    BY <2>2, <2>3, WithValues, Zenon
<1>8. row \in PostRow
  BY <1>2, <1>5, <1>7 DEF PostRow
<1>9. posts' \in [Posts -> PostRow \cup {NoPost, Gone}]
  <2>1. posts' = [p \in Posts |-> posts'[p]]
    BY <1>2, <1>4
  <2>2. \A p \in Posts : posts'[p] \in PostRow \cup {NoPost, Gone}
    BY <1>2, <1>6, <1>8
  <2> QED
    BY <2>1, <2>2
<1> QED
  BY <1>1, <1>2, <1>3, <1>5, <1>6, <1>7, <1>8, <1>9

\* The vote and the counts are written together, and the lock goes.
LEMMA CommitsThumb ==
  ASSUME Shapes, Ballots, NEW q \in Requests, CommitThumb(q)
  PROVE  Ballots'
<1>1. PICK id, v, up, down : id = job[q].id /\ v = job[q].vote /\ up = job[q].up /\ down = job[q].down
  OBVIOUS
<1>2. /\ id \in Posts /\ Exists(id) /\ job[q].pc = "counted"
      /\ posts'[id].up = up /\ posts'[id].down = down /\ posts'[id] \in PostRow
      /\ \A p \in Posts \ {id} : posts'[p] = posts[p]
      /\ posts' \in [Posts -> PostRow \cup {NoPost, Gone}]
  <2>1. /\ id \in Posts /\ Exists(id) /\ job[q].pc = "counted"
        /\ posts'[id] = [author |-> posts[id].author, notice |-> posts[id].notice, text |-> posts[id].text,
                         up |-> job[q].up, down |-> job[q].down]
        /\ posts'[id] \in PostRow
        /\ \A p \in Posts \ {id} : posts'[p] = posts[p]
        /\ posts' \in [Posts -> PostRow \cup {NoPost, Gone}]
    BY <1>1, ThumbRow, ZenonT(30)
  <2>2. posts'[id].up = up /\ posts'[id].down = down
    BY <2>1, <1>1
  <2> QED
    BY <2>1, <2>2
<1>3. /\ postLock[id] = q /\ v = [on |-> id, voter |-> v.voter, up |-> v.up] /\ v.up \in BOOLEAN
      /\ ~VotedBy(id, v.voter) /\ up = With(Votes(id, TRUE), v.up) /\ down = With(Votes(id, FALSE), ~v.up)
  BY <1>1, <1>2, Zenon DEF Ballots, Counting
<1>4. v.on = id
  BY <1>3
<1>5. thumb' = thumb \cup {v} /\ JobsKeptBut(q) /\ job'[q].pc = "invalidate"
  BY <1>1, KeptByCommit DEF CommitThumb
<1>6. postLock' = [postLock EXCEPT ![id] = NoHolder]
  BY <1>1, <1>3 DEF CommitThumb
<1>7. postLock \in [Posts -> Requests \cup {NoHolder}] /\ IsFiniteSet(thumb)
  BY DEF Ballots, Locks, Thumbs
<1>8. /\ IsFiniteSet(thumb') /\ Votes(id, TRUE)' = up /\ Votes(id, FALSE)' = down
      /\ \A p : p # id =>
           /\ Votes(p, TRUE)' = Votes(p, TRUE) /\ Votes(p, FALSE)' = Votes(p, FALSE)
           /\ \A who : VotedBy(p, who)' => VotedBy(p, who)
  <2>1. /\ IsFiniteSet(thumb')
        /\ Votes(id, TRUE)' = With(Votes(id, TRUE), v.up)
        /\ Votes(id, FALSE)' = With(Votes(id, FALSE), ~v.up)
        /\ \A p : p # id =>
             /\ Votes(p, TRUE)' = Votes(p, TRUE) /\ Votes(p, FALSE)' = Votes(p, FALSE)
             /\ \A who : VotedBy(p, who)' => VotedBy(p, who)
    BY <1>3, <1>4, <1>5, <1>7, VoteAdded, Zenon
  <2> QED
    BY <2>1, <1>3, Zenon
<1>9. \A p \in Posts : (Exists(p) <=> Exists(p)')
  <2>1. posts[id] \in PostRow
    BY <1>1, ThumbRow
  <2> QED
    BY <2>1, <1>2, CommunityAssumption DEF Exists
<1>10. \A r \in Requests \ {q} : job[r].pc \in {"tally", "counted"} \/ job'[r].pc \in {"tally", "counted"}
                                  => job'[r] = job[r]
  BY <1>5 DEF JobsKeptBut, BoardJobs
<1>11. Locks'
  <2>1. postLock' \in [Posts -> Requests \cup {NoHolder}]
    BY <1>6, <1>7
  <2>2. ASSUME NEW p \in Posts, postLock'[p] # NoHolder
        PROVE  job'[postLock'[p]].pc \in {"tally", "counted"} /\ job'[postLock'[p]].id = p /\ Exists(p)'
    <3>1. p # id /\ postLock'[p] = postLock[p]
      BY <2>2, <1>2, <1>6, <1>7
    <3>2. postLock[p] \in Requests /\ job[postLock[p]].pc \in {"tally", "counted"} /\ job[postLock[p]].id = p
          /\ Exists(p)
      BY <2>2, <3>1, <1>7 DEF Ballots, Locks
    <3>3. postLock[p] # q
      BY <3>1, <3>2, <1>1
    <3> QED
      BY <3>1, <3>2, <3>3, <1>9, <1>10
  <2> QED
    BY <2>1, <2>2, <1>2 DEF Locks
<1>12. Thumbs'
  <2>1. ASSUME NEW t \in thumb'
        PROVE  t = [on |-> t.on, voter |-> t.voter, up |-> t.up] /\ t.up \in BOOLEAN
               /\ t.on \in Posts /\ Exists(t.on)'
    <3>1. CASE t \in thumb
      BY <3>1, <1>9 DEF Ballots, Thumbs
    <3>2. CASE t = v
      BY <3>2, <1>2, <1>3, <1>4, <1>9
    <3> QED
      BY <2>1, <3>1, <3>2, <1>5
  <2> QED
    BY <2>1, <1>8 DEF Thumbs
<1>13. ThumbsAgree'
  <2>1. ASSUME NEW p \in Posts, Exists(p)'
        PROVE  /\ posts'[p].up = Votes(p, TRUE)' /\ posts'[p].down = Votes(p, FALSE)'
               /\ \A t, u \in thumb' : t.on = p /\ u.on = p /\ t.voter = u.voter => t = u
    <3>1. /\ posts[p].up = Votes(p, TRUE) /\ posts[p].down = Votes(p, FALSE)
          /\ \A t, u \in thumb : t.on = p /\ u.on = p /\ t.voter = u.voter => t = u
      BY <2>1, <1>9 DEF Ballots, ThumbsAgree
    <3>2. posts'[p].up = Votes(p, TRUE)' /\ posts'[p].down = Votes(p, FALSE)'
      <4>1. CASE p = id
        BY <4>1, <1>2, <1>8
      <4>2. CASE p # id
        BY <4>2, <3>1, <1>2, <1>8
      <4> QED
        BY <4>1, <4>2
    <3>3. \A t, u \in thumb' : t.on = p /\ u.on = p /\ t.voter = u.voter => t = u
      BY <3>1, <1>3, <1>4, <1>5 DEF VotedBy
    <3> QED
      BY <3>2, <3>3
  <2> QED
    BY <2>1 DEF ThumbsAgree
<1>14. ASSUME NEW r \in Requests PROVE Counting(r)'
  <2>1. CASE job'[r].pc \in {"tally", "counted"}
    <3>1. r # q /\ job'[r] = job[r] /\ Counting(r)
      BY <2>1, <1>5, <1>10 DEF Ballots
    <3>2. job[r].id \in Posts /\ postLock[job[r].id] = r
      BY <2>1, <3>1 DEF Shapes, Shaped, Counting
    <3>3. job[r].id # id /\ postLock'[job[r].id] = postLock[job[r].id]
      BY <3>1, <3>2, <1>3, <1>6, <1>7
    <3> QED
      BY <3>1, <3>3, <1>8, CountsKept
  <2>2. CASE job'[r].pc \notin {"tally", "counted"}
    BY <2>2 DEF Counting
  <2> QED
    BY <2>1, <2>2
<1> QED
  BY <1>11, <1>12, <1>13, <1>14 DEF Ballots

----------------------------------------------------------------------------
(* Threads *)

\* A post that is gone stays gone.
StaysGone == \A p \in Posts : posts[p] = Gone => posts'[p] = Gone

LEMMA ClaimsKept ==
  ASSUME Shapes, Threads, Written, StaysGone, NEW r \in Requests, job'[r] = job[r],
         \A n \in DOMAIN comment : /\ n \in DOMAIN comment' /\ comment'[n].parent = comment[n].parent
                                   /\ \/ comment'[n].on = comment[n].on
                                      \/ comment'[n].on = Gone /\ \A p \in Posts : comment[n].on = p => posts'[p] = Gone
  PROVE  Claim(r)'
<1>1. Claim(r)
  BY DEF Threads, Claim
<1>2. job[r].pc \in {"reply", "erase", "delete"} => job[r].id \in Posts
  BY DEF Shapes, Shaped
<1>3. job[r].pc \in {"reply", "erase", "delete"} => posts'[job[r].id] # NoPost
  BY <1>1, <1>2 DEF Claim, Written
<1>4. job[r].pc = "erase" => job[r].n \in DOMAIN comment' /\ comment'[job[r].n].on \in {job[r].id, Gone}
  BY <1>1 DEF Claim
<1>5. ASSUME job[r].pc = "reply", job[r].parent # 0
      PROVE  /\ job[r].parent \in DOMAIN comment' /\ comment'[job[r].parent].parent = 0
             /\ \/ comment'[job[r].parent].on = job[r].id
                \/ posts'[job[r].id] = Gone
  <2>1. PICK n, id : n = job[r].parent /\ id = job[r].id
    OBVIOUS
  <2>2. n \in DOMAIN comment /\ comment[n].parent = 0 /\ (comment[n].on = id \/ posts[id] = Gone) /\ id \in Posts
    BY <2>1, <1>1, <1>2, <1>5 DEF Claim
  <2>3. comment'[n].on = id \/ posts'[id] = Gone
    BY <2>2 DEF StaysGone
  <2> QED
    BY <2>1, <2>2, <2>3
<1>6. job[r].pc = "reply" => job[r].who \in People
  BY <1>1 DEF Claim
<1> QED
  BY <1>3, <1>4, <1>5, <1>6 DEF Claim

\* No comment is written or erased.
LEMMA ThreadsKept ==
  ASSUME Shapes, Threads, Written, StaysGone, NEW q \in Requests, JobsKeptBut(q), UNCHANGED comment,
         Claim(q)'
  PROVE  Threads'
<1>1. ASSUME NEW r \in Requests PROVE Claim(r)'
  <2>1. CASE r = q
    BY <2>1
  <2>2. CASE r # q /\ job'[r].pc \in {"reply", "erase", "delete"}
    <3>1. job'[r] = job[r]
      BY <2>2 DEF JobsKeptBut, BoardJobs
    <3> QED
      BY <3>1, ClaimsKept
  <2>3. CASE job'[r].pc \notin {"reply", "erase", "delete"}
    BY <2>3 DEF Claim
  <2> QED
    BY <2>1, <2>2, <2>3
<1> QED
  BY <1>1 DEF Threads, Claim

\* A comment is written at the end of its thread.
LEMMA AddsReply ==
  ASSUME Shapes, Locks, Threads, NEW q \in Requests, AddReply(q)
  PROVE  Threads'
<1>1. PICK id, parent, who : id = job[q].id /\ parent = job[q].parent /\ who = job[q].who
  OBVIOUS
<1>2. PICK row : row = [on |-> id, parent |-> parent, author |-> who, deleted |-> FALSE]
  OBVIOUS
<1>3. /\ job[q].pc = "reply" /\ id \in Posts /\ Exists(id) /\ posts' = posts
      /\ comment' = Append(comment, row)
  BY <1>1, <1>2 DEF AddReply, Shapes, Shaped
<1>4. JobsKeptBut(q) /\ job'[q].pc = "invalidate"
  BY KeptByCommit DEF AddReply
<1>5. /\ who \in People
      /\ parent = 0 \/ (parent \in DOMAIN comment /\ comment[parent].parent = 0 /\ comment[parent].on = id)
  BY <1>1, <1>3 DEF Threads, Claim, Exists
<1>6. PICK Comments : Comments = [on : Posts \cup {Gone}, parent : Nat, author : People, deleted : BOOLEAN]
  OBVIOUS
<1>7. comment \in Seq(Comments) /\ DOMAIN comment = 1 .. Len(comment) /\ Len(comment) \in Nat
  BY <1>6 DEF Threads
<1>8. parent \in Nat /\ parent < Len(comment) + 1
  BY <1>5, <1>7
<1>9. row \in Comments
  BY <1>2, <1>3, <1>5, <1>6, <1>8
<1>10. /\ comment' \in Seq(Comments)
       /\ DOMAIN comment' = 1 .. Len(comment) + 1
       /\ comment'[Len(comment) + 1] = row
       /\ \A n \in DOMAIN comment : comment'[n] = comment[n]
  BY <1>3, <1>7, <1>9
<1>11. ASSUME NEW n \in DOMAIN comment'
       PROVE  /\ comment'[n].parent < n
              /\ comment'[n].parent # 0 =>
                   comment'[comment'[n].parent].parent = 0 /\ comment'[comment'[n].parent].on = comment'[n].on
  <2>1. CASE n \in DOMAIN comment
    <3>1. /\ comment[n].parent < n /\ comment[n].parent \in Nat /\ n \in 1 .. Len(comment)
          /\ comment[n].parent # 0 =>
               comment[comment[n].parent].parent = 0 /\ comment[comment[n].parent].on = comment[n].on
      <4>1. comment[n] \in Comments
        BY <2>1, <1>7
      <4>2. comment[n].parent \in Nat
        BY <4>1, <1>6
      <4> QED
        BY <2>1, <4>2, <1>7 DEF Threads
    <3>2. comment[n].parent # 0 => comment[n].parent \in DOMAIN comment
      BY <3>1, <1>7
    <3> QED
      BY <2>1, <3>1, <3>2, <1>10
  <2>2. CASE n = Len(comment) + 1
    BY <2>2, <1>2, <1>5, <1>8, <1>10
  <2> QED
    BY <2>1, <2>2, <1>7, <1>10
<1>12. ASSUME NEW r \in Requests PROVE Claim(r)'
  <2>1. CASE job'[r].pc \in {"reply", "erase", "delete"}
    <3>1. job'[r] = job[r]
      BY <2>1, <1>4 DEF JobsKeptBut, BoardJobs
    <3>2. Written /\ StaysGone
      BY <1>3 DEF Written, StaysGone
    <3>3. \A n \in DOMAIN comment : n \in DOMAIN comment' /\ comment'[n].parent = comment[n].parent
                                    /\ comment'[n].on = comment[n].on
      BY <1>7, <1>10
    <3> QED
      BY <3>1, <3>2, <3>3, ClaimsKept
  <2>2. CASE job'[r].pc \notin {"reply", "erase", "delete"}
    BY <2>2 DEF Claim
  <2> QED
    BY <2>1, <2>2
<1> QED
  BY <1>6, <1>10, <1>11, <1>12 DEF Threads

\* A comment is erased where it is.
LEMMA ErasesComment ==
  ASSUME Shapes, Locks, Threads, NEW q \in Requests, EraseComment(q)
  PROVE  /\ Threads'
         /\ \A n \in DOMAIN comment : n # job[q].n => comment'[n] = comment[n]
         /\ DOMAIN comment' = DOMAIN comment
         /\ \A n \in DOMAIN comment : comment'[n].on = comment[n].on /\ comment'[n].parent = comment[n].parent
         /\ job[q].n \in DOMAIN comment /\ comment[job[q].n].on \in {job[q].id, Gone}
<1>1. PICK m : m = job[q].n
  OBVIOUS
<1>2. m \in DOMAIN comment /\ comment[m].on \in {job[q].id, Gone} /\ posts' = posts
  BY <1>1 DEF EraseComment, Threads, Claim
<1>3. PICK Comments : Comments = [on : Posts \cup {Gone}, parent : Nat, author : People, deleted : BOOLEAN]
  OBVIOUS
<1>4. comment \in Seq(Comments)
  BY <1>3 DEF Threads
<1>5. PICK row : row = [comment[m] EXCEPT !.deleted = TRUE]
  OBVIOUS
<1>6. row \in Comments /\ row.on = comment[m].on /\ row.parent = comment[m].parent
  <2>1. comment[m] \in Comments
    BY <1>2, <1>4
  <2> QED
    BY <2>1, <1>3, <1>5
<1>7. comment' = [comment EXCEPT ![m] = row]
  BY <1>1, <1>5 DEF EraseComment
<1>8. comment' \in Seq(Comments) /\ DOMAIN comment' = DOMAIN comment
      /\ \A n \in DOMAIN comment : n # m => comment'[n] = comment[n]
  BY <1>2, <1>4, <1>6, <1>7
<1>9. \A n \in DOMAIN comment : comment'[n].on = comment[n].on /\ comment'[n].parent = comment[n].parent
  BY <1>2, <1>6, <1>7, <1>8
<1>10. JobsKeptBut(q) /\ job'[q].pc = "invalidate"
  BY KeptByCommit DEF EraseComment
<1>11. ASSUME NEW r \in Requests PROVE Claim(r)'
  <2>1. CASE job'[r].pc \in {"reply", "erase", "delete"}
    <3>1. job'[r] = job[r]
      BY <2>1, <1>10 DEF JobsKeptBut, BoardJobs
    <3>2. Written /\ StaysGone
      BY <1>2 DEF Written, StaysGone
    <3> QED
      BY <3>1, <3>2, <1>8, <1>9, ClaimsKept
  <2>2. CASE job'[r].pc \notin {"reply", "erase", "delete"}
    BY <2>2 DEF Claim
  <2> QED
    BY <2>1, <2>2
<1>12. ASSUME NEW n \in DOMAIN comment'
       PROVE  /\ comment'[n].parent < n
              /\ comment'[n].parent # 0 =>
                   comment'[comment'[n].parent].parent = 0 /\ comment'[comment'[n].parent].on = comment'[n].on
  <2>1. n \in DOMAIN comment
    BY <1>8
  <2>2. /\ comment[n].parent < n /\ comment[n].parent \in Nat /\ n \in Nat /\ DOMAIN comment = 1 .. Len(comment)
        /\ comment[n].parent # 0 =>
             comment[comment[n].parent].parent = 0 /\ comment[comment[n].parent].on = comment[n].on
    <3>1. comment[n] \in Comments /\ DOMAIN comment = 1 .. Len(comment) /\ Len(comment) \in Nat
      BY <2>1, <1>4
    <3>2. comment[n].parent \in Nat
      BY <3>1, <1>3
    <3> QED
      BY <2>1, <3>1, <3>2 DEF Threads
  <2>3. comment[n].parent # 0 => comment[n].parent \in DOMAIN comment
    BY <2>1, <2>2, <1>4
  <2> QED
    BY <2>1, <2>2, <2>3, <1>9
<1> QED
  BY <1>1, <1>2, <1>3, <1>8, <1>9, <1>11, <1>12 DEF Threads

\* The comments of a deleted post go together.
LEMMA DeletesThreads ==
  ASSUME Shapes, Locks, Threads, NEW q \in Requests, Delete(q), NEW id, id = job[q].id
  PROVE  /\ Threads' /\ Written
         /\ DOMAIN comment' = DOMAIN comment
         /\ \A n \in DOMAIN comment :
              IF comment[n].on = id THEN comment'[n].on = Gone ELSE comment'[n] = comment[n]
<1>1. /\ job[q].pc = "delete" /\ id \in Posts /\ posts' = [posts EXCEPT ![id] = Gone]
      /\ comment' = [n \in DOMAIN comment |->
           IF n \in CommentsOn(id) THEN [comment[n] EXCEPT !.on = Gone] ELSE comment[n]]
  BY DEF Delete, Shapes, Shaped
<1>2. PICK Comments : Comments = [on : Posts \cup {Gone}, parent : Nat, author : People, deleted : BOOLEAN]
  OBVIOUS
<1>3. comment \in Seq(Comments) /\ DOMAIN comment = 1 .. Len(comment) /\ Len(comment) \in Nat
  BY <1>2 DEF Threads
<1>4. ASSUME NEW n \in DOMAIN comment
      PROVE  /\ comment'[n].parent = comment[n].parent /\ comment'[n] \in Comments
             /\ comment[n].parent \in Nat
             /\ IF comment[n].on = id THEN comment'[n].on = Gone ELSE comment'[n] = comment[n]
  <2>1. comment[n] \in Comments
    BY <1>3
  <2>2. n \in CommentsOn(id) <=> comment[n].on = id
    BY DEF CommentsOn
  <2>3. CASE comment[n].on = id
    <3>1. comment'[n] = [comment[n] EXCEPT !.on = Gone]
      BY <2>2, <2>3, <1>1
    <3> QED
      BY <2>1, <2>3, <3>1, <1>2
  <2>4. CASE comment[n].on # id
    BY <2>1, <2>2, <2>4, <1>1, <1>2
  <2> QED
    BY <2>3, <2>4
<1>5. DOMAIN comment' = DOMAIN comment
  BY <1>1
<1>6. comment' \in Seq(Comments)
  <2>1. comment' = [n \in 1 .. Len(comment) |-> comment'[n]]
    BY <1>1, <1>3
  <2>2. \A n \in 1 .. Len(comment) : comment'[n] \in Comments
    BY <1>3, <1>4
  <2> HIDE <1>1
  <2> QED
    BY <2>1, <2>2, <1>3, IsASeq
<1>7. ASSUME NEW n \in DOMAIN comment'
      PROVE  /\ comment'[n].parent < n
             /\ comment'[n].parent # 0 =>
                  comment'[comment'[n].parent].parent = 0 /\ comment'[comment'[n].parent].on = comment'[n].on
  <2>1. PICK m : m = comment[n].parent
    OBVIOUS
  <2>2. n \in DOMAIN comment /\ m < n /\ m \in Nat /\ comment'[n].parent = m
        /\ (m # 0 => comment[m].parent = 0 /\ comment[m].on = comment[n].on)
    BY <2>1, <1>4, <1>5 DEF Threads
  <2>3. CASE m # 0
    <3>1. m \in DOMAIN comment
      BY <2>2, <2>3, <1>3
    <3>2. comment'[m].parent = 0
      BY <3>1, <2>2, <2>3, <1>4
    <3>3. comment'[m].on = comment'[n].on
      BY <3>1, <2>2, <2>3, <1>4
    <3> QED
      BY <2>2, <3>2, <3>3
  <2>4. CASE m = 0
    BY <2>2, <2>4
  <2> QED
    BY <2>3, <2>4
<1>8. JobsKeptBut(q) /\ job'[q].pc = "invalidate"
  BY KeptByCommit DEF Delete
<1>9. posts'[id] = Gone /\ \A p \in Posts : p # id => posts'[p] = posts[p]
  BY <1>1 DEF Locks
<1>10. Written /\ StaysGone
  BY <1>9, CommunityAssumption DEF Written, StaysGone
<1>11. ASSUME NEW r \in Requests PROVE Claim(r)'
  <2>1. CASE job'[r].pc \in {"reply", "erase", "delete"}
    <3>1. job'[r] = job[r]
      BY <2>1, <1>8 DEF JobsKeptBut, BoardJobs
    <3>2. \A n \in DOMAIN comment :
            /\ n \in DOMAIN comment' /\ comment'[n].parent = comment[n].parent
            /\ \/ comment'[n].on = comment[n].on
               \/ comment'[n].on = Gone /\ \A p \in Posts : comment[n].on = p => posts'[p] = Gone
      BY <1>4, <1>5, <1>9
    <3> QED
      BY <3>1, <3>2, <1>10, ClaimsKept
  <2>2. CASE job'[r].pc \notin {"reply", "erase", "delete"}
    BY <2>2 DEF Claim
  <2> QED
    BY <2>1, <2>2
<1>12. Threads'
  BY <1>2, <1>6, <1>7, <1>11 DEF Threads
<1> QED
  BY <1>4, <1>5, <1>10, <1>12

----------------------------------------------------------------------------
(* The requests of the board *)

\* What the checks of a write let through.
Begun(j) ==
  /\ j.pc \in {"create", "delete", "update", "reply", "erase", "thumb"} /\ Shaped(j)
  /\ j.pc \in {"reply", "erase", "delete"} => Exists(j.id)
  /\ j.pc = "reply" =>
       /\ j.who \in People
       /\ j.parent = 0 \/ (j.parent \in DOMAIN comment /\ comment[j.parent].parent = 0 /\ comment[j.parent].on = j.id)
  /\ j.pc = "erase" => j.n \in DOMAIN comment /\ comment[j.n].on = j.id

LEMMA Checked ==
  ASSUME NEW q \in Requests, NEW who \in People, NEW admin \in BOOLEAN, BeginWrite(q, who, admin)
  PROVE  \E j : To(q, j) /\ Begun(j)
<1>1. ASSUME NEW notice \in BOOLEAN, To(q, [pc |-> "create", who |-> who, notice |-> notice])
      PROVE  \E j : To(q, j) /\ Begun(j)
  <2>1. PICK j : j = [pc |-> "create", who |-> who, notice |-> notice]
    OBVIOUS
  <2>2. Begun(j)
    BY <2>1 DEF Begun, Shaped
  <2> QED
    BY <1>1, <2>1, <2>2
<1>2. ASSUME NEW p \in Posts, Exists(p), To(q, [pc |-> "delete", id |-> p])
      PROVE  \E j : To(q, j) /\ Begun(j)
  <2>1. PICK j : j = [pc |-> "delete", id |-> p]
    OBVIOUS
  <2>2. Begun(j)
    BY <1>2, <2>1 DEF Begun, Shaped
  <2> QED
    BY <1>2, <2>1, <2>2
<1>3. ASSUME NEW p \in Posts, NEW notice \in BOOLEAN, To(q, [pc |-> "update", id |-> p, notice |-> notice])
      PROVE  \E j : To(q, j) /\ Begun(j)
  <2>1. PICK j : j = [pc |-> "update", id |-> p, notice |-> notice]
    OBVIOUS
  <2>2. Begun(j)
    BY <2>1 DEF Begun, Shaped
  <2> QED
    BY <1>3, <2>1, <2>2
<1>4. ASSUME NEW p \in Posts, Exists(p),
             NEW parent \in {0} \cup {n \in CommentsOn(p) : Live(n) /\ comment[n].parent = 0},
             To(q, [pc |-> "reply", id |-> p, who |-> who, parent |-> parent])
      PROVE  \E j : To(q, j) /\ Begun(j)
  <2>1. PICK j : j = [pc |-> "reply", id |-> p, who |-> who, parent |-> parent]
    OBVIOUS
  <2>2. parent = 0 \/ (parent \in DOMAIN comment /\ comment[parent].parent = 0 /\ comment[parent].on = p)
    BY DEF CommentsOn
  <2>3. j.pc = "reply" /\ j.id = p /\ j.who = who /\ j.parent = parent
    BY <2>1
  <2>4. Shaped(j)
    BY <2>3 DEF Shaped
  <2>5. Begun(j)
    BY <1>4, <2>2, <2>3, <2>4 DEF Begun
  <2> QED
    BY <1>4, <2>1, <2>5
<1>5. ASSUME NEW p \in Posts, Exists(p), NEW n \in CommentsOn(p), To(q, [pc |-> "erase", id |-> p, n |-> n])
      PROVE  \E j : To(q, j) /\ Begun(j)
  <2>1. PICK j : j = [pc |-> "erase", id |-> p, n |-> n]
    OBVIOUS
  <2>2. Begun(j)
    BY <1>5, <2>1 DEF Begun, Shaped, CommentsOn
  <2> QED
    BY <1>5, <2>1, <2>2
<1>6. ASSUME NEW p \in Posts, NEW up \in BOOLEAN, To(q, [pc |-> "thumb", id |-> p, who |-> who, up |-> up])
      PROVE  \E j : To(q, j) /\ Begun(j)
  <2>1. PICK j : j = [pc |-> "thumb", id |-> p, who |-> who, up |-> up]
    OBVIOUS
  <2>2. Begun(j)
    BY <2>1 DEF Begun, Shaped
  <2> QED
    BY <1>6, <2>1, <2>2
<1> QED
  BY <1>1, <1>2, <1>3, <1>4, <1>5, <1>6, Zenon DEF BeginWrite

LEMMA BeginsWrite ==
  ASSUME CacheInv, Ballots, Threads, NEW q \in Requests, NEW who \in People, NEW admin \in BOOLEAN,
         BeginWrite(q, who, admin), UNCHANGED <<pvars, svars, fvars>>
  PROVE  CacheInv' /\ Ballots' /\ Threads'
<1>1. PICK j : To(q, j) /\ Begun(j)
  BY Checked
<1>2. UNCHANGED <<store, posts, comment, thumb, postLock, popup, channel, edited>> /\ job[q].pc = "waiting"
  BY DEF BeginWrite, boardrows, pvars, svars, fvars, Waiting
<1>3. CacheInv'
  <2>1. Keeps(Keys)
    BY <1>2, NothingTouched
  <2>2. j.pc \notin {"fill", "comments"} /\ Shaped(j)
    BY <1>1 DEF Begun
  <2> QED
    BY <1>1, <1>2, <2>1, <2>2, Moves
<1>4. JobsKeptBut(q) /\ job'[q] = j
  BY <1>1, KeptByMove DEF CacheInv
<1>5. Ballots'
  <2>1. {job[q].pc, job'[q].pc} \cap {"tally", "counted"} = {}
    BY <1>1, <1>2, <1>4 DEF Begun
  <2>2. posts' \in [Posts -> PostRow \cup {NoPost, Gone}]
    BY <1>2 DEF Ballots, Locks
  <2>3. \A p \in Posts : (Exists(p)' <=> Exists(p)) /\ posts'[p] = posts[p]
    BY <1>2 DEF Exists
  <2> QED
    BY <1>2, <1>4, <2>1, <2>2, <2>3, RowsVotes
<1>6. Threads'
  <2>1. Claim(q)'
    BY <1>1, <1>2, <1>4 DEF Begun, Claim, Exists
  <2>2. Written /\ StaysGone
    BY <1>2 DEF Written, StaysGone
  <2> QED
    BY <1>2, <1>4, <2>1, <2>2, ThreadsKept DEF CacheInv
<1> QED
  BY <1>3, <1>5, <1>6

\* Reads change nothing on the board.
LEMMA BoardReads ==
  ASSUME CacheInv, Ballots, Threads, NEW q \in Requests,
         ReadList(q) \/ ReadComments(q) \/ \E p \in Posts : ReadPost(q, p), UNCHANGED <<pvars, svars, fvars>>
  PROVE  CacheInv' /\ Ballots' /\ Threads'
<1>1. UNCHANGED boardrows /\ UNCHANGED <<posts, comment, popup, channel, edited>>
  BY DEF ReadList, ReadComments, ReadPost, boardrows, pvars, svars, fvars
<1>2. Keeps(Keys)
  BY <1>1, NothingTouched
<1>3. CASE ReadList(q)
  <2>1. PICK v : v = Listing
    OBVIOUS
  <2>2. Miss(q, LIST, v)
    BY <1>3, <2>1 DEF ReadList
  <2>3. LIST \in FillKeys /\ LIST \notin Posts \cup Players /\ LIST # ACTIVE /\ LIST # CHANNELS
    BY KeysAssumption DEF FillKeys, LIST, ACTIVE, CHANNELS
  <2>4. Fits(LIST, v) /\ Right(LIST, v)
    BY <2>1, <2>3 DEF Fits, Right
  <2>5. CacheInv' /\ JobsKept
    BY <1>2, <2>2, <2>3, <2>4, Misses
  <2> QED
    BY <1>1, <2>5, BoardRests
<1>4. ASSUME NEW p \in Posts, ReadPost(q, p) PROVE CacheInv' /\ Ballots' /\ Threads'
  <2>1. PICK row : row = posts[p]
    OBVIOUS
  <2>2. PICK j : j = [pc |-> "comments", key |-> p, value |-> [row |-> row], late |-> FALSE]
    OBVIOUS
  <2>3. To(q, j) /\ UNCHANGED store /\ Exists(p) /\ job[q].pc = "waiting"
    BY <1>4, <2>1, <2>2 DEF ReadPost, Waiting
  <2>4. j.pc = "comments" /\ j.key = p /\ j.value.row = row /\ Shaped(j)
    BY <2>2 DEF Shaped, Reading
  <2>5. RowRead(p, row)
    BY <2>1, <2>3 DEF RowRead
  <2>6. RowRead(p, row)'
    BY <2>5, <1>2, KeyFacts DEF Keeps, FillKeys
  <2>7. CacheInv'
    BY <1>2, <2>3, <2>4, <2>6, Moves
  <2>8. JobsKept
    BY <2>3, <2>4, JobsKeptByMove DEF CacheInv, BoardJobs
  <2> QED
    BY <1>1, <2>7, <2>8, BoardRests
<1>5. CASE ReadComments(q)
  <2>1. PICK p, row, late : p = job[q].key /\ row = job[q].value.row /\ late = job[q].late
    OBVIOUS
  <2>2. /\ job[q] = [pc |-> "comments", key |-> p, value |-> [row |-> row], late |-> late] /\ p \in Posts
        /\ job[q].pc = "comments" /\ late \in BOOLEAN
    BY <1>5, <2>1 DEF ReadComments, CacheInv, Shapes, Shaped, Reading
  <2>3. PICK page : page = [row |-> row, comments |-> Detail(p).comments]
    OBVIOUS
  <2>4. PICK j : j = [pc |-> "fill", key |-> p, value |-> page, late |-> late]
    OBVIOUS
  <2>5. To(q, j) /\ UNCHANGED store
    <3>1. To(q, [pc |-> "fill", key |-> p, late |-> late,
                 value |-> [row |-> row, comments |-> Detail(p).comments]])
      BY <1>5, <2>1, Zenon DEF ReadComments
    <3>2. j = [pc |-> "fill", key |-> p, late |-> late,
               value |-> [row |-> row, comments |-> Detail(p).comments]]
      BY <2>3, <2>4
    <3> QED
      BY <1>5, <3>1, <3>2 DEF ReadComments
  <2>6. j.pc = "fill" /\ j.key = p /\ j.value = page /\ (j.late = late) /\ Reading(j)
    BY <2>2, <2>4 DEF Reading
  <2>7. p \in FillKeys /\ p \notin Players \cup {LIST, ACTIVE, CHANNELS}
    BY <2>2, KeysAssumption DEF FillKeys
  <2>8. Shaped(j)
    BY <2>6, <2>7 DEF Shaped, Fits
  <2>9. ~late => Right(p, page)
    <3>1. SUFFICES ASSUME ~late PROVE Right(p, page)
      OBVIOUS
    <3>2. RowRead(p, row)
      BY <2>1, <2>2, <3>1 DEF CacheInv, Current
    <3>3. Detail(p) = [row |-> posts[p], comments |-> Detail(p).comments]
      BY DEF Detail
    <3>4. Truth(p) = page
      BY <2>3, <2>7, <3>2, <3>3 DEF Truth, RowRead
    <3> QED
      BY <2>7, <3>2, <3>4 DEF Right, RowRead, Exists
  <2>10. ~late => Right(p, page)'
    BY <2>7, <2>9, <1>2, KeyFacts DEF Keeps
  <2>11. CacheInv'
    BY <1>2, <2>2, <2>5, <2>6, <2>8, <2>10, Moves
  <2>12. JobsKept
    BY <2>2, <2>5, <2>6, JobsKeptByMove DEF CacheInv, BoardJobs
  <2> QED
    BY <1>1, <2>11, <2>12, BoardRests
<1> QED
  BY <1>3, <1>4, <1>5

\* A vote before its commit, and a request that is given up.
LEMMA VoteMoves ==
  ASSUME CacheInv, Ballots, Threads, NEW q \in Requests,
         LockPost(q) \/ CountVotes(q) \/ AbortRequest(q), UNCHANGED <<pvars, svars, fvars>>
  PROVE  CacheInv' /\ Ballots' /\ Threads'
<1>1. UNCHANGED <<store, posts, comment, popup, channel, edited>>
  BY DEF LockPost, CountVotes, AbortRequest, boardrows, pvars, svars, fvars
<1>2. Keeps(Keys) /\ Written /\ StaysGone
  BY <1>1, NothingTouched DEF Written, StaysGone
<1>3. Ballots'
  BY LocksPost, CountsVotes, AbortVotes DEF CacheInv
<1>4. ASSUME NEW j, To(q, j), Shaped(j), j.pc \in {"waiting", "tally", "counted"}, job[q].pc # "invalidate"
      PROVE  CacheInv' /\ Threads'
  <2>1. CacheInv'
    BY <1>1, <1>2, <1>4, Moves
  <2>2. JobsKeptBut(q) /\ job'[q] = j
    BY <1>4, KeptByMove DEF CacheInv
  <2>3. Claim(q)'
    BY <1>4, <2>2 DEF Claim
  <2>4. Threads'
    BY <1>1, <1>2, <2>2, <2>3, ThreadsKept DEF CacheInv
  <2> QED
    BY <2>1, <2>4
<1>5. CASE LockPost(q)
  <2>1. PICK j : j = [job[q] EXCEPT !.pc = "tally"]
    OBVIOUS
  <2>2. To(q, j) /\ job[q].pc = "thumb" /\ Shaped(job[q])
    BY <1>5, <2>1 DEF LockPost, CacheInv, Shapes
  <2>3. j = [pc |-> "tally", id |-> job[q].id, who |-> job[q].who, up |-> job[q].up]
    BY <2>1, <2>2 DEF Shaped
  <2>4. Shaped(j) /\ j.pc = "tally"
    BY <2>2, <2>3 DEF Shaped
  <2> QED
    BY <1>3, <1>4, <2>2, <2>4
<1>6. CASE CountVotes(q)
  <2>1. PICK j : To(q, j) /\ job'[q] = j /\ j.pc = "counted"
    BY <1>6, CountsVotes DEF CacheInv
  <2>2. Shaped(j) /\ job[q].pc = "tally"
    BY <1>6, <2>1, CountsVotes DEF CacheInv, CountVotes
  <2> QED
    BY <1>3, <1>4, <2>1, <2>2
<1>7. CASE AbortRequest(q)
  <2>1. PICK j : j = Waiting
    OBVIOUS
  <2>2. To(q, j) /\ Shaped(j) /\ j.pc = "waiting" /\ job[q].pc # "invalidate"
    BY <1>7, <2>1 DEF AbortRequest, Waiting, Shaped
  <2> QED
    BY <1>3, <1>4, <2>2
<1> QED
  BY <1>5, <1>6, <1>7

\* Posts are written and changed.
LEMMA PostWrites ==
  ASSUME CacheInv, Ballots, Threads, NEW q \in Requests, CreatePost(q) \/ Update(q),
         UNCHANGED <<pvars, svars, fvars>>
  PROVE  CacheInv' /\ Ballots' /\ Threads'
<1>1. posts \in [Posts -> PostRow \cup {NoPost, Gone}] /\ Shapes
  BY DEF Ballots, Locks, CacheInv
<1>2. ASSUME NEW p \in Posts, NEW row \in PostRow, posts' = [posts EXCEPT ![p] = row],
             IF Exists(p) THEN row.up = posts[p].up /\ row.down = posts[p].down
                          ELSE posts[p] = NoPost /\ row.up = 0 /\ row.down = 0,
             NEW keys \in SUBSET BoardKeys, LIST \in keys, p \in keys \/ posts[p] = NoPost,
             Committed(q, keys, Changed), UNCHANGED <<comment, thumb, postLock, store>>,
             job[q].pc \notin {"comments", "fill", "invalidate", "tally", "counted"}
      PROVE  CacheInv' /\ Ballots' /\ Threads'
  <2>1. posts'[p] = row /\ posts' \in [Posts -> PostRow \cup {NoPost, Gone}]
        /\ \A x \in Posts : x # p => posts'[x] = posts[x]
    BY <1>1, <1>2
  <2>2. row \notin {NoPost, Gone}
    BY CommunityAssumption
  <2>3. Written /\ StaysGone
    BY <1>2, <2>1, <2>2, CommunityAssumption DEF Written, StaysGone, Exists
  <2>4. PICK changed : changed = Changed
    OBVIOUS
  <2>5. JobsKeptBut(q) /\ job'[q].pc = "invalidate"
    BY <1>1, <1>2, <2>4, KeptByCommit
  <2>6. ASSUME NEW x \in Posts \ keys, posts[x] # NoPost PROVE Truth(x)' = Truth(x)
    <3>1. posts'[x] = posts[x]
      BY <2>6, <2>1, <1>2
    <3>2. CommentsOn(x)' = CommentsOn(x)
      BY <1>2 DEF CommentsOn
    <3> QED
      BY <3>1, <3>2, <1>2, SameTruth
  <2>7. CacheInv'
    BY <1>2, <2>3, <2>6, BoardCommits DEF Ballots
  <2>8. Ballots'
    <3>1. {job[q].pc, job'[q].pc} \cap {"tally", "counted"} = {}
      BY <1>2, <2>5
    <3>2. \A x \in Posts : Exists(x) => Exists(x)' /\ posts'[x].up = posts[x].up /\ posts'[x].down = posts[x].down
      BY <1>2, <2>1, <2>2 DEF Exists
    <3>3. \A x \in Posts : Exists(x)' /\ ~Exists(x) => posts'[x].up = 0 /\ posts'[x].down = 0
      BY <1>2, <2>1 DEF Exists
    <3> QED
      BY <1>2, <2>1, <2>5, <3>1, <3>2, <3>3, RowsVotes
  <2>9. Claim(q)'
    BY <2>5 DEF Claim
  <2>10. Threads'
    BY <1>1, <1>2, <2>3, <2>5, <2>9, ThreadsKept
  <2> QED
    BY <2>7, <2>8, <2>10
<1>3. CASE CreatePost(q)
  <2>1. PICK who, notice : who = job[q].who /\ notice = job[q].notice
    OBVIOUS
  <2>2. who \in People /\ notice \in BOOLEAN /\ job[q].pc = "create"
    BY <1>1, <1>3, <2>1 DEF CreatePost, Shapes, Shaped
  <2>3. PICK row : row = NewPost(who, notice)
    OBVIOUS
  <2>4. PICK p \in Posts : posts[p] = NoPost /\ posts' = [posts EXCEPT ![p] = row]
    BY <1>3, <2>1, <2>3 DEF CreatePost
  <2>5. row \in PostRow /\ row.up = 0 /\ row.down = 0
    BY <2>2, <2>3 DEF NewPost, PostRow
  <2>6. ~Exists(p)
    BY <2>4 DEF Exists
  <2>7. PICK keys : keys = {LIST}
    OBVIOUS
  <2>8. keys \in SUBSET BoardKeys /\ LIST \in keys
    BY <2>7 DEF BoardKeys
  <2>9. Committed(q, keys, Changed) /\ UNCHANGED <<comment, thumb, postLock, store>>
    BY <1>3, <2>7 DEF CreatePost
  <2> QED
    BY <1>2, <2>2, <2>4, <2>5, <2>6, <2>8, <2>9
<1>4. CASE Update(q)
  <2>1. PICK p, notice : p = job[q].id /\ notice = job[q].notice
    OBVIOUS
  <2>2. p \in Posts /\ notice \in BOOLEAN /\ job[q].pc = "update" /\ Exists(p) /\ posts[p] \in PostRow
    BY <1>1, <1>4, <2>1 DEF Update, Shapes, Shaped, Exists
  <2>3. PICK row : row = [author |-> posts[p].author, notice |-> notice, text |-> 1 - posts[p].text,
                          up |-> posts[p].up, down |-> posts[p].down]
    OBVIOUS
  <2>4. row \in PostRow /\ row.up = posts[p].up /\ row.down = posts[p].down
    BY <2>2, <2>3 DEF PostRow
  <2>5. posts' = [posts EXCEPT ![p] = row]
    <3>1. posts' = [posts EXCEPT ![p].notice = notice, ![p].text = 1 - @]
      BY <1>4, <2>1 DEF Update
    <3> QED
      BY <1>1, <2>2, <2>3, <3>1 DEF PostRow
  <2>6. PICK keys : keys = {LIST, p}
    OBVIOUS
  <2>7. keys \in SUBSET BoardKeys /\ LIST \in keys /\ p \in keys
    BY <2>2, <2>6 DEF BoardKeys
  <2>8. Committed(q, keys, Changed) /\ UNCHANGED <<comment, thumb, postLock, store>>
    BY <1>4, <2>1, <2>6 DEF Update
  <2> QED
    BY <1>2, <2>2, <2>4, <2>5, <2>7, <2>8
<1> QED
  BY <1>3, <1>4

\* Comments are written and erased, each the entry of its own post.
LEMMA CommentWrites ==
  ASSUME CacheInv, Ballots, Threads, NEW q \in Requests, AddReply(q) \/ EraseComment(q),
         UNCHANGED <<pvars, svars, fvars>>
  PROVE  CacheInv' /\ Ballots' /\ Threads'
<1>1. PICK id, keys : id = job[q].id /\ keys = {id}
  OBVIOUS
<1>2. /\ UNCHANGED <<posts, thumb, postLock, store>> /\ Committed(q, keys, Changed)
      /\ job[q].pc \in {"reply", "erase"}
  BY <1>1 DEF AddReply, EraseComment
<1>3. Shapes /\ Locks /\ id \in Posts
  BY <1>1, <1>2 DEF CacheInv, Ballots, Shapes, Shaped
<1>4. Threads'
  BY <1>3, AddsReply, ErasesComment
<1>5. ASSUME NEW x \in Posts, x # id
      PROVE  /\ CommentsOn(x)' = CommentsOn(x)
             /\ \A n \in CommentsOn(x) : /\ comment'[n].deleted = comment[n].deleted
                                         /\ comment'[n].parent = comment[n].parent
  <2>1. CASE AddReply(q)
    <3>1. PICK row : row = [on |-> id, parent |-> job[q].parent, author |-> job[q].who, deleted |-> FALSE]
      OBVIOUS
    <3>2. comment' = Append(comment, row) /\ row.on = id
      BY <1>1, <2>1, <3>1 DEF AddReply
    <3>3. PICK Comments : Comments = [on : Posts \cup {Gone}, parent : Nat, author : People, deleted : BOOLEAN]
      OBVIOUS
    <3>4. comment \in Seq(Comments)
      BY <3>3 DEF Threads
    <3>5. PICK len \in Nat : DOMAIN comment = 1 .. len /\ DOMAIN comment' = 1 .. len + 1
                             /\ comment'[len + 1] = row /\ \A n \in 1 .. len : comment'[n] = comment[n]
      BY <3>2, <3>4
    <3> QED
      BY <1>5, <3>2, <3>5 DEF CommentsOn
  <2>2. CASE EraseComment(q)
    <3>1. PICK m : m = job[q].n
      OBVIOUS
    <3>2. /\ \A n \in DOMAIN comment : n # m => comment'[n] = comment[n]
          /\ DOMAIN comment' = DOMAIN comment
          /\ \A n \in DOMAIN comment : comment'[n].on = comment[n].on
          /\ m \in DOMAIN comment /\ comment[m].on \in {id, Gone}
      BY <1>1, <1>3, <2>2, <3>1, ErasesComment
    <3>3. x # Gone
      BY CommunityAssumption
    <3> QED
      BY <1>5, <3>2, <3>3 DEF CommentsOn
  <2> QED
    BY <2>1, <2>2
<1>6. CacheInv'
  <2>1. \A x \in Posts \ keys : Truth(x)' = Truth(x)
    BY <1>1, <1>2, <1>5, SameTruth
  <2>2. Titles(Listing)' = Titles(Listing)
    BY <1>2, SameTitles DEF Exists
  <2>3. Written /\ keys \in SUBSET BoardKeys
    BY <1>1, <1>2, <1>3 DEF Written, BoardKeys
  <2> QED
    BY <1>2, <1>3, <2>1, <2>2, <2>3, BoardCommits
<1>7. Ballots'
  <2>1. PICK changed : changed = Changed
    OBVIOUS
  <2>2. JobsKeptBut(q) /\ job'[q].pc = "invalidate"
    BY <1>2, <1>3, <2>1, KeptByCommit
  <2>3. \A x \in Posts : Exists(x)' <=> Exists(x)
    BY <1>2 DEF Exists
  <2>4. {job[q].pc, job'[q].pc} \cap {"tally", "counted"} = {}
    BY <1>2, <2>2
  <2>5. posts' \in [Posts -> PostRow \cup {NoPost, Gone}]
    BY <1>2, <1>3 DEF Locks
  <2> QED
    BY <1>2, <2>2, <2>3, <2>4, <2>5, RowsVotes
<1> QED
  BY <1>4, <1>6, <1>7

\* A vote commits: the post's entry and its counts, but no title.
LEMMA ThumbWrites ==
  ASSUME CacheInv, Ballots, Threads, NEW q \in Requests, CommitThumb(q), UNCHANGED <<pvars, svars, fvars>>
  PROVE  CacheInv' /\ Ballots' /\ Threads'
<1>1. PICK id, keys, row, new : id = job[q].id /\ keys = {id} /\ row = posts[id] /\ new = posts'[id]
  OBVIOUS
<1>2. PICK up, down : up = job[q].up /\ down = job[q].down
  OBVIOUS
<1>3. /\ id \in Posts /\ Exists(id) /\ job[q].pc = "counted"
      /\ new = [author |-> row.author, notice |-> row.notice, text |-> row.text, up |-> up, down |-> down]
      /\ row \in PostRow /\ new \in PostRow
      /\ \A p \in Posts \ {id} : posts'[p] = posts[p]
  BY <1>1, <1>2, ThumbRow, ZenonT(30) DEF CacheInv
<1>4. Title(new) = Title(row)
  BY <1>3 DEF Title
<1>5. /\ UNCHANGED <<comment, store>> /\ Committed(q, keys, Changed)
  BY <1>1 DEF CommitThumb
<1>6. Shapes /\ Locks
  BY DEF CacheInv, Ballots
<1>7. Written /\ StaysGone
  BY <1>1, <1>3, CommunityAssumption DEF Written, StaysGone, Exists
<1>8. CacheInv'
  <2>1. ASSUME NEW x \in Posts \ keys PROVE Truth(x)' = Truth(x)
    <3>1. posts'[x] = posts[x] /\ CommentsOn(x)' = CommentsOn(x)
      BY <1>1, <1>3, <1>5 DEF CommentsOn
    <3> QED
      BY <1>5, <3>1, SameTruth
  <2>2. Titles(Listing)' = Titles(Listing)
    <3>1. \A p \in Posts : (Exists(p)' <=> Exists(p)) /\ (Exists(p) => Title(posts'[p]) = Title(posts[p]))
      BY <1>1, <1>3, <1>4, CommunityAssumption DEF Exists
    <3> QED
      BY <3>1, SameTitles
  <2>3. keys \in SUBSET BoardKeys
    BY <1>1, <1>3 DEF BoardKeys
  <2> QED
    BY <1>3, <1>5, <1>6, <1>7, <2>1, <2>2, <2>3, BoardCommits
<1>9. Ballots'
  BY <1>6, CommitsThumb
<1>10. Threads'
  <2>1. PICK changed : changed = Changed
    OBVIOUS
  <2>2. JobsKeptBut(q) /\ job'[q].pc = "invalidate"
    BY <1>3, <1>5, <1>6, <2>1, KeptByCommit
  <2>3. Claim(q)'
    BY <2>2 DEF Claim
  <2> QED
    BY <1>5, <1>6, <1>7, <2>2, <2>3, ThreadsKept
<1> QED
  BY <1>8, <1>9, <1>10

\* A post is deleted with everything on it.
LEMMA DeleteWrites ==
  ASSUME CacheInv, Ballots, Threads, NEW q \in Requests, Delete(q), UNCHANGED <<pvars, svars, fvars>>
  PROVE  CacheInv' /\ Ballots' /\ Threads'
<1>1. PICK id, keys : id = job[q].id /\ keys = {LIST, id}
  OBVIOUS
<1>2. Shapes /\ Locks
  BY DEF CacheInv, Ballots
<1>3. /\ job[q].pc = "delete" /\ posts' = [posts EXCEPT ![id] = Gone] /\ UNCHANGED store
      /\ Committed(q, keys, Changed) /\ id \in Posts
  BY <1>1, <1>2 DEF Delete, Shapes, Shaped
<1>4. /\ Threads' /\ Written
      /\ DOMAIN comment' = DOMAIN comment
      /\ \A n \in DOMAIN comment :
           IF comment[n].on = id THEN comment'[n].on = Gone ELSE comment'[n] = comment[n]
  BY <1>1, <1>2, DeletesThreads
<1>5. ASSUME NEW x \in Posts \ keys PROVE Truth(x)' = Truth(x)
  <2>1. x # id /\ x # Gone
    BY <1>1, CommunityAssumption
  <2>2. posts'[x] = posts[x]
    BY <1>2, <1>3, <2>1 DEF Locks
  <2>3. /\ CommentsOn(x)' = CommentsOn(x)
        /\ \A n \in CommentsOn(x) : /\ comment'[n].deleted = comment[n].deleted
                                    /\ comment'[n].parent = comment[n].parent
    BY <1>4, <2>1 DEF CommentsOn
  <2> QED
    BY <2>2, <2>3, SameTruth
<1>6. LIST \in keys /\ keys \in SUBSET BoardKeys
  BY <1>1, <1>3 DEF BoardKeys
<1>7. CacheInv'
  BY <1>2, <1>3, <1>4, <1>5, <1>6, BoardCommits
<1>8. Ballots'
  BY <1>2, DeleteVotes
<1> QED
  BY <1>4, <1>7, <1>8

LEMMA BoardSteps ==
  ASSUME CacheInv, Ballots, Threads, MNext, UNCHANGED <<pvars, svars, fvars>>
  PROVE  CacheInv' /\ Ballots' /\ Threads'
<1>1. ASSUME CacheStep, UNCHANGED boardrows PROVE CacheInv' /\ Ballots' /\ Threads'
  <2>1. Keeps(Keys)
    BY <1>1, NothingTouched DEF boardrows, pvars, svars, fvars
  <2>2. CacheInv' /\ JobsKept
    BY <1>1, <2>1, CacheSteps, JobsKeptByCache DEF CacheInv
  <2> QED
    BY <1>1, <2>2, BoardRests
<1>2. ASSUME NEW q \in Requests, Proceed(q) PROVE CacheInv' /\ Ballots' /\ Threads'
  <2>1. CASE (Fill(q) \/ Invalidate(q)) /\ UNCHANGED boardrows
    BY <1>1, <2>1 DEF CacheStep
  <2>2. CASE ReadComments(q)
    BY <2>2, BoardReads
  <2>3. CASE CreatePost(q) \/ Update(q)
    BY <2>3, PostWrites
  <2>4. CASE AddReply(q) \/ EraseComment(q)
    BY <2>4, CommentWrites
  <2>5. CASE LockPost(q) \/ CountVotes(q) \/ AbortRequest(q)
    BY <2>5, VoteMoves
  <2> QED
    BY <1>2, <2>1, <2>2, <2>3, <2>4, <2>5, ThumbWrites, DeleteWrites DEF Proceed
<1>3. ASSUME NEW q \in Requests, ReadList(q) \/ \E p \in Posts : ReadPost(q, p)
      PROVE  CacheInv' /\ Ballots' /\ Threads'
  BY <1>3, BoardReads
<1>4. CASE (CacheTick \/ Evict) /\ UNCHANGED boardrows
  BY <1>1, <1>4 DEF CacheStep
<1> QED
  BY <1>2, <1>3, <1>4, BeginsWrite DEF MNext

----------------------------------------------------------------------------
(* The invariant *)

\* Nothing is cached and nothing asked for; posts may be there.
LEMMA Starts ==
  ASSUME SiteInit
  PROVE  SInv
<1> USE DEF SiteInit
<1>1. /\ store = [k \in Keys |-> Nothing] /\ job = [q \in Requests |-> Waiting]
      /\ posts \in [Posts -> {NoPost} \cup {NewPost(who, FALSE) : who \in People}]
      /\ comment = <<>> /\ thumb = {} /\ postLock = [p \in Posts |-> NoHolder]
  BY DEF MInit, NoRequests, EmptyCache
<1>2. \A k \in Keys : ~Cached(k)
  BY <1>1 DEF Cached
<1>3. \A q \in Requests : job[q] = Waiting /\ job[q].pc = "waiting"
  BY <1>1 DEF Waiting
<1>4. CacheInv
  <2>1. Shapes
    BY <1>1, <1>2, <1>3 DEF Shapes, Shaped
  <2>2. Current
    BY <1>2, <1>3 DEF Current, Trusted
  <2>3. Paired
    BY <1>2, KeyFacts DEF Paired, Trusted
  <2> QED
    BY <2>1, <2>2, <2>3 DEF CacheInv
<1>5. Ballots
  <2>1. \A who \in People : NewPost(who, FALSE) \in PostRow /\ NewPost(who, FALSE).up = 0 /\ NewPost(who, FALSE).down = 0
    BY DEF NewPost, PostRow
  <2>2. Locks
    <3>1. \A p \in Posts : posts[p] \in PostRow \cup {NoPost, Gone}
      <4>1. PICK written : written = {NewPost(who, FALSE) : who \in People}
        OBVIOUS
      <4>2. written \subseteq PostRow
        BY <2>1, <4>1, Zenon
      <4>3. posts \in [Posts -> {NoPost} \cup written]
        BY <1>1, <4>1, Zenon
      <4> QED
        BY <4>2, <4>3
    <3>2. posts = [p \in Posts |-> posts[p]]
      BY <1>1
    <3>3. posts \in [Posts -> PostRow \cup {NoPost, Gone}]
      BY <3>1, <3>2
    <3> QED
      BY <1>1, <3>3 DEF Locks
  <2>3. Thumbs
    BY <1>1, FS_EmptySet DEF Thumbs
  <2>4. ThumbsAgree
    <3>1. ASSUME NEW p \in Posts, Exists(p) PROVE posts[p].up = 0 /\ posts[p].down = 0
      BY <3>1, <1>1, <2>1 DEF Exists
    <3>2. \A p : Votes(p, TRUE) = 0 /\ Votes(p, FALSE) = 0
      BY <1>1, NoVotes
    <3> QED
      BY <1>1, <3>1, <3>2 DEF ThumbsAgree
  <2>5. \A q \in Requests : Counting(q)
    BY <1>3 DEF Counting
  <2> QED
    BY <2>2, <2>3, <2>4, <2>5 DEF Ballots
<1>6. Threads
  BY <1>1, <1>3 DEF Threads, Claim
<1>7. OnAir
  BY StreamingAssumption DEF StreamingInit, OnAir
<1>8. Pictures
  BY DEF PopupInit, Pictures
<1>9. Edits
  BY DEF SavesInit, Edits, NoPreview
<1> QED
  BY <1>4, <1>5, <1>6, <1>7, <1>8, <1>9 DEF SInv

LEMMA SiteSteps ==
  ASSUME SInv, SiteNext
  PROVE  SInv'
<1> USE DEF SInv
<1>1. CASE MNext /\ UNCHANGED <<pvars, svars, fvars>>
  <2>1. CacheInv' /\ Ballots' /\ Threads'
    BY <1>1, BoardSteps
  <2>2. OnAir' /\ Pictures' /\ Edits'
    BY <1>1 DEF pvars, svars, fvars, OnAir, Pictures, Edits
  <2> QED
    BY <2>1, <2>2
<1>2. CASE PopupNext /\ UNCHANGED <<boardrows, svars, fvars>>
  <2>1. CacheInv' /\ JobsKept /\ Pictures'
    BY <1>2, PopupSteps
  <2>2. Ballots' /\ Threads'
    BY <1>2, <2>1, BoardRests
  <2>3. OnAir' /\ Edits'
    BY <1>2 DEF svars, fvars, OnAir, Edits
  <2> QED
    BY <2>1, <2>2, <2>3
<1>3. CASE StreamingNext /\ UNCHANGED <<boardrows, pvars, fvars>>
  <2>1. CacheInv' /\ JobsKept /\ OnAir'
    BY <1>3, StreamingSteps
  <2>2. Ballots' /\ Threads'
    BY <1>3, <2>1, BoardRests
  <2>3. Pictures' /\ Edits'
    BY <1>3 DEF pvars, fvars, Pictures, Edits
  <2> QED
    BY <2>1, <2>2, <2>3
<1>4. CASE (SavesNext \/ EventNext) /\ UNCHANGED <<boardrows, pvars, svars>>
  <2>1. CacheInv' /\ JobsKept /\ Edits'
    BY <1>4, SavesSteps, EventSteps
  <2>2. Ballots' /\ Threads'
    BY <1>4, <2>1, BoardRests
  <2>3. OnAir' /\ Pictures'
    BY <1>4 DEF pvars, svars, OnAir, Pictures
  <2> QED
    BY <2>1, <2>2, <2>3
<1>5. CASE CacheStep /\ UNCHANGED <<boardrows, pvars, svars, fvars>>
  <2>1. Keeps(Keys)
    BY <1>5, NothingTouched DEF boardrows, pvars, svars, fvars
  <2>2. CacheInv' /\ JobsKept
    BY <1>5, <2>1, CacheSteps, JobsKeptByCache DEF CacheInv
  <2>3. Ballots' /\ Threads'
    BY <1>5, <2>2, BoardRests
  <2>4. OnAir' /\ Pictures' /\ Edits'
    BY <1>5 DEF pvars, svars, fvars, OnAir, Pictures, Edits
  <2> QED
    BY <2>2, <2>3, <2>4
<1> QED
  BY <1>1, <1>2, <1>3, <1>4, <1>5 DEF SiteNext

LEMMA SiteStutters ==
  ASSUME SInv, UNCHANGED sitevars
  PROVE  SInv'
<1> USE DEF SInv
<1>1. UNCHANGED <<store, job, boardrows, pvars, svars, fvars>> /\ JobsKept
  BY DEF sitevars, mvars, JobsKept
<1>2. Keeps(Keys)
  BY <1>1, NothingTouched DEF boardrows, pvars, svars, fvars
<1>3. CacheInv'
  BY <1>1, <1>2, Rests
<1>4. Ballots' /\ Threads'
  BY <1>1, BoardRests
<1>5. OnAir' /\ Pictures' /\ Edits'
  BY <1>1 DEF pvars, svars, fvars, OnAir, Pictures, Edits
<1> QED
  BY <1>3, <1>4, <1>5

\* SInv is inductive: it holds of the services whatever their requests interleave.
THEOREM SiteInvariant == SiteSpec => []SInv
<1>1. SiteInit => SInv
  BY Starts
<1>2. SInv /\ [SiteNext]_sitevars => SInv'
  BY SiteSteps, SiteStutters
<1> QED
  BY <1>1, <1>2, PTL DEF SiteSpec

\* Of the comments that are shown of a post every head is top-level, and every other
\* one's parent is a head that is shown.
LEMMA Heads ==
  ASSUME Threads, NEW p \in Posts, NEW ns, ns = CommentsOn(p), NEW hs, hs = Hide(ns), NEW n \in hs
  PROVE  /\ n \in ns /\ n # 0
         /\ comment[n].parent \notin hs => comment[n].parent = 0
         /\ comment[n].parent \in hs => comment[comment[n].parent].parent \notin hs
         /\ ~Live(n) => \E r \in hs : Live(r) /\ comment[r].parent = n
<1>1. n \in ns /\ hs \subseteq ns /\ (Live(n) \/ \E r \in ns : Live(r) /\ comment[r].parent = n)
  BY DEF Hide
<1>2. \A m \in ns : m \in DOMAIN comment /\ comment[m].on = p /\ m # 0
  BY DEF CommentsOn, Threads
<1>3. \A m \in ns : Live(m) => m \in hs
  BY DEF Hide
<1>4. \A m \in ns : comment[m].parent # 0 =>
        comment[comment[m].parent].parent = 0 /\ comment[m].parent \in ns
  <2>1. ASSUME NEW m \in ns, comment[m].parent # 0
        PROVE  comment[comment[m].parent].parent = 0 /\ comment[m].parent \in ns
    <3>1. PICK Comments : Comments = [on : Posts \cup {Gone}, parent : Nat, author : People, deleted : BOOLEAN]
      OBVIOUS
    <3>2. comment \in Seq(Comments) /\ m \in DOMAIN comment
      BY <1>2, <3>1 DEF Threads
    <3>3. comment[m] \in Comments /\ DOMAIN comment = 1 .. Len(comment) /\ Len(comment) \in Nat
      BY <3>2
    <3>4. comment[m].parent \in Nat /\ comment[m].parent < m
      BY <3>1, <3>2, <3>3 DEF Threads
    <3>5. comment[m].parent \in DOMAIN comment
      BY <2>1, <3>2, <3>3, <3>4
    <3>6. comment[comment[m].parent].parent = 0 /\ comment[comment[m].parent].on = p
      BY <1>2, <2>1, <3>2 DEF Threads
    <3> QED
      BY <3>5, <3>6 DEF CommentsOn
  <2> QED
    BY <2>1
<1>5. ~Live(n) => \E r \in hs : Live(r) /\ comment[r].parent = n
  BY <1>1, <1>3
<1>6. comment[n].parent \in hs => comment[comment[n].parent].parent \notin hs
  BY <1>1, <1>2, <1>4
<1>7. ASSUME comment[n].parent \notin hs PROVE comment[n].parent = 0
  <2>1. CASE Live(n)
    <3>1. comment[n].parent # 0 => comment[n].parent \in Hide(ns)
      BY <1>1, <1>4, <2>1 DEF Hide
    <3> QED
      BY <1>7, <3>1
  <2>2. CASE ~Live(n)
    <3>1. PICK r \in ns : comment[r].parent = n
      BY <1>1, <2>2
    <3> QED
      BY <1>1, <1>2, <1>4, <3>1
  <2> QED
    BY <2>1, <2>2
<1> QED
  BY <1>1, <1>2, <1>5, <1>6, <1>7

LEMMA ThreadsAreShown ==
  ASSUME Threads
  PROVE  RepliesShown
<1> SUFFICES ASSUME NEW p \in Posts, NEW shown, shown = Detail(p).comments
             PROVE  /\ \A n \in CommentsOn(p) : Live(n) =>
                         Cardinality({t \in shown : t.id = n \/ n \in t.replies}) = 1
                    /\ \A t \in shown : /\ \A r \in t.replies : comment[r].parent = t.id
                                        /\ comment[t.id].parent = 0
                                        /\ t.deleted => \E r \in t.replies : Live(r)
  BY DEF RepliesShown
<1>1. PICK ns, hs : ns = CommentsOn(p) /\ hs = Hide(ns)
  OBVIOUS
<1>2. PICK heads : heads = {t \in hs : comment[t].parent \notin hs}
  OBVIOUS
<1>3. shown = {Thread(hs, n) : n \in heads}
  BY <1>1, <1>2 DEF Detail, Nest
<1>4. \A n : /\ Thread(hs, n).id = n
             /\ Thread(hs, n).replies = {r \in hs : comment[r].parent = n}
             /\ Thread(hs, n).deleted = ~Live(n)
  BY DEF Thread
<1>5. ASSUME NEW n \in ns, Live(n)
      PROVE  Cardinality({t \in shown : t.id = n \/ n \in t.replies}) = 1
  <2>1. n \in hs
    BY <1>1, <1>5 DEF Hide
  <2>2. PICK m : m = IF n \in heads THEN n ELSE comment[n].parent
    OBVIOUS
  <2>3. m \in heads /\ (m = n \/ comment[n].parent = m)
    BY <1>1, <1>2, <2>1, <2>2, Heads
  <2>4. Thread(hs, m) \in shown /\ (Thread(hs, m).id = n \/ n \in Thread(hs, m).replies)
    BY <1>3, <1>4, <2>1, <2>3
  <2>5. ASSUME NEW k \in heads, k = n \/ comment[n].parent = k PROVE k = m
    BY <1>2, <2>2, <2>5
  <2>6. {t \in shown : t.id = n \/ n \in t.replies} = {Thread(hs, m)}
    <3>1. ASSUME NEW t \in shown, t.id = n \/ n \in t.replies PROVE t = Thread(hs, m)
      <4>1. PICK k \in heads : t = Thread(hs, k)
        BY <1>3
      <4>2. k = n \/ comment[n].parent = k
        BY <1>4, <3>1, <4>1
      <4> QED
        BY <2>5, <4>1, <4>2
    <3> QED
      BY <2>4, <3>1
  <2> QED
    BY <2>6, FS_Singleton
<1>6. ASSUME NEW t \in shown
      PROVE  /\ \A r \in t.replies : comment[r].parent = t.id
             /\ comment[t.id].parent = 0
             /\ t.deleted => \E r \in t.replies : Live(r)
  <2>1. PICK n \in heads : t = Thread(hs, n)
    BY <1>3
  <2>2. t.id = n /\ t.replies = {r \in hs : comment[r].parent = n} /\ (t.deleted <=> ~Live(n))
    BY <1>4, <2>1
  <2>3. comment[n].parent = 0 /\ (~Live(n) => \E r \in hs : Live(r) /\ comment[r].parent = n)
    BY <1>1, <1>2, Heads
  <2> QED
    BY <2>2, <2>3
<1> QED
  BY <1>1, <1>5, <1>6

----------------------------------------------------------------------------
(* What the services promise *)

LEMMA Promises ==
  ASSUME SInv
  PROVE  SiteTypeOK /\ ThumbsAgree /\ RepliesShown /\ ServedIsCurrent /\ OneLiveMark
<1> USE DEF SInv
<1>1. ThumbsAgree /\ RepliesShown
  BY ThreadsAreShown DEF Ballots
<1>2. OneLiveMark
  <2>1. ASSUME NEW q \in Requests, job[q].pc = "live", NEW x \in job[q].found, NEW y \in job[q].found
        PROVE  x.user = y.user <=> x.channel = y.channel
    <3>1. OneEach(job[q].todo \cup job[q].found)
      BY <2>1 DEF CacheInv, Shapes, Shaped
    <3> QED
      BY <2>1, <3>1 DEF OneEach
  <2> QED
    BY <2>1 DEF OneLiveMark
<1>3. ServedIsCurrent
  <2>1. \A k \in Keys : Trusted(k) => Right(k, store[k].value)
    BY DEF CacheInv, Current
  <2>2. FreshUnlessRaced
    <3>1. \A k \in BoardKeys : k \in Keys
      BY KeysAssumption
    <3> QED
      BY <2>1, <3>1 DEF Right, FreshUnlessRaced, BoardKeys
  <2>3. /\ Trusted(ACTIVE) => store[ACTIVE].value = ActivePopups
        /\ Trusted(CHANNELS) => store[CHANNELS].value = Registered
        /\ \A u \in Players : Trusted(u) => store[u].value >= edited[u]
    BY <2>1, KeyFacts DEF Right, FillKeys
  <2> QED
    BY <2>2, <2>3 DEF ServedIsCurrent, CacheInv, Paired
<1>4. SiteTypeOK
  <2>1. \A p \in Posts : postLock[p] \in Requests => job[postLock[p]].pc \in {"tally", "counted"} /\ Exists(p)
    BY CommunityAssumption DEF Ballots, Locks
  <2>2. ASSUME NEW n \in DOMAIN comment PROVE comment[n].parent \in 0 .. n - 1
    <3>1. PICK Comments : Comments = [on : Posts \cup {Gone}, parent : Nat, author : People, deleted : BOOLEAN]
      OBVIOUS
    <3>2. comment \in Seq(Comments)
      BY <3>1 DEF Threads
    <3>3. comment[n] \in Comments /\ n \in Nat
      BY <3>2
    <3>4. comment[n].parent \in Nat /\ comment[n].parent < n
      BY <3>1, <3>3 DEF Threads
    <3> QED
      BY <3>3, <3>4
  <2>3. \A k \in Keys : Cached(k) => store[k].left \in 1 .. TTL
    BY DEF CacheInv, Shapes, Entry
  <2>4. MTypeOK
    BY <2>1, <2>2, <2>3 DEF MTypeOK
  <2> QED
    BY <2>4 DEF SiteTypeOK, OnAir, Pictures, Edits
<1> QED
  BY <1>1, <1>2, <1>3, <1>4

\* Kept of every service: whoever holds a post's lock is voting on it, replies come
\* after their heads, entries do not outlive their time, only images that were loaded
\* are kept, and no profile is edited past its save.
THEOREM SitesAreTyped == SiteSpec => []SiteTypeOK
BY SiteInvariant, Promises, PTL

\* The counters of a post are its votes, one per voter, because whoever counts holds
\* the post's row until the counts are written (add_thumb, SELECT ... FOR UPDATE).
THEOREM VotesAreCounted == SiteSpec => []ThumbsAgree
BY SiteInvariant, Promises, PTL

\* _hide_deleted and _nest_replies show every live comment of a post once, a reply
\* under the comment it answers.
THEOREM RepliesAreShown == SiteSpec => []RepliesShown
BY SiteInvariant, Promises, PTL

\* An entry that no race, no lost delete and no delete to come explains is the truth:
\* each service's cache_delete after a commit drops whatever the write makes wrong.
THEOREM WhatIsServedIsCurrent == SiteSpec => []ServedIsCurrent
BY SiteInvariant, Promises, PTL

\* live_for puts a LIVE mark beside one player: its list of channels, cached or just
\* read, is what the unique channels of the table once were.
THEOREM MarksAreUnique == SiteSpec => []OneLiveMark
BY SiteInvariant, Promises, PTL
=============================================================================
