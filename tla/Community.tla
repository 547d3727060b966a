----------------------------- MODULE Community -----------------------------
(***************************************************************************)
(* The community board (community/service.py, community/adapters/          *)
(* postgresql.py): posts, comments with one level of replies, thumbs, and  *)
(* the two kinds of cached reads, the list of posts and a post with its    *)
(* comments.  Requests are coroutines: a step is the code between two      *)
(* awaits, or a transaction's statements where only its commit matters.    *)
(* Creations run under the promise of Idempotency, which is not repeated.  *)
(***************************************************************************)
EXTENDS CachedRequests, Sequences, FiniteSets

CONSTANTS
  Posts,        \* ids; one is never given out twice
  People,       \* accounts
  MaxReplies,   \* bound on the comments ever written
  NoHolder,     \* nobody holds a post's row
  NoPost,       \* not written yet
  Gone          \* deleted

\* A post's row, and the answer of get_post.
PostRow == [author : People, notice : BOOLEAN, text : {0, 1}, up : Nat, down : Nat]
Page == [row : PostRow, comments : SUBSET [id : Nat, deleted : BOOLEAN, replies : SUBSET Nat]]

ASSUME CommunityAssumption ==
  /\ MaxReplies \in Nat /\ NoHolder \notin Requests
  /\ NoPost # Gone /\ {NoPost, Gone} \cap (PostRow \cup Posts) = {}
  /\ Nothing \notin Page

VARIABLES
  posts,     \* posts: id -> its row, NoPost or Gone
  comment,   \* comments, by id
  thumb,     \* thumbs: [on, voter, up]
  postLock   \* per post, who holds it FOR UPDATE

boardrows == <<posts, comment, thumb, postLock>>
mvars == <<store, job, writes, boardrows>>

LIST == "community:posts:*"

----------------------------------------------------------------------------
(* What is read *)

Exists(p) == posts[p] \notin {NoPost, Gone}
CommentsOn(p) == {n \in DOMAIN comment : comment[n].on = p}
Live(n) == ~comment[n].deleted

\* Every deleted comment is left out.
HideWrong(ns) == {n \in ns : Live(n)}

\* _hide_deleted: a deleted comment stays only as the head of a live reply.
Hide(ns) == {n \in ns : Live(n) \/ \E r \in ns : Live(r) /\ comment[r].parent = n}

\* _nest_replies: a reply whose parent is not shown counts as top-level.
Thread(ns, n) == [id |-> n, deleted |-> ~Live(n), replies |-> {r \in ns : comment[r].parent = n}]
Nest(ns) == {Thread(ns, n) : n \in {t \in ns : comment[t].parent \notin ns}}

Votes(p, up) == Cardinality({t \in thumb : t.on = p /\ t.up = up})

\* list_posts: every post with the number of its comments that are not deleted.
CommentCount(p) == Cardinality({n \in CommentsOn(p) : Live(n)})
Listing == [posts |-> {[id |-> p, row |-> posts[p], count |-> CommentCount(p)] : p \in {q \in Posts : Exists(q)}}]

\* get_post
Detail(p) == [row |-> posts[p], comments |-> Nest(Hide(CommentsOn(p)))]

BoardKeys == {LIST} \cup Posts

Truth(k) == IF k = LIST THEN Listing ELSE IF Exists(k) THEN Detail(k) ELSE Nothing

\* What writers invalidate the lists for: all but thumbs and comment counts.
Title(row) == [author |-> row.author, notice |-> row.notice, text |-> row.text]
Titles(list) == {Title(x.row) : x \in list.posts}

NewPost(who, notice) == [author |-> who, notice |-> notice, text |-> 0, up |-> 0, down |-> 0]

\* The board may hold posts already.
MInit ==
  /\ NoRequests
  /\ posts \in [Posts -> {NoPost} \cup {NewPost(who, FALSE) : who \in People}]
  /\ comment = <<>> /\ thumb = {}
  /\ postLock = [p \in Posts |-> NoHolder]

----------------------------------------------------------------------------
(* Reads *)

\* A miss.  A post and its comments are two queries, and so are the page of a list
\* and the total beside it, which is left out: nothing is said of it here.
ReadList(q) == Miss(q, LIST, Listing) /\ UNCHANGED boardrows

ReadPost(q, p) ==
  /\ job[q] = Waiting /\ Missed(p)
  /\ Exists(p)
  /\ To(q, [pc |-> "comments", key |-> p, value |-> [row |-> posts[p]], late |-> FALSE])
  /\ UNCHANGED <<store, writes, boardrows>>

ReadComments(q) ==
  /\ job[q].pc = "comments"
  /\ To(q, [pc |-> "fill", key |-> job[q].key, late |-> job[q].late,
            value |-> [row |-> job[q].value.row, comments |-> Detail(job[q].key).comments]])
  /\ UNCHANGED <<store, writes, boardrows>>

----------------------------------------------------------------------------
(* Writes *)

\* ensure_can_manage_post, on the row as read without a lock
CanManage(row, who, admin) == row.author = who \/ (row.notice /\ admin)

\* ensure_can_delete_comment
CanErase(n, who, admin) == comment[n].author = who \/ admin

\* ensure_can_use_post_type
CanUse(notice, admin) == notice => admin

\* The checks of a request, on committed rows that it does not lock.
BeginWrite(q, who, admin) ==
  /\ job[q] = Waiting /\ CountWrite
  /\ \/ \E notice \in BOOLEAN : CanUse(notice, admin) /\ To(q, [pc |-> "create", who |-> who, notice |-> notice])
     \/ \E p \in Posts :
          /\ Exists(p)
          /\ \/ /\ CanManage(posts[p], who, admin)
                /\ \/ To(q, [pc |-> "delete", id |-> p])
                   \/ \E notice \in BOOLEAN : CanUse(notice, admin) /\ To(q, [pc |-> "update", id |-> p, notice |-> notice])
             \/ /\ Len(comment) < MaxReplies
                /\ \E parent \in {0} \cup {n \in CommentsOn(p) : Live(n) /\ comment[n].parent = 0} :
                     To(q, [pc |-> "reply", id |-> p, who |-> who, parent |-> parent])
             \/ \E n \in CommentsOn(p) : /\ Live(n) /\ CanErase(n, who, admin)
                                 /\ To(q, [pc |-> "erase", id |-> p, n |-> n])
             \/ \E up \in BOOLEAN : To(q, [pc |-> "thumb", id |-> p, who |-> who, up |-> up])
  /\ UNCHANGED <<store, boardrows>>

\* The entries a write makes wrong.
Changed == {k \in BoardKeys : Truth(k) # Truth(k)'}

RowFree(p) == postLock[p] = NoHolder

CreatePost(q) ==
  /\ job[q].pc = "create"
  /\ \E p \in Posts :
       /\ posts[p] = NoPost
       /\ posts' = [posts EXCEPT ![p] = NewPost(job[q].who, job[q].notice)]
  /\ UNCHANGED <<comment, thumb>>
  /\ Committed(q, {LIST}, Changed)
  /\ UNCHANGED <<store, postLock, writes>>

\* SELECT ... FOR UPDATE, and every field of the request is written.
Update(q) ==
  /\ job[q].pc = "update" /\ Exists(job[q].id) /\ RowFree(job[q].id)
  /\ posts' = [posts EXCEPT ![job[q].id].notice = job[q].notice, ![job[q].id].text = 1 - @]
  /\ UNCHANGED <<comment, thumb>>
  /\ Committed(q, {LIST, job[q].id}, Changed)
  /\ UNCHANGED <<store, postLock, writes>>

\* The row goes with its comments and thumbs (ON DELETE CASCADE); deleting what
\* another request has deleted is no error.
Delete(q) ==
  /\ job[q].pc = "delete" /\ RowFree(job[q].id)
  /\ posts' = [posts EXCEPT ![job[q].id] = Gone]
  /\ comment' = [n \in DOMAIN comment |-> IF n \in CommentsOn(job[q].id) THEN [comment[n] EXCEPT !.on = Gone] ELSE comment[n]]
  /\ thumb' = {t \in thumb : t.on # job[q].id}
  /\ Committed(q, {LIST, job[q].id}, Changed)
  /\ UNCHANGED <<store, postLock, writes>>

\* The foreign key waits for a row locked FOR UPDATE, and fails without a post.
AddReply(q) ==
  /\ job[q].pc = "reply" /\ Exists(job[q].id) /\ RowFree(job[q].id)
  /\ Len(comment) < MaxReplies
  /\ comment' = Append(comment, [on |-> job[q].id, parent |-> job[q].parent, author |-> job[q].who, deleted |-> FALSE])
  /\ UNCHANGED <<posts, thumb>>
  /\ Committed(q, {job[q].id}, Changed)
  /\ UNCHANGED <<store, postLock, writes>>

\* Without the invalidation of the post.
EraseCommentWrong(q) ==
  /\ job[q].pc = "erase"
  /\ comment' = [comment EXCEPT ![job[q].n].deleted = TRUE]
  /\ UNCHANGED <<posts, thumb>>
  /\ Committed(q, {}, Changed)
  /\ UNCHANGED <<store, postLock, writes>>

EraseComment(q) ==
  /\ job[q].pc = "erase"
  /\ comment' = [comment EXCEPT ![job[q].n].deleted = TRUE]
  /\ UNCHANGED <<posts, thumb>>
  /\ Committed(q, {job[q].id}, Changed)
  /\ UNCHANGED <<store, postLock, writes>>

\* Without FOR UPDATE.
LockPostWrong(q) ==
  /\ job[q].pc = "thumb" /\ Exists(job[q].id)
  /\ ~\E t \in thumb : t.on = job[q].id /\ t.voter = job[q].who
  /\ To(q, [job[q] EXCEPT !.pc = "tally"])
  /\ UNCHANGED <<store, writes, boardrows>>

\* add_thumb: the lock, and who has voted already.
LockPost(q) ==
  /\ job[q].pc = "thumb" /\ Exists(job[q].id) /\ RowFree(job[q].id)
  /\ ~\E t \in thumb : t.on = job[q].id /\ t.voter = job[q].who
  /\ postLock' = [postLock EXCEPT ![job[q].id] = q]
  /\ To(q, [job[q] EXCEPT !.pc = "tally"])
  /\ UNCHANGED <<store, posts, comment, thumb, writes>>

\* The vote is inserted and the votes are counted: committed ones and its own.
CountVotes(q) ==
  /\ job[q].pc = "tally"
  /\ LET one(up) == IF job[q].up = up THEN 1 ELSE 0
     IN To(q, [pc |-> "counted", id |-> job[q].id, vote |-> [on |-> job[q].id, voter |-> job[q].who, up |-> job[q].up],
               up |-> Votes(job[q].id, TRUE) + one(TRUE), down |-> Votes(job[q].id, FALSE) + one(FALSE)])
  /\ UNCHANGED <<store, writes, boardrows>>

CommitThumb(q) ==
  /\ job[q].pc = "counted" /\ Exists(job[q].id)
  /\ thumb' = thumb \cup {job[q].vote}
  /\ posts' = [posts EXCEPT ![job[q].id].up = job[q].up, ![job[q].id].down = job[q].down]
  /\ UNCHANGED comment
  /\ postLock' = [postLock EXCEPT ![job[q].id] = IF @ = q THEN NoHolder ELSE @]
  /\ Committed(q, {job[q].id}, Changed)
  /\ UNCHANGED <<store, writes>>

\* The lock stays.
AbortRequestWrong(q) ==
  /\ job[q].pc \notin {"waiting", "invalidate"}
  /\ To(q, Waiting)
  /\ UNCHANGED <<store, writes, boardrows>>

\* A check under the lock fails (no post, voted already, no parent), the database
\* fails, or the client goes away.
AbortRequest(q) ==
  /\ job[q].pc \notin {"waiting", "invalidate"}
  /\ postLock' = [p \in Posts |-> IF postLock[p] = q THEN NoHolder ELSE postLock[p]]
  /\ To(q, Waiting)
  /\ UNCHANGED <<store, posts, comment, thumb, writes>>

Proceed(q) ==
  \/ (Fill(q) \/ Invalidate(q)) /\ UNCHANGED boardrows
  \/ ReadComments(q) \/ CreatePost(q) \/ Update(q) \/ Delete(q) \/ AddReply(q) \/ EraseComment(q)
  \/ LockPost(q) \/ CountVotes(q) \/ CommitThumb(q) \/ AbortRequest(q)

MNext ==
  \/ \E q \in Requests : \/ ReadList(q) \/ Proceed(q)
                         \/ \E p \in Posts : ReadPost(q, p)
                         \/ \E who \in People, admin \in BOOLEAN : BeginWrite(q, who, admin)
  \/ (CacheTick \/ Evict) /\ UNCHANGED boardrows

\* Requests end and time passes.
MFairness == WF_mvars(CacheTick /\ UNCHANGED boardrows) /\ \A q \in Requests : WF_mvars(Proceed(q))

MSpec == MInit /\ [][MNext]_mvars /\ MFairness

----------------------------------------------------------------------------
(* Properties *)

MTypeOK ==
  /\ \A p \in Posts : postLock[p] \in Requests => job[postLock[p]].pc \in {"tally", "counted"} /\ Exists(p)
  /\ \A n \in DOMAIN comment : comment[n].parent \in 0 .. n - 1
  /\ \A k \in Keys : Cached(k) => store[k].left \in 1 .. TTL

\* add_thumb "locks the post so concurrent votes recount one after another": the
\* counters of a post are its votes, one per voter, whatever overlaps.
ThumbsAgree ==
  \A p \in Posts : Exists(p) =>
    /\ posts[p].up = Votes(p, TRUE) /\ posts[p].down = Votes(p, FALSE)
    /\ \A t, u \in thumb : t.on = p /\ u.on = p /\ t.voter = u.voter => t = u

\* What a reader is shown of a post's comments: every live one once, a reply under
\* the comment it answers, even when that one is deleted, and of deleted comments
\* only such heads.  Replies to comments deleted meanwhile included.
RepliesShown ==
  \A p \in Posts : Exists(p) =>
    LET shown == Detail(p).comments
    IN /\ \A n \in CommentsOn(p) : Live(n) =>
            Cardinality({t \in shown : t.id = n \/ n \in t.replies}) = 1
       /\ \A t \in shown : /\ \A r \in t.replies : comment[r].parent = t.id
                           /\ comment[t.id].parent = 0
                           /\ t.deleted => \E r \in t.replies : Live(r)

\* Every write drops every entry it makes wrong.  A cached post or list that is not
\* the truth is one whose delete is still to come, was lost by Redis, or came before
\* a fill that had read earlier.  Of the lists, thumbs and comment counts are left
\* out: the code does not invalidate them for those.
FreshUnlessRaced ==
  \A k \in BoardKeys :
    Trusted(k) => IF k = LIST THEN Titles(store[k].value) = Titles(Listing) ELSE store[k].value = Truth(k)

\* Once writing stops, everything cached comes to be the truth and stays it, lists
\* with their counts included: no race and no lost delete outlives the entries.
CacheHeals == <>[](\A k \in BoardKeys : Cached(k) => store[k].value = Truth(k))
=============================================================================
