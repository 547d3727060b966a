------------------------ MODULE ReservationComments ------------------------
(***************************************************************************)
(* Comments on reservations (add_comment and delete_comment of             *)
(* reservation/adapters/postgresql.py), beside the requests and listings   *)
(* of Reservation.  Neither operation locks the reservation's row itself;  *)
(* the foreign key of a new comment waits for a row that is locked FOR     *)
(* UPDATE, and only for that.                                              *)
(***************************************************************************)
EXTENDS Reservation, Sequences

CONSTANTS Commenters,   \* concurrent comment requests
          MaxComments   \* bound on the comments ever written

ASSUME MaxCommentsAssumption == MaxComments \in Nat

VARIABLES comments,  \* the comment rows, in order of creation
          post       \* per commenter, its open transaction

allvars == <<vars, comments, post>>

Comment == [id : Reservations, author : Users, deleted : BOOLEAN]

CInit ==
  /\ Init
  /\ comments = <<>>
  /\ post = [c \in Commenters |-> NoTxn]

Close(c) == post' = [post EXCEPT ![c] = NoTxn]

\* ensure_commentable and ensure_comment_deletable_by
Commentable(r) == rows[r].status # "cancelled"
DeletableBy(n, u, admin) == comments[n].author = u \/ admin

\* Without ensure_commentable.
BeginCommentWrong(c, r, u) ==
  /\ post[c].pc = "idle"
  /\ rows[r] # NoRow
  /\ post' = [post EXCEPT ![c] = [pc |-> "insert", id |-> r, user |-> u]]
  /\ UNCHANGED <<vars, comments>>

\* session.get without a lock, then ensure_commentable on what it saw.
BeginComment(c, r, u) ==
  /\ post[c].pc = "idle"
  /\ rows[r] # NoRow
  /\ Commentable(r)
  /\ post' = [post EXCEPT ![c] = [pc |-> "insert", id |-> r, user |-> u]]
  /\ UNCHANGED <<vars, comments>>

InsertComment(c) ==
  /\ post[c].pc = "insert"
  /\ lock[post[c].id] \notin Handlers
  /\ Len(comments) < MaxComments
  /\ comments' = Append(comments, [id |-> post[c].id, author |-> post[c].user, deleted |-> FALSE])
  /\ Close(c)
  /\ UNCHANGED vars

\* The author, or an admin, of a comment that is not deleted when it is read.
BeginDelete(c, n, u, admin) ==
  /\ post[c].pc = "idle"
  /\ ~comments[n].deleted
  /\ DeletableBy(n, u, admin)
  /\ post' = [post EXCEPT ![c] = [pc |-> "erase", comment |-> n]]
  /\ UNCHANGED <<vars, comments>>

Erase(c) ==
  /\ post[c].pc = "erase"
  /\ comments' = [comments EXCEPT ![post[c].comment].deleted = TRUE]
  /\ Close(c)
  /\ UNCHANGED vars

AbortComment(c) ==
  /\ post[c].pc # "idle"
  /\ Close(c)
  /\ UNCHANGED <<vars, comments>>

CNext ==
  \/ Next /\ UNCHANGED <<comments, post>>
  \/ \E c \in Commenters :
       \/ \E r \in Reservations, u \in Users : BeginComment(c, r, u)
       \/ \E n \in DOMAIN comments, u \in Users, admin \in BOOLEAN : BeginDelete(c, n, u, admin)
       \/ InsertComment(c) \/ Erase(c) \/ AbortComment(c)

\* As in Reservation; a comment that waits for a locked row goes on when it is free.
CFairness ==
  /\ Fairness
  /\ \A c \in Commenters : SF_allvars(InsertComment(c)) /\ WF_allvars(Erase(c))

CSpec == CInit /\ [][CNext]_allvars /\ CFairness

----------------------------------------------------------------------------
(* Properties *)

\* The types; and a deletion under way is of a comment that exists.
CTypeOK ==
  /\ TypeOK
  /\ comments \in Seq(Comment)
  /\ Len(comments) <= MaxComments
  /\ post \in [Commenters -> {NoTxn} \cup [pc : {"insert"}, id : Reservations, user : Users]
                                     \cup [pc : {"erase"}, comment : DOMAIN comments]]

\* The comments of a reservation, deleted ones too.
CommentsOn(r) == {n \in DOMAIN comments : comments[n].id = r}

\* Cancelled, and nobody is writing a comment on it any more.
Silent(r) ==
  /\ rows[r].status = "cancelled"
  /\ \A c \in Commenters : post[c].pc = "insert" => post[c].id # r

\* add_comment checks the status and inserts in two statements with nothing locked
\* in between.  Once the requests that were under way at the cancellation are over,
\* no comment appears on the reservation again, whatever comments, edits, joins,
\* listings and deletions follow in whatever order.  (A comment that is under way
\* then may still appear, although test_a_cancelled_reservation_stops_taking_comments
\* has "A cancelled appointment is not a thing left to discuss.")
CancelledFallsSilent ==
  [][\A r \in Reservations : Silent(r) => Silent(r)' /\ CommentsOn(r)' = CommentsOn(r)]_allvars
=============================================================================
