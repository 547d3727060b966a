# A verification project for tag2now-BE

tag2now-BE is the backend of a companion site for an online fighting game: a
FastAPI process that polls the game's RPCN matchmaking server, keeps
statistics of rooms, ranks and players in PostgreSQL, and offers its users
match reservations, a chat, a board with comments, popups and uploaded saves.

This directory holds TLA+ models of the parts where requests overlap, fail or
are repeated, the TLC runs that check them, and TLAPS proofs of what matters
most. Source paths below are relative to `src/src/`.

## 1. The system and its parts

| part | state it keeps | operations | what is hard | modules |
|---|---|---|---|---|
| `idempotency` | `idempotency_keys` | `run_once`: claim, write, complete | duplicates in flight, failures and crashes between claim and commit, retries | `ExactlyOnce`, `Idempotency` |
| `reservation` | `reservations`, `reservation_participants`, `reservation_comments` | post, edit, join, leave, cancel, list (which retires), comment, delete comment | row locks, two-statement expiry, checks on stale reads, captured times | `BookingBoard`, `Reservation`, `ReservationComments` |
| `chat` | `chat_messages`, `_last_post`, the bus's queues | post, delete, stream | publish after commit, subscribe before snapshot, bounded queues, restarts | `Chat` |
| `records` | `save_states`, `match_events`, `matches` | capture of saves, event consumer, pages, tallies | queue with retries and savepoints, pairing the two sides of a match, ids that become visible out of order | `MatchBook`, `MatchQueue`, `SaveCapture`, `MatchRecords` |
| `history` | `_prev_rank_match_ids`, three tables | the collector loop, statistics | memory against database across failures and restarts, room ids that are reused | `Collector`, `HistoryStats` |
| `matching` | the search tracker, the shared RPCN session, caches | rooms, leaderboard | request threads share the tracker without a lock, and the session with one; cool-down after a failed connection | `LiveRooms`, `RpcnConnection`, `Rankings` |
| `rpcn_client` | one socket | connect, log in, ask | replies are matched to requests by their order alone | `RpcnConnection` |
| `community` | posts, comments, thumbs, cached reads | create, edit, delete, reply, thumb | votes that overlap, deletions under replies, fills that a write overtakes | `Community` |
| `popup` | popups, the cached list | CRUD, list, image | an image replaced between list and load | `Popup` |
| `streaming` | channels, cached registrations and live marks | register, remove, who is live | one answer made of reads of different times | `Streaming` |
| `saves` | cached profiles and rank views; the saves are on another server | profile, boards, preview, edit | a write on another server whose answer may be lost | `Saves`, `Rankings` |
| `event` | cached board and players | board, player | excluded players, ties, ranks no game earned | `Rankings`, `Saves` |
| `auth`, `admin` | tokens (held by clients), none | log in, ban, unban | a token outlives the ban and the role of its account | `Accounts` |
| `shared` | the cache, the engine, the clock | get, set, delete | Redis loses sets and deletes without telling anyone | `ReadThroughCache`, `CachedRequests`, `SiteServices` |
| application | resources and background workers | start, serve, stop | failure half way, a thread that outlives its cancelled task | `Lifespan` |
| migrations | the schema | | runs before the program | |

How they interact. Every HTTP request is a coroutine of one process and one
event loop; synchronous endpoints run in its thread pool. A service opens one
database transaction per write (`async with sessions() as session,
session.begin()`) and hands the session to its repository, so the isolation
is PostgreSQL's READ COMMITTED, with `SELECT ... FOR UPDATE` where the
repository asks for it. `reservation` and `community` run their creations
through `idempotency` inside their own transaction. `chat` commits first and
then publishes on an in-memory bus that the open streams read. The collector,
the capture of saves and the event consumer are background tasks that `app.py`
starts last and stops first. The collector and the room pages ask RPCN through
one session behind one lock. `matching`, `streaming`, `popup`, `community`,
`saves` and `event` read through a cache.

What makes each part correct:

* `idempotency`: a key's write is committed at most once; key, row and stored
  answer exist together; nobody is told of a row that is not there; a waiting
  duplicate goes on.
* `reservation`: never more seats than the capacity, status and seats agree,
  conditions do not change under a participant, an end is final and in time,
  nobody waits for ever; a cancelled reservation falls silent.
* `chat`: an open stream lacks nothing; a stalled one is ended, and what is
  shown is what there is.
* `records`: every event is processed once or given up after its retries, the
  two sides of a match become one match, the events queued of a player add up
  to the change of the tally kept; a page follows the one before, and the two
  tallies of the same lines agree.
* `history`: a match is recorded once, also across failed polls; a row says
  nothing of a time when those two were not seen there; the statistics of the
  three tables agree.
* `matching`: an answer goes to the call that asked; a call ends; an update of
  the tracker that nothing overlapped is right.
* what is cached: a stale answer has a race or a lost delete behind it, and
  goes when its entry expires.
* `saves`, `event`: a place is one more than the number of those who stand
  better, whoever is excluded or filtered out.
* application: what is open is a beginning of the order of opening, and a
  running task finds everything it needs.

## 2. Plan

1. **Done.** `ExactlyOnce`, `Idempotency`, `IdempotencyProofs`.
2. **Done.** `BookingBoard`, `Reservation`, `ReservationComments`,
   `ReservationProofs`.
3. **Done.** `Chat`.
4. **Done.** `MatchBook`, `MatchQueue`, `SaveCapture`, `MatchRecords`.
5. **Done.** `Collector` with `HistoryStats`, `LiveRooms`, `RpcnConnection`.
6. **Done.** `ReadThroughCache` and `CachedRequests` under `Community`,
   `Popup`, `Streaming` and `Saves`, composed in `SiteServices`.
7. **Done.** The boards as operators against a definition (`Rankings`),
   `Accounts`, `Lifespan`.
8. **Done.** Proofs of the safety of the record queue and its refinement
   (`MatchQueueProofs`), the chat (`ChatProofs`), the RPCN session, accounts and
   room list (`RpcnProofs`), the collector, its statistics and the life of the
   process (`CollectorProofs`), the captures, the paging, the tallies and the
   boards (`SaveCaptureProofs`), the services behind the cache (`SiteProofs`) and
   the comments (`ReservationProofs`).
9. A match and its rematch in one room, where the nearest line counts: the
   theorems of `MatchQueueProofs` hold for any number of events, but the runs
   have two, so a rematch is proved about and not run.
10. **Done.** Sorting and places as definitions that can be proved about
    (`Sorting`, `Rankings`), with `BoardsAreRight`.

## 3. Modules

### Idempotency

`Idempotency` models one request per handler, from the use case's own checks
(`ReservationService.create_reservation`) through `claim`, the write and
`complete` to the commit and the response. The conflict of the INSERT and the
SELECT of the stored row are two statements and two steps. A handler waits in
`claim` while another transaction's index entry is uncommitted. `Abort` is any
failure before the commit; `Crash` ends every handler, and the response of a
committed request is lost if it comes first. `RefusedAt` are the instants at which
the checks of the use case, which run outside `run_once`, refuse a request; it is
any set, because a time of day that has passed is taken for tomorrow's
(`start_at_from`, `reservation/domain.py`), so a refused request may be accepted
later.
`ExactlyOnce` is what a caller may rely on: a key is decided once and every
answer is that decision. `KeepsPromise` is the refinement.

The branch of `ReadStored` for a stored NULL is in the model because it is in
the code; `KeyMatchesWrite` is what shows that it is never taken.

### Reservation

`Reservation` models the requests on reservations as transactions with the
statements that matter for interleaving: the unlocked read and validation of a
PATCH, the row lock, the seat count under it, and the writes with the commit.
A listing is a transaction of its own with the two statements of
`_expire_finished`: seats first, rows second. Row locks and locks on cancelled
participant rows are both modelled, in the order in which each operation takes
them. Times are captured when the transaction begins, as the service does.
`rows` and `seats` hold committed data only: under READ COMMITTED nobody sees
anything else, so the last writes of a handler and its commit are one step.

`BookingBoard` has no transactions: every operation is one change of the board
as it is. `ActsOnBoard` states that each commit is such a change.

`ReservationComments` extends it by the comment requests, which take no row
lock: a new comment's foreign key waits for a `FOR UPDATE` lock, and for
nothing else. So a comment may be written on a reservation that was cancelled
since the status was read. `CancelledFallsSilent` is what does hold: when the requests that were under way
at the cancellation are over, no comment appears any more.

Abstractions: ranks are "some" or "none", which is all the rules ask; memo and
display names are left out; a host is always known (rows from before login
have none and can only be joined, listed and retired). The row returned by
the unlocked read of a PATCH is not kept by anyone, so the locked read gives a
fresh object. What a listing returns is a read and changes nothing.

### Chat

`Chat` follows the event loop: a step ends where the code awaits the database.
`publish` awaits nothing and is part of the step before it. A stream
subscribes, reads its snapshot, then takes events from its queue; the client
replaces its list by the snapshot, adds and removes by id, and reconnects when
the stream ends. A full queue is replaced by the end mark and dropped.
`RestartChat` forgets `_last_post`, the queues and every request under way. Two
posts of one account that overlap both pass `ensure_not_flooding`, which is
looked up before and noted after the database call; the model has this too.
Abstractions: the play-day window is only its size limit (`MaxListed`); ids
are given in the order of commits.

### Match records

`MatchQueue` models the event consumers. A worker claims the oldest due event
nobody has locked (`FOR UPDATE SKIP LOCKED`), reads the room the player was in
(in a session of its own, before any lock), takes the room's advisory lock,
looks for a line whose side is open, and writes and commits. `Fail` is any
error up to there: back to the savepoint, the attempt counted and the retry or
the end committed. `Crash` rolls everything back. `Sight` is the history
collector's part: snapshots of rooms and their last sighting, committed some
time after they were observed, beside whatever the workers do. `Queue` is an
event of a capture, for any player, result and time of save.
`MatchBook` has no workers, locks or retries: an event is entered as a whole on
the book as it is, or given up. `EntersOneByOne` is the refinement.

`SaveCapture` models what queues the events. The save server is environment:
it hands out an id when an upload begins and shows the save when it is
committed, and a backup may be restored under its old id. A capture reads the
newest id compared, asks for the saves past it less the overlap, and compares
them one after the other, each in a transaction with the row of that player
locked; one that fails is left to the next capture.

Abstractions: a save is its wins and losses (characters and ranks go along and
decide nothing), `available_at` is the time left until then, and what happened
in a transaction that did not commit is not kept. `touch_rank_matches` reaches
rooms of the last day only; the clock of the runs is far shorter than that.

`MatchRecords` models what is read of the lines. An id is given out before its
line commits, so lines with lower ids appear while a visitor pages down by id;
`BeginReading` and `ReadPage` are the pages of one visitor. `WeeklyTop` and
`FrequentOpponents` are the two tallies as operators over the committed lines,
ordered by `Sorted`.

### Collector and statistics

`Collector` models `collect_once` as its four transactions in order, any of
which may fail (`FailCycle`), and the memory of the rooms recorded in the cycle
before, which is advanced last and lost by a restart. RPCN is environment: any
of `Observations`, in which a room id passes from one match to another, and a
failed observation. `takenOver` marks the one exception `MeetingsRecorded`
needs: a match in a room whose id held another match in the recorded cycle
before is not recorded, because rooms are remembered by id alone. Rooms are
chosen by the members RPCN counts, and players are those it lists, which need not
be as many: a match of which one player is listed has `NoUser` in the other
place, as `_to_snapshot_record` writes it.

`HistoryStats` adds the three reads: the hours of the day, the days, and a
player. `StatsAgree` relates them, over tables that different transactions
wrote. A player of a match with an empty place is on its day alone, which is the
exception in `MeetingsCovered`.

### RPCN and the room list

`RpcnConnection` models the session that request threads and the collector
share: the lock, the connection with its greeting and login, the cool-down
after a failure, the calls of the adapter as their number of questions, and the
socket with what is on its way in each direction. RPCN may answer, refuse,
notify, send a packet that is neither reply nor notification, be slow or hang
up. The client numbers its requests and ignores the number in a reply, so what
keeps replies apart is that a client whose call timed out is discarded. One
error does not discard it: a lobby search that meets an unexpected packet goes
on with the same client while the reply is still to come, and from then on the
session answers each question with the reply to the one before
(`RepliesMatch`, violated in the run `rpcn_replies`). `RepliesInStep` says that
this is the only way: an answer is exactly as many questions old as unexpected
packets were swallowed in its session (`skipped`).

`LiveRooms` models the tracker of searching players statement by statement,
because two visits that miss the cache run it in two threads without a lock.
Overlapping updates do fail and do lose players; what holds is that an update
that nothing overlapped is right, whatever earlier overlaps left
(`AloneIsRight`), and that every player shown as searching has lists to
explain it (`PhantomsExplained`).

### The cache and the services behind it

`ReadThroughCache` is the cache as its users see it, including a Redis whose get
fails and is taken for a miss (`Missed`); `CachedRequests` is the
pattern in which the services use it: a miss reads the source and fills the
entry in a later step, a write commits and deletes the entries in a later step.
An entry carries the bookkeeping `excused`: a delete that should have hit it
was lost, or came before the fill. `ServedIsCurrent` says that nothing else
makes an entry stale.

`Community` models posts, comments with their replies, votes under the post's
row lock, and the two cached reads. (A page of the list comes from two queries,
the total and the posts; the total is left out with the paging.) `Popup` adds the visitor's browser, which
keeps images for good. `Streaming` adds the platform; the marks of one answer
are collected over several steps. `Saves` models the profiles and an admin's
preview and edit, which names the previewed save; the edit may be applied and
its answer lost (`EditUnanswered`), after which the profile stays as it is
until it expires. Its rank views, and the event's board and players, are
several entries filled from one answer.

`SiteServices` puts them on one cache. They share no key, so a behaviour
exercises one of them; `service` says which.

### Boards, accounts, application

`Rankings` has the two boards as operators, over any read of the saves:
the event (start, target and gain of each character, the best one, the place)
and the current ranks with the holders of a rank. `RightBoard` is what they are
checked against. Python's `sorted` is `Sorting`: who stands at k has k - 1
others ahead. `groupby` over the sorted list, which counts a place up by the
length of each group, is `GroupPlace`: the place of a group is where it starts
in the list. `RankNext` reads any save of any player and changes any exclusion,
so its states are all the finite reads there are.

`Accounts` models logins, tokens, roles and bans. RPCN decides and may change a
role or a ban at any time; a token is believed until it expires. `BansHold`
bounds how long after a ban a token is good for, and shows that admins with old
tokens cannot ban each other to the last.

`Lifespan` models startup and shutdown over the exit stack, and the thread of a
collection that was cancelled. A session that this thread opens after the game
server was closed is not closed by anyone (`stray`).

## 4. Runs

| run | states | what it shows |
|---|---|---|
| `idempotency` | 15 thousand | safety, the refinement and progress, three handlers |
| `idempotency_retry` | violation | a retry after the lead time is refused, not replayed |
| `reservation` | 814 thousand | joins, leaves, edits, cancellations and a listing on one reservation, three users |
| `reservation_edits` | violation | two valid edits make an invalid reservation |
| `chat_ghost` | violation | a deletion overtakes its post |
| `match_queue` | 481 thousand | two workers, two events of a room, a crash, failures: entered once or given up, and none left |
| `match_queue_one_row` | violation | a room committed between two events of one match makes two rows |
| `rpcn_replies` | violation | after an unexpected packet a lobby is answered with the reply to the lobby before |
| `popup_image` | violation | a browser keeps a picture under another picture's hash |
| `site_services` | 876 thousand | board, popups, streams, saves and event over a cache that expires and a Redis that loses things |
| `backend` | 2.51 million | components, each explored in full: chat, RPCN session, room list, collector, comments, two listings, of two statements each, beside a request (`StatusMatchesSeats`, `EndsOnce`), capture, lifespan, accounts, match records, boards |
| `progress` | 68 thousand | messages arrive, calls end, stale entries go, saves are compared, a listing and a request that lock in opposite orders end |

`MCBackend` and `MCProgress` put components side by side that share no state of
this process. `part` names the one at work, the others stay as they start, so
the states are the sum of the parts and not their product; a property of one
part is checked over all of that part's behaviours. What joins the parts (the
collector's rooms for the match queue, saves for the capture) is environment of
the reader's own module, where it is freer than the writer.

Bounds. Two transactions of each kind are what a race needs; the third handler
of `idempotency` lets a duplicate wait behind one that fails. Capacity is 1 and
edited to 2, so that the last seat, the full and the free reservation all
occur. The clock has the granularity of the lead time and the grace hour: with
`MaxTime = 2` a reservation is posted, starts, and is retired one grace later.
`QueueSize = 1` fills with the second event; three messages let one be before
the snapshot, one in it and one after. `MaxMessages`, `MaxComments`,
`MaxCalls`, `MaxWrites`, `MaxReplies`, `MaxSaves` and `MaxRestarts` only cut
the number of repetitions. Reservations are two parts of `backend`: beside
comments the clock stands still and nothing is listed, so that a reservation ends
by cancellation; with two listings it ends by time as well.

In the queue, the two sides of a match need two events and their race two
workers, and `MAX_ATTEMPTS = 2` has an attempt that is retried and one that is
the last. A capture has an overlap of 2 and a limit of 3, so that four players' saves fill
an answer and an id can be late by one, by two, and by too much; the code's 16
and 200 have the same relation (`CaptureAssumption`). `MaxPlayed` lets a tally
rise by two between two saves, which is the change that cannot be split. The
queue runs do not check deadlock: an empty queue, with nothing to come within
the bounds, is where the program waits.

The collector has four cycles over days of two: a match goes on into the next
day, an hour comes back on a second day, samples pass the retention, and a room
id passes to another match, of which one player is listed. A call to RPCN has
two questions, so that a timeout or an unexpected packet may leave a reply behind
for a second one, and calls follow each other on one session; RPCN sends at most
one packet per question that nobody asked for. (`progress` has one lobby.) The tracker is given three lists by
two visits: one that a player left, one in which they are back. The cache has a
time to live of one step of the clock; a longer one only keeps entries longer.
Three lines and pages of one are a page that ends between two commits. Three
players on a board have a tie before or behind somebody; their saves cover a
rise by games, without games, in the pair that counts as one character, and
into each band of starts. `progress` has no failures where a failure ends what
must happen, and covers them in `backend`. Its players who upload saves come in one order of
first uploads (`InOrder`): nothing tells them apart.

`site_services` checks deadlock; in the other composites and the popup run the
bounded components run out of steps (`CHECK_DEADLOCK FALSE`).

Symmetry is used in safety runs only, over users, handlers, requests, players
and workers, none of which a property tells apart.

Fairness. Statements that can run do run: the database and the event loop serve
everyone (weak fairness of the steps of a transaction or a request). Waiters of
a row lock are queued by PostgreSQL, so one that is let on again and again gets
it (strong fairness of `Lock` and of a listing's statements). The session's lock
is a thread lock, which is not strictly first come, first served; that a thread
that finds it free again and again gets it (strong fairness of `Enter`) is
assumed of the operating system. A read from the socket ends by data, by its end
or by the socket's timeout, so one of them is taken. The loops of the event
consumer and of the capture never end, so their next step is fair too, as is
the time that passes until a retry, and the clock that ages the cache. That the
save server commits an upload it began is assumed; an upload that never ends is
never shown, and is not waited for. Nothing is assumed about users, clients,
RPCN or failures.

A premise of the reservation model: no transaction is open longer than
`TxnSpan` after the time it captured, and `TxnSpan <= LISTING_GRACE`.
Requests take milliseconds and the grace is an hour. `Tick` waits for it.

## 5. Proofs

`IdempotencyProofs` proves for every number of handlers, keys and requests:
`TypeCorrect`, `WritesAtMostOnce`, `KeyAndWriteAgree`, `OnlyRealAnswers` and
`ImplementsPromise`. The properties are not inductive: that a key's row is
written once follows only from who may be between claim and commit. The
inductive invariant `IInv` therefore adds `Claims` (a handler past its claim
holds the key, holds it alone, and finds it without a committed row) and
`KeyRows` (a key has at most one committed row). The assumption used is
`IdempotencyAssumption`.

`ReservationProofs` proves for every set of reservations, users, requests and
listings, every offer and patch, and every clock: `TypeCorrect`,
`CapacityNeverExceeded`, `StatusFollowsSeats`, `EditsOnlyWhenEmpty`,
`EndsAreFinal`, `EndsAreInTime` and `ImplementsBoard`. Capacity and status by
themselves are not inductive, since a handler writes from what it read two
statements earlier. The inductive invariant `IInv` adds what makes that
reading current:

- `Held`: from its lock to its commit a handler knows the row as it is, and
  once it has counted, the seats as they are. Every write of a row or of its
  seats by another request needs that lock.
- `Times`: nobody's transaction outlives the time it captured by more than
  `TxnSpan`. With `TxnSpan <= LISTING_GRACE` a request that may still change a
  reservation (it came before the start) and a listing that finds it finished
  (it came a grace after) are never open together. This is what keeps the seats
  a listing releases *before* it has a row lock from being counted by a handler
  that has one. Without the premise a seat taken between the listing's two
  statements outlives its reservation: TLC shows it in twelve steps when
  `TxnSpan` exceeds the grace and the assumption is dropped.
- `Released`, `Retired`, `Apart`: until a listing commits, the seats it has
  released are exactly those of the rows it finds finished, the rows it retires
  are finished and locked by it and include all of these, and no two listings
  have released one seat.

The refinement and the action properties then follow per action: six actions
map to the six operations of the board, every other one to a stutter.
`EditsOnlyWhenEmpty` and `EndsAreFinal` are proved of the board's steps and so
of the reservations' steps. The assumption used is `ReservationAssumption`.

`ReservationProofs` goes on with the comments: `CancelledStaysSilent`, for every
set of commenters and every number of comments. It takes that a cancelled
reservation stays so through every step of the requests and listings
(`EndedStays`, from the refinement's board steps), that a comment request begins
only on one that is not cancelled, and `IInv` with `CTypeOK`: a request that is to
erase a comment names one that is there, although it was chosen when the request
began and no lock is held until it writes.

`MatchQueueProofs` proves for every set of workers, players and rooms, every
window, delay and number of attempts: `EventsSettleOnce`, `SidesAlwaysAgree`,
`EventsGivenUpInTime`, and the refinement `QueueKeepsTheBook`. What goes wrong
in a queue like this goes wrong between a worker's reading and its commit, so
`QInv` says what stays true there: `Claims` (a claimed event is pending and
nobody else's), `Place` (the room was the player's and is locked from the
search on), `Found` (the line that was found is what the search would find now;
rooms may be sighted meanwhile, lines change under the room's lock only), and of
the lines themselves `Lines`, `Entered` (a side that is taken goes back to an
event that is done, and every such event is on one side of one line), `Joined`
(no two halves of one match) and `Attempts`. Assumptions: `QueueAssumption`
and `LineAssumption` (the value for "no line" is not a line).

`ChatProofs` proves `StreamsMissNothing` and `QueuesStayBounded` for every
number of writers and streams and every length of a queue. `ChatInv` adds
`Heard` (a stream that is open and not about to end is known to the bus),
`Announced` (a deletion in a queue has happened) and `Covered` (a row that stays
and is not older than the stream's snapshot is shown, queued, or still to be
published by its own request). That a bounded set of ids has a least and a
greatest, and in `CollectorProofs` that the samples of an hour have a peak, is
shown by the minimality of well-founded orders (`WFMin`), in place of an
induction.

`RpcnProofs` has three components.
- The session: `RepliesStayInStep` and `OneCallerAtATime`, for every number of
  threads, lobbies and calls. `RInv` adds `Exclusive` (past the lock is its
  holder) and `InStep`: the replies on the wire are numbered in order without a
  gap and end with the last question RPCN has answered, and the first of them is
  the one `Due`, the question asked now less the unexpected packets swallowed so
  far. Without it a reply that comes after a timeout would be the next caller's.
- Accounts: `BansTakeEffect`, for every set of accounts and every life of a
  token. `AccInv` bounds logins that are still to be signed (`LoginsFresh`) and
  tokens (`TokensTimely`) by the ban, and has `Others`: nobody asks for a ban
  of themselves, so each ban leaves the one who asked for it.
- The room list: `UpdatesAloneAreRight` and `PhantomsAreExplained`, for all
  lists, visits and lifetimes. `AloneInv` says what an update that is alone may
  rely on at each statement (`OnTrack`), whatever earlier overlaps left.
  `PhantomInv` has, while nothing has overlapped, the history that the tracker
  stands for (`Tracked`) and how far the update under way has brought it
  (`Stage`).

`CollectorProofs` too.
- The collector: `MatchesAreRecorded` and `RowsAreExplained`, for every set of
  observations. `CoInv` adds `CycleSeen` (what the cycle under way observed, and
  from its first commit on the participants) and `Memory` (the remembered ids
  are those of the last recorded matches, each with a row unless it took an id
  over).
- The statistics: `StatisticsAgree`, all four parts, for every length of hour,
  day and week and every retention. `StatsInv` adds `Samples` (a sample's rank
  players are at most its day's participants, who are committed first),
  `Opponents` and `Times` (a cycle writes before the next poll). The rest is
  about one state: a day begins with an hour (`DAY % HOUR = 0`), so an hour that
  a room covers lies on the room's days, and `days` back in hours or in days
  differ by less than a day.
- The process: `ClosesInOrder`. `LifeInv` says that the stack is a beginning of
  the order of opening, and how long it is in each phase.

`SaveCaptureProofs` proves `TalliesAddUp` and `PagesAreComplete`, and of what is
read of records and saves `TalliesOfBothSides` and `BoardsAreRight`.
- `CapInv` adds that ids are given out once (`Ids`), that a comparison's
  `before` is still what is kept (`Reading`), and that no event is newer than
  the save kept of its player (`Compared`). The theorem is of a single capture
  loop (`OneLoop`, its explicit hypothesis, which is what a deployment runs):
  with two, the statement is false, see the end of section 7.
- `RecInv` adds `Remaining`: a line that was there when reading began is shown
  or has an id below where the next page starts, and all that was shown lies
  above.
- The tallies: `RecordsKept` says that a line has two different players and
  that one without an opponent has only its own side's event. From there on it
  is counting. The library's sum over a set is a recursive function, so it is
  whatever function satisfies its equation: `SumOfSizes` shows that the sizes of
  unions of disjoint sets satisfy it and that no other function does on a
  finite set, by the least set on which two would differ. A player's lines are
  the disjoint union of those against each opponent (`TalliesSum`), and a line
  won by one is, under the same id, one lost by the other (`OneWinsOneLoses`).
- The boards: `RankInv` is only the types, for everything else is about one
  state. `AheadCount` and `SortedRight` show that counting who is ahead
  numbers the elements of a finite set from 0, so that `Sorted` lists each once
  and in order; `GroupStart` that a group of equals starts behind exactly those
  who are better; `TakenOut` that leaving players out of a placed board and
  sorting the others afresh give the same list and the same places.

`SiteProofs` is about board, popups, streams, saves and event on one cache, for
every set of requests, posts, players, channels and images, every time to live,
and a Redis that may lose anything: `SitesAreTyped`, `VotesAreCounted`,
`RepliesAreShown`, `WhatIsServedIsCurrent` and `MarksAreUnique`. The invariant
`SInv` is
- of the cache, `Current`: an entry nothing excuses is right, and so is what a
  request is about to fill in, unless a delete has come since it read
  (`late`). That second half is what makes the first inductive. `Paired`: the
  views that are cut out of one answer are of one answer as long as neither is
  excused;
- of the board, `Ballots` (who is between lock and commit of a vote holds the
  post's row and has counted what is there) and `Threads` (replies have one level
  and stay with their heads);
- `OnAir`, `Pictures` and `Edits`: a channel is one streamer's, a browser keeps
  only images that were loaded, no profile is edited past its save.

The assumptions are those the modules name, each of which TLC evaluates in
every run of its module. The ones worth knowing: `TxnSpan <= LISTING_GRACE`
(above); `ObservationsAssumption` and `SeatsAssumption` (RPCN counts the members
of a room and lists users by name, finitely many, and each in one room); `ListsAssumption` (a room of the list has one
or two users, in that room alone); `RecordsAssumption` (a new line has one
side's event, and two players are two; there are finitely many names);
`RanksAssumption` (a save has a rank and a number of games per character);
`CaptureAssumption` (the overlap is below the limit, as 16 is below 200);
`AccountsAssumption` (there are accounts). The others set apart values such as `Free`, `None` and `NoClient`
from what they stand beside, or say that a number is one.

Every safety property that a passing run checks is so proved for all values of
the constants. Left to TLC is liveness under fairness, which the prover does not
reach: `EveryRequestEnds`, `EveryTransactionEnds`, `EveryMessageArrives`,
`EveryEventSettles`, `EverySaveCompared`, `EveryCallEnds`, `CacheHeals`.

The library states what a fold or a recursive function computes with operators
as parameters, which the provers cannot instantiate. Where a proof needs such a
fact (a least id, a peak, a sum) it goes by a least counterexample in a
well-founded order (`WFMin`) instead; where the library's operator cannot be
expanded at all (sorting a sequence), the model has a definition that says what
the code's call returns.

## 6. Where the code and its documentation disagree

The six violation runs each check one sentence of the documentation and TLC
finds a short history in which the code does otherwise: see `findings` in
`PROJECT.json`, with the lines of both.

Other behaviour that the models have because the code has it, and that a reader
of the documentation may not expect:

* A match in a room whose id held another match one poll before is not recorded
  (`history/collector.py:47`).
* Two updates of the search tracker that overlap may raise, and the visit that
  ran into it fails (`matching/matchmaking_tracker.py:79-105`).
* A comment may appear on a reservation that is cancelled already: `add_comment`
  checks the status on a row it read without a lock, and its insert waits for a
  cancellation under way and then succeeds (`reservation/adapters/postgresql.py:332`).
  `ensure_commentable` and the test of it say that cancelled reservations take no
  comments.
* A lobby that refuses a search is left out, and the answer does not say so
  (`matching/adapters/rpcn.py:48-53`); its players then look as if they had left.
* The list of posts shows votes and comment counts of up to one time to live
  ago: votes and comments delete only their post's entry
  (`community/service.py:31`).
* An edit of a save whose answer is lost was applied, and the profile shows the
  old one until it expires (`saves/service.py:180`).
* `EventService.player` answers null when Redis loses the entry it has just set
  (`event/service.py:109-112`).
* Every player in a rank room is a participant of the day, waiting alone or
  not; the table's docstring speaks of completed matches
  (`history/entities.py:38`).
* The thread of a cancelled collection may open an RPCN session after the game
  server was closed (`Lifespan`).

## 7. Not modelled

* The encoding of packets and the calls of `rpcn_client` that the application
  never makes; the decoding of saves, done on another server.
* Texts, layout, HTTP routing and validation, error handlers, settings.
* Token and password cryptography; the lookup of an account, backups and the
  audit log, which are passed on.
* Averages in the statistics, characters and ranks of a recorded match, the
  filter by name, three players with a start of their own in the event.
* Cache entries that only age (leaderboard, server tree, statistics, tallies):
  `ReadThroughCache` is what there is to say about them.
* The migrations, which run before the program.

One thing about `SaveCapture` holds for a single capture loop only, which is
what a deployment runs: two captures that both find no state of a player lock
nothing, and the older answer may be written last.
